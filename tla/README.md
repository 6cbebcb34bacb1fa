# A verification project for xira

xira is a Go program that runs LLM agents behind chat channels. Users talk to
agents over Feishu, iLink (WeChat), WebSocket or HTTP; an agent may pause and
ask a human; flows chain agents, decisions and human approvals into durable
processes. What makes it hard is that a human answers minutes or days later: the
pause, the answer and the continuation live in different files, written by
different goroutines, across crashes and restarts of the process.

This directory holds TLA+ modules of that core, TLC configurations that check
them on small instances, and proofs of the properties that matter most. All
source paths below are relative to `src/apps/xira/`.

- [Inventory](#inventory)
- [Modules and how they correspond to the code](#modules-and-how-they-correspond-to-the-code)
- [Runs](#runs)
- [Bounds](#bounds)
- [Fairness](#fairness)
- [Proofs](#proofs)
- [Where the code and its documents disagree](#where-the-code-and-its-documents-disagree)
- [Not modelled](#not-modelled)
- [Plan](#plan)

## Inventory

| Component | State | Operations | What makes it correct |
|---|---|---|---|
| Human request store (`internal/humanrequest`) | one JSON file per request, one per response, a mutex per process | Create, RecordDelivery, FailDelivery, Resolve (exact or legacy), ClaimResume, CompleteResume, FailResume, List*, RecoverInterruptedResumes | an acknowledged answer lasts; one resumer at a time; no claim is lost in a crash; one pending request per dedupe key |
| Pause and resume of runs (`internal/runtime`: human_requests, human_request_resume, service, store) | `run.json` per run; one goroutine per turn and per resume | RunAgent, createAndDeliverHumanRequest, Resolve*, resumeResolvedHumanRequest, ReconcileHumanRequests, startup recovery | an answer is applied exactly once; no run waits for an answer that was used up; closed runs stay closed |
| Flow kernel (`internal/flow`) | `flow_run.yaml` per run, an in-memory lock per run | Start, Advance, Resume, each a chain of durable updates | steps only run when a transition leads to them; a paused run waits for its own step; nothing is done twice; ended runs stay ended |
| Chat routing and steering (`internal/channelrunner/progress`: router, chatkey_session, steering_queue) | per chat: an entry with the active turn and a queue of interjections | Handle, Route/Start/Abort, markComplete, prune; runTurn and its restart loop | one turn per chat; an interjection is taken up or answered; every turn ends and settles its message |
| Progress feed (`progress/chatcontext.go`, `im_renderer.go`; `runtime/event_dispatch.go`) | per turn or message: a queue, quotas, what was said, a sending goroutine | Emit, enqueue, dequeue, drain, send, Reset, Stop | no flood; a question reaches the channel before the turn is over; a turn is not held up by its feed |
| Spawned children (`internal/runtime`: spawn_turn, poll_turn, answer_child; `progress`: spawn_collector, child_cancel_registry) | slots per parent run, results and cancel functions per chat | spawn, deliver, poll, cancel, answer, reset | slots are bounded and returned; a result is kept for the run that spawned it; an answer that was promised arrives |
| Dedupe and ingest (`internal/channelrunner/dedupe`, `ingest`) | a map of message keys, rewritten to one file | Begin, Complete, Forget, prune, load; Gate, Observe | every copy of a message in a history is accounted for |
| Sessions (`internal/session`) | histories in memory and JSON lines on disk | Append*, History, load | memory shows what is on disk, and neither loses a line |
| Owner binding (`internal/runtime`: owner_bind, notify_owner) | bindings in memory and in one file, one-time codes | /bind, IsOwner, startup codes, the answer of an owner, notify_owner | who was told to own an entrypoint does; an exact response comes from the owner; one notification per run |
| WebSocket connections (`internal/channelrunner/websocket`) | a registry from chat keys to connections, a read loop per connection | message, ping and answer frames, takeover of a stale owner, emit | an answer goes where it was promised; a dead connection traps nobody |
| iLink accounts (`internal/channelrunner/ilink`) | a map of pollers, a monitor each, a record, a cursor and a dedupe file per account | CreatePairing, PollQRStatus, AddAccount, DeleteAccount, Start, Stop | one monitor per account; what is on disk is what runs; a paired account is polled |
| Feishu channel, channel manager, HTTP API, command line | callers of the above | start and stop in order, dispatch | - |
| Registries (`agents`, `entrypoints`, `skills`, flow definitions) | read at startup | lookups | pure |
| Tools, model client, recorders, usage | files, subprocesses, an external service | single calls | the outcome is an input of a turn |

How they interact. A channel takes a message through ingest and dedupe to the
router, which starts a turn (`RunAgent`) or queues the message for the running
one. A turn that calls the tool `human.request` creates a request in the store,
delivers it over a channel, and ends with `run.json` saying `waiting_human`. The
answer comes over HTTP, a chat, or a card; it is stored, the resume is claimed,
and a goroutine loads the run, calls the model, saves the run, sends the final
answer and completes the claim. For an approval of a flow the claim is
dispatched to `ResumeFlow` instead. `xira serve` first turns claims that a dead
process left behind into retryable ones (`NewService`), then opens the channels,
and only then reconciles what can be retried.

While a turn runs, its events and those of the children it spawned go to the feed
of its chat; a message that comes in meanwhile is queued, and at the next
checkpoint the run is cut short, its children are canceled, their results and the
feed are reset, and the run starts again with the message. When the turn ends, its
round is appended to the session and its message is settled in the deduper.

Hard behaviours: crashes between and inside writes; two processes on one state
directory (every command builds a `Service`, and with it runs the recovery);
answers that come early, twice, or differently; resumes that work for minutes on
a run they loaded at their beginning; calls cut off by their context between two
updates; loops in flows; a counter that is read in one critical section and used
in another; children, answers and senders that outlive the turn they belong to;
two files that one operation changes one after the other; a connection that is
replaced while a turn answers to it. `PROJECT.json` lists each with the line where
it bites.

## Modules and how they correspond to the code

| Module | Models | State |
|---|---|---|
| `HumanRequestRecord` | the pure part of the store: what an operation does to a record | none; `NeedsRetry`, `SameResponseRetry`, `ExactlyAuthorized` ... have the names of the Go functions |
| `HumanRequestStore` | store.go, interaction_store.go, file_store.go | `file`, `responses`, `leftover` are the directory; `op[p]` is the operation that holds the mutex of process p; `holders` counts the resumes in progress; `acked` remembers what callers were told |
| `HumanRequestLifecycle` | the abstract specification: the life of a request | `phase`, `answer`, `accepted`; no files, no processes |
| `HitlResume` | the goroutines between the two stores | uses `HumanRequestLifecycle` as its store; `saved` is run.json, `job` what each goroutine is at, `backlog` the list of the reconciliation |
| `FlowKernel` | Start, Advance, Resume and the dispatch of answers to them | uses `HumanRequestLifecycle` too; `op` is the call that holds the lock of the run, one step of the module per update of flow_run.yaml |
| `ChatSession` | router.go, chatkey_session.go, steering_queue.go, dedupe.go, as the channels use them | one chat; `seen` is the deduper, `handler[m]` the goroutine that handles message m, `entry` the router's objects and `routed` the one in its map, `turn[m]` the turn that m started |
| `ChildTurns` | spawn_turn.go, poll_turn.go, answer_child.go, spawn_collector.go, child_cancel_registry.go and what the turn engine does with them | `run` numbers the runs of the chat's turns, `phase` is where the turn engine is, `child[c]` the goroutine of a child, `slots`, `results`, `registry` the shared state |
| `OwnerBind` | owner_bind.go, notify_owner.go, the owner's answer in human_requests.go | `bindings` and `file`, the write lock (`writer`) and the read locks (`reading`), `codes`, `replies` what a /bind is about to say, `told` what senders were told, `lost` whose file a start found torn |
| `MessageIntake` | ingest.go, dedupe.go, file_store.go and manager.go of session, as one worker per delivery uses them | `entries` and `seenFile`, `steered` the queue of the chat, `handed` what was ever in it, `memory` and `disk` count the copies of every line |
| `WsConnections` | websocket/runner.go, human_response.go | `registry`, `handler[c]` the frame a read loop is at, `turn[k]` the router's turn, `promised` what clients were told to expect |
| `ProgressFeed` | im_renderer.go ("raw"), chatcontext.go ("bus"), event_dispatch.go, event_mapping.go | `feed[m]` queue, quotas, sending goroutine; `emitter[p]` the event a producer is handing over; `tried` what was given to the channel, `failed` what it did not take, `refused` what met a queue full of urgent events |
| `IlinkAccounts` | the accounts of ilink/runner.go | `accounts` is the map, `poller` the pollers with their monitors, `pairing` the pairing goroutines; `record`, `cursor`, `seenFile` are files; `dropped` counts the notes of a message that were lost, `unsaved` are the accounts whose last write or removal was reported as failed |
| `HumanRequestStoreProofs`, `HitlResumeProofs`, `FlowKernelProofs`, `ChildTurnsProofs`, `MessageIntakeProofs`, `WsConnectionsProofs` | proofs about the module of that name | see below |
| `ProgressProofs` | proofs about `ProgressFeed` and `ChatSession` | see below |
| `EntrypointProofs` | proofs about `IlinkAccounts` and `OwnerBind` | see below |
| `MC*` | instances for TLC | answers, questions, flows and events to check with |

**HumanRequestStore.** An operation decides (`Create`, `Resolve`, ...), then
goes through the stages of its write: `WriteResponse` for an answer, then
`CreateTemp`, `FillTemp`, `Rename`, any of which may fail (`WriteFails`) or be
the last thing the process does (`Crash`). A crash leaves the temporary file,
whole or `Torn`; `Listed` contains such files because `listLocked` takes every
name that ends in `.json`. `Start` is `RecoverInterruptedResumes` at the start
of a process: it lists, and rewrites the stale claims one after the other. An
operation that is refused writes nothing and is no step. Abstracted: which
question and options, the audit trail, timestamps (an answer is simply `late` or
not).

**HumanRequestLifecycle.** absent, open, undeliverable, answered, resuming,
retry, done. `HumanRequestStore` maps its files to it (`Phase`, `AnswerOf`); a
step happens when the rename happens. `HitlResume` and `FlowKernel` build on the
lifecycle rather than on files, which the refinement justifies for one process
whose crashes fall between writes.

**HitlResume.** A turn (`StartTurn`) may ask (`AskHuman`), the question is
delivered or not, and the run is saved in two steps, `Truncate` and `Write`,
because `SaveRun` overwrites the file in place. `Answer` stores an answer and
leaves a caller behind that claims the resume (`CallerClaims`); `Load`,
`Conclude`, `TimeOut`, `Emit` and `EndResume` are the resume from its load to
`CompleteResume`/`FailResume`. `Recover`, `Serve`, `ListResumable` and
`Reconcile` follow the order of `NewService` and `serve` in `cmd/xira`. A turn
asks at most one question at a time; a question the model asks together with
others is one request here. A behaviour is in one of some `Situations`: two runs
that ask once, with a crash, or one run whose resumed turns ask again, with calls
that fail; with humans who wait for the run to be saved (`patient`), or who answer at
any time. `early` remembers the answers that came while the worker that had asked was
still at work.

**FlowKernel.** `Route` is `resolveNext` with the evaluation of a branch
condition: the branches before the one that matches must have their output set,
otherwise the transition fails. `BeginStep` is `MarkStepRunning`, `Applied` is
`applyStepResult`; `Pause`, `Complete`, `FailTransition`, `Retry`,
`RouteAfterFailure`, `GiveUpRun`, `CancelRun` are the updates of the functions
with those names. `Interrupt` ends the call in hand before its next update: the
crash of the process or the end of the caller's context, which `UpdateRun`
checks. An agent that asked is resumed by `AgentResumes`, which stands for
`HitlResume`. Abstracted: branches compare one output with one value; inputs,
policies, artifacts and the event log are left out.

**ChatSession.** `Begin` is `MessageDeduper.Begin` for a message that is not a
duplicate (a duplicate is ignored, which is no step). A handler consumes an
/answer command (`ConsumeCommand`), or looks the router's entry up (`LookUp`,
under the router's lock, with its prune) and then takes the lock of the entry
(`Enter`): the two critical sections of `Handle` and `Route`. Between them the
entry may be evicted. A turn goes through reserved, run, steered, concluded,
succeeded or failed, settled: `Checkpoint` only peeks at the queue, `TakeUp` is
the restart of the run with the oldest interjection, `Conclude` and `Suspend` the
end of a run with and without a last look, `Settle` the deferred DedupeComplete or
DedupeForget, `MarkComplete` the router's. `AckFails` is the websocket's Abort.
`NearAge` and `Age` are the clock of an idle entry. A crash keeps `seen` for the
channels that have a dedupe file. Abstracted: spawned children (`ChildTurns`), the
feed (`ProgressFeed`), ingest's gate and the expiry of `seen` (`MessageIntake`).

**ChildTurns.** A spawn call is `CheckOutstanding` and `ReserveSlot`, the two
critical sections of `evaluateSpawnGuardrails`, then `Spawn`, which registers the
cancel function before the goroutine starts. The goroutine of a child goes on with
its deferred calls one by one: `Return`, `Deliver`, `Unregister`, `ReleaseSlot`. A
child that asks a human returns with that (`AskHuman`); the parent sees the question
with `Poll` and answers with `AnswerChild`, which says "answering" and leaves
`ResolveAnswer` to a goroutine, while a human may be faster (`HumanAnswers`).
`Steer`, `CancelForSteer`, `Restart` are the restart of a run by an interjection,
`EndTurn`, `ResetAtEnd`, `CancelAtEnd` the deferred calls at the end of a turn, and
`NextTurn` the next one with the same collector. A child is named by its call.

**OwnerBind.** `/bind` holds the write lock over `Bind` (or `Enrich`, by an owner
whose kind of identity was unknown), `Truncate` and `Write` of the file, and `Revoke`
of the code; `WriteFails`, before or after the file was emptied, rolls memory back.
The `Reply` comes after all that, from the channel. A crash may fall between any two
of these. An exact response holds the read lock over `BeginAnswer` and `StoreAnswer`;
`AnswerUnchecked` is `ResolveHumanRequest`, through which the HTTP API, the command
line, a parent agent and the interpreter of free text answer without a look at the
owner. `BeginNotify` and `Emit` or `EmitFails` are one call of notify_owner under the
lock of the run's state. A restart (`Crash`, `Load`) reads the file, takes a torn one
for no binding, and makes codes for the entrypoints that are not bound.

**MessageIntake.** `Decision` is the gate, in its order: mention, then permission or
/bind. A delivery is begun in the deduper, then observed (an append of one line and
`Settle`) or routed: `StartTurn`, or `Steered` into a turn that runs, and then nobody
settles it. A turn ends (`TurnEnds`) with an append of its question and its reply;
cut short, it goes on with a queued message (`TakeUp`); `Settle` is about the message
that started it. With `DedupeFile` FALSE the deduper has no path, like the
websocket's, and a restart forgets what it knew. An append
goes through the files of a session in the order of the code, the conversation
first, then the lines, then the state of the agent, then memory; each may fail.
`Expire` is the hour of the deduper; a crash leaves what is on disk.

**WsConnections.** A frame reaches the read loop (`Receive`, `Ping`, `CheckAnswer`),
which handles it in the steps of the code: register the key, begin the message in
the deduper, route it, acknowledge it; each can fail with its way back. Turns run in
goroutines and look their connection up in the registry when they answer. `Lose` is
a client that is gone, noticed or not; `GoStale` a minute of silence.

**ProgressFeed.** `ClassOf` is the mapping of runtime events, `Passes` the filter of
a feed with its quota. The raw feed filters and counts when an event is handed over,
the bus feed when its goroutine has taken it out of the queue; `Enqueue` of the bus
evicts an event that may be dropped, or refuses the one that comes. `Dequeue`, `Wake`,
`Drain`, `Dispatch`, `Send` are the sending goroutine; a `Send` may fail, which is
logged and never repeated. `CancelTurn` ends the context of a turn. No channel of
the repository feeds its chat over the bus any more (chatkey_session.go:273-275: "none
in-tree after the ilink/feishu migration, but the path is preserved"); it is modelled
because the code is there and is tested. `CancelFeed`, `CloseFeed`, `ForgetRun`, `Reopen` the
reset, `StopFeed`, `Stopped` the stop.

**IlinkAccounts.** A pairing is `CreatePairing`, `PollQRStatus`, `Confirmed` and then
`AddAccount`, which saves the record, registers the poller in place of another one,
starts it and reports, a step each. `DeleteAccount` takes the account out of the map
and `RemoveRecord` the file away. A monitor is `Fetch`, `HandleMessage` (through the
deduper of the account) and `SaveSyncBuf`; one that was canceled may go on with what
it has until `MonitorStops`. The turn of a message outlives its monitor and ends in
`Settle`, which completes or forgets it; `Expire` and `ExpireOnDisk` are the hour of
the deduper. Every write may fail and leave the old file, the new one or a wreck
(`Wreck`), and so may the end of the program (`CutOff`). `Start`, `StartNext`, `Serve`, `Stop` follow the runner
and `serve`. The client of the platform is external, modelled from its callbacks.

How the modules fit together: `HumanRequestStore` implements `HumanRequestLifecycle`,
on which `HitlResume` and `FlowKernel` are built. `ChatSession` is the turn of a
message; what happens beside a turn is in `ChildTurns` and `ProgressFeed`, what
happens before it in `MessageIntake`, `WsConnections` and `IlinkAccounts`, each with
the part of the turn it meets: a restart and an end in `ChildTurns` and
`ProgressFeed`, its outcome in `MessageIntake`, its start and its answer in
`WsConnections`.

## Runs

| Run | Expect | What it shows |
|---|---|---|
| `HumanRequestStoreTorn` | pass | crashes anywhere, torn files included: claims are exclusive, acknowledged answers last, the response file comes first, no second pending request for a key, closed requests stay closed |
| `HumanRequestStoreClean` | pass | crashes between writes and failing writes: stale claims are recovered, the store implements `HumanRequestLifecycle` |
| `HitlResume` | pass | two runs with a crash anywhere outside a save, one whose human may answer before it is saved, or a chain of questions with failing models and deliveries: applied once, one worker per run, nothing stranded, closed runs are kept, every answer is acted on |
| `FlowKernelGate` | pass | a flow with every kind of step, retries and failure routes, and a call cut off anywhere: nothing is done twice, steps are only reached over transitions, a pause waits for something, a running flow ends or waits |
| `ChatSession` | pass | three messages, redelivered, on either kind of channel, with evictions and a crash: one turn per chat, a message is held in one place and answered once, and every turn ends and settles its message |
| `ChildTurns` | pass | three spawn calls for two slots over two runs: slots match their holders and are returned, results are kept for their run, an answer that was promised arrives |
| `OwnerBind` | pass | two entrypoints, writes that fail or are cut off, crashes between write, revocation and reply: who was told to own an entrypoint does, an exact response comes from the owner, one notification |
| `MessageIntake` | pass | messages that are observed, dispatched, steered or rejected, redelivered, with expiries, errors and a restart: every copy in a history is accounted for, what is in the history is remembered, nothing is forgotten |
| `WsConnections` | pass | two connections for one chat that come and go: an answer goes where it was promised, answers to questions come from the owner, nobody is trapped |
| `WsConnectionsMixedCase` | violation | a chat id with capitals: a running turn loses its connection to another client |
| `ProgressFeed` | pass | both feeds with a full queue, used-up quotas, failing sends, a reset, a canceled turn and a stop: no flood, questions reach the channel, the turn released and its feed silent afterwards |
| `IlinkAccounts` | pass | an account of the configuration and another one, paired or deleted while a message is at work, with failing turns, an hour that passes, a write or monitor that fails or is cut off and a restart: disk and map agree, one monitor per account, a message is handled again only for a reason, paired means polled |

Each property of a passing run is also checked to fail for a fault put into the
model of the code: the operators marked "Fault model" or "A mutant" (a dropped
guard, a forgotten reset, a swapped order) stand before the definitions they
replace.

## Bounds

- **Store**: two requests (a duplicate needs two), three answers that tell apart
  every field the store compares (sender, message, content, idempotency key), one
  crash, and in the clean run one failing write. One crash suffices for each of
  the leftovers a crash can produce to meet every later operation.
- **HitlResume**: two runs with a question each and a crash, one run with an
  impatient human and a crash, or one run with a chain of three questions and one
  error. A second repeated answer or failing call meets the same states as the first.
- **FlowKernel**: five steps, two requests, one call cut off; the definition has
  one step of each kind of executor and of each kind of way out.
  Its retry policy allows two attempts, the least that distinguishes retrying
  from giving up.
- **ChatSession**: three messages (one that is worked on, one that waits, one
  that comes), four deliveries in all, so that one of them is delivered again
  after it was forgotten; two entries, the one in the map and the one that
  replaces it; one crash.
- **ChildTurns**: three calls for two slots, so that one is refused and may be made
  again; one child may ask; two runs, so that the second meets what the first left.
- **OwnerBind**: an entrypoint with a configured owner and one without, two senders,
  two parallel calls of notify_owner (symmetric), one failing write, one restart.
- **MessageIntake**: one message of each kind (observed, dispatched, rejected),
  two workers (symmetric), two errors, one expiry per message, one restart. Two workers
  suffice for a turn and a message that is steered into it.
- **WsConnections**: two connections, as a takeover needs two, and two messages of
  one chat, one for the running turn and one that is steered. The violation run has
  the chat in two spellings.
- **ProgressFeed**: two messages, one steered into the turn of the other, two
  children that report at once, quotas of one, a queue of one, three events: one
  that fills the queue or the quota, one that meets it, one in between.
- **IlinkAccounts**: an account with a poller from the start and one without, a pairing
  that may be of either, a message, one restart, one error, one failed turn or hour.
- Four more instances pass with the same properties, but are no runs of their own:
  `NotStranded` in `HitlResume` for humans who answer at any time (`patient` FALSE in
  every situation); `CopiesAccounted` in `MessageIntake` for a deduper without a file,
  with a /bind of a stranger as the fourth message, one error and no expiry; and
  `IlinkAccounts` with two pairings of one account that the configuration does not have,
  or, without `PairedIsPolled`, with two messages (symmetric).
- `CHECK_DEADLOCK FALSE` in every configuration: when all is done, or nobody
  answers, the system rests; each configuration says when.
- Requests, workers, calls and messages are symmetric only in runs that check no liveness.

## Fairness

`HitlResume`: goroutines that were started keep running, a resume has a deadline
(`TimeOut`), the process is started again after a crash, and each stage of the
startup is reached. Nobody is obliged to answer, to repeat an answer, to start a
turn, and no call is obliged to fail. `AnswerActedOn` speaks of answers that were
stored, so no human is obliged to be fast. It excuses answers that came while the turn
that asked was at work (`early`): they are used up on a run that is not paused yet (see
below).

`FlowKernel`: a call in hand goes on, and somebody keeps calling `Advance`, as the
command line and the API do while a run is running. Retries and routes are then
bounded, and `EndsOrWaits` holds for definitions without loops.

`ChatSession`: handlers and turns go on (`Handle`, `Advance`): a started goroutine
is scheduled, and a run of a model ends, be it with an error. No failure, no
delivery and no crash is obliged to happen.

`ChildTurns`: started tool calls and goroutines go on, and a child ends, at the
latest at its timeout. Nobody has to poll, to answer, to steer or to end the turn.

`WsConnections`: read loops and turns go on and time passes (`GoStale`). No client
has to send anything, and the server never has to notice that one is gone.

`ProgressFeed`: goroutines go on, and a send returns, as its context ends it after
ten seconds. Whether a run ends is up to the run.

`IlinkAccounts`: a program that is stopping ends and one that has ended is started
again; goroutines go on; a monitor that was canceled returns. No message has to
come and nothing has to fail.

`HumanRequestStore`, `OwnerBind` and `MessageIntake` have no fairness; all their
properties are safety properties.

## Proofs

The theorems hold for any values of the constants: any requests, messages,
entrypoints, flow definitions, any number of crashes, failures and deliveries.

| Module | Theorem | Property | Assumes |
|---|---|---|---|
| `HumanRequestStoreProofs` | `TypeCorrect` | `TypeOK` | nothing, any number of processes |
| | `ResponseFileComesFirst` | `ResponseFileFirst` | nothing, any number of processes |
| | `OneResumerAtATime` | `ClaimExclusive` | one process |
| | `AcknowledgedAnswersLast` | `AckedAnswerPersisted` | one process |
| | `NoDuplicateQuestion` | `OnePendingPerKey` | one process |
| | `ClosedForGood` | `ClosedStaysClosed` | one process |
| | `NoClaimIsLost` | `StaleClaimsRecovered` | one process, no crash inside a write |
| | `StoreImplementsLifecycle` | `LifecycleSpec` | one process, no crash inside a write |
| `HitlResumeProofs` | `RunHasOneWorker` | `OneWorkerPerRun` | undisturbed: patient humans, no crash in a situation with a chain of questions |
| | `ClosedRunStays` | `ClosedRunKept` | undisturbed |
| | `AnswersTakeEffectOnce` | `AnswerAppliedOnce` | undisturbed, agents stay configured |
| | `NobodyStranded` | `NotStranded` | agents stay configured; answers at any time, any crashes, chains too |
| `FlowKernelProofs` | `NothingDoneTwice` | `NothingTwice` | nothing, also for definitions with loops |
| | `RunsPauseOnSomething` | `PausedOnSomething` | nothing, also for definitions with loops |
| | `RunsFollowRoutes` | `OnlyRouted` | nothing, also for definitions with loops |
| `ProgressProofs` | `OneTurnAtATime` | `OneTurnPerChat` | no entry comes of age between lookup and lock |
| | `MessagesAnsweredOnce` | `AnsweredOnce` | nothing |
| | `ChatsAreNotFlooded` | `NoFlood` | nothing |
| | `QuestionsAreShown` | `QuestionsShown` | nothing |
| | `FeedsFallSilent` | `SilentAfterwards`, the half of `TurnReleased` about steps | nothing |
| `ChildTurnsProofs` | `SlotsAreMatched` | `SlotsMatch` | nothing |
| | `ResultsAreKept` | `ResultsKept` | nothing |
| `MessageIntakeProofs` | `CopiesHaveReasons` | `CopiesAccounted` | no file is torn; with or without a file of the deduper |
| | `SeenStaysKept` | `SeenIsKept` | the same |
| | `NothingIsForgotten` | `NothingForgotten` | the same |
| `WsConnectionsProofs` | `OwnersAnswer` | `AnswerFromOwner` | nothing |
| | `PromisesKept` | `AnswerGoesWherePromised` | clients spell a chat canonically |
| `EntrypointProofs` | `OwnersAnswer` | `AnsweredByOwner` | nothing |
| | `OwnerNotifiedOnce` | `NotifiedOnce` | nothing |
| | `BindingsLast` | `SuccessLasts` | nothing |
| | `AccountsPolledOnce` | `PolledOnce` | operations on one account do not overlap |
| | `AccountsSurviveRestart` | `SurvivesRestart` | the same |

The assumptions are hypotheses of the theorems, not of the modules, and each is
needed: without it TLC refutes the property (see the next section). What the
modules themselves assume of their constants is in their ASSUMEs, which every run
evaluates.

**The store.** `BaseInv` is the typing strengthened by the shape of records
(`WellFormed`: status, response and resume agree), by what an operation in hand
may be (`OpShape`), and by `Backed`: an answered record, in a file, in hand, or
in a temporary file a crash left, has its response on disk. It is inductive
without any assumption, and `ResponseFileFirst` is part of it. It is needed
because a leftover file can come back: the recovery reads it and writes it over
the request of the same id. `SingleInv` adds what the mutex buys when there is one
process: the record in hand was loaded from the file that is still there
(`InHand`), a caller that holds a claim has it running on disk (`HoldersRun`), and
a leftover that recovery would pick up carries the answer that is on disk
(`LeftoverFits`). With two processes `InHand` is what breaks. That `ClaimExclusive`
also says of a claim that the file has it running is `HoldersRun`: a caller that has
given its claim back, completed or failed, does not hold it any more. `RecoversOnce` and
`ClaimsAccounted` hold only without torn writes and give `NoClaimIsLost`. The refinement maps the files to the
phase of a request; the step happens at the rename.

**Resumes.** No lock belongs to a run: `RunAgent` and the resumes of its requests
load run.json, work for minutes and write it back. That they do not meet follows
from what each of them needs to begin. `Claimed`: a resume at work holds the claim of
its request. `OneLive`: a run has one request whose answer can still take effect,
except while a worker asks the next one, and then that worker is the only one.
`Loaded`: what a worker loaded is what it will overwrite. `Results` and `Refused`: an
answer that was applied closed its run, or let it ask again and was done with; so a
retry finds the run closed, or does not come. `ActedOn`: a claim ends only when its
answer is in the run. Each hypothesis closes one way around this: an impatient
human's answer meets the pause before the one it is about, a crash after a resumed turn has asked again has the old answer
retried beside the new question, and an agent that is gone uses its answer up.

That a waiting run waits for something needs less, and has an inductive invariant of
its own, `PauseInv`, for which crashes do not matter, not even after a resumed turn
has asked again, and humans need not wait for the save. `Asking`: what a worker asks is
asked by no other, and open unless it was answered meanwhile, so that whoever saves a
pause leaves a question behind it. `FirstTurn`: as long as the turn that started a run
has not saved it, there is no run.json or half of one; a resume that comes early fails
there, changes nothing, and hands its request back to be retried. `Expecting`: one of
the requests of a waiting run is open, answered or claimed, and its resume, if it is at
work, is not past its save; a resume that ends without a save hands the request back.
The exception are runs that an answer has `Overtaken`: an answer to a question of a
*resumed* turn, given before that turn has saved its pause, finds the run still waiting
from the question before, is applied to that pause, and is used up.

**Owners.** `OwnerTypeOK` includes that a /bind is alone with the bindings (its own
theorem, `BindIsAlone`). From it `ReadersOwn` is inductive: whoever holds the read
lock is the owner, since no binding changes meanwhile; `AnsweredByOwner` is a
property of the step that stores an exact response, and says nothing of the answers
that are stored unchecked. `OneSender` counts notifications by the
flag and the lock of the run's state. `ToldIsCommitted` relates five pieces of
state through `Committed`: the binding of an entrypoint is in memory, or, while a /bind
may still roll it back, in the hand of that /bind, or on disk while the process is
down. Who was told (`ToldHolds`), what is about to be said (`RepliesHold`), which codes
are valid (`CodesMatch`) and what a file that can be read says (`FileMatches`) all agree
with it. A file that cannot be read is no assumption: a start that finds one notes in
`lost` whose bindings it took away, and these are the only ones that `SuccessLasts`
excuses. That the disk may lack acknowledged ones is the refutation of `SuccessIsOnDisk`.

**The flow kernel.** `KernelInv` is the typing with four parts. `AtCurrent`: a call
in hand is about the current step, which is running until its result is applied.
`Attempts`: a step that is about to start has an attempt left, which is what makes
the limit inductive across retries, loops back and cut-off calls. `Executions`: a
running step whose result is not applied may still be executed within its bound, and
a call that is cut off pays with `interrupts`. `Answers`: a step waits for requests
it asked itself, and for none whose answer was used; linking is therefore undone by
the first resume, and a second one finds nothing. The lemmas follow the calls:
those that return with an update of the run share one (`ReturnsKeepsInv`), those
that only move a request in the store another (`StoreMovesKeep`).

**The chat.** `OneTurnInv` adds to `OneTurnPerChat` that the entry a handler has
looked up is still the one in the map when it takes its lock (`RoutedToEntry`); that
is the gap between the two critical sections of `Handle`, and the assumption about
ages is what closes it. That a message is answered once does not depend on it:
`Apart`, turns at work have different messages as their subject, holds even for two
turns of one chat. `MessageInv` says where a message may be: in a handler, in
one place of one queue, the subject of a run, or with its own turn to settle; it is
processing in all of them, they exclude one another, and one that was answered is
in none.

**The feed.** `FeedInv` says of each message how its feed follows its turn
(`Follows`), and where an event may be. The raw feed counts before its queue, the bus
feed behind it, so for the raw feed what was said is tried, in the queue, or in the
hand of who is about to put it there, in one place only (`OnePlace`), while for the
bus feed it is tried or being tried; what the channel did not take is in `failed`, and
is not tried again. `Counts`: the counters are the numbers of events
that were said, of the run and of its children; that is what makes the quota, which
is compared in one critical section and used up in another, a bound on what is tried.
`OwedIsKept`: a question that is owed is tried or on its way, since the queue
evicts only what may be dropped, and that is never a question, or it was `refused` by a
queue full of urgent events, or its turn was canceled; the lemmas about `LeastOf`
and `Without` say so of any queue. When the turn is over the goroutine has exited,
which it does only with an empty queue: what was owed was given to the channel, and nobody is left who
could send anything more.

**Children.** `SlotsCounted`: the counter of a run is the number of the children that
hold a slot of it. It is an invariant although the counter is checked and increased
in two critical sections, because the second one checks again, and a child gives back
only what it took, in the counter of its own run. `CallsOfRun` and `RunsSoFar` tie tool
calls to the run they belong to, `Reachable` says that what outlives its run is
canceled or still to be canceled: the cancel function is registered before the
goroutine starts.

**Messages.** The account behind `CopiesAccounted` is kept per message
(`Copies`): the copies on disk, those a goroutine still owes and those queued for a
turn that runs (`Spent`) have a reason each (the message, an expiry, a forgotten
delivery, an error, a restart of a deduper without a file), and while the deduper, in
memory or in its file, would let the message begin, one reason is unused. `Turns` ties
what a goroutine works on to the message that started its turn and to those that were
handed to it. `Shown` is the same as `Copies` for the copies in memory. `Behind` says that memory is ahead of the disk in
nothing. Half a line would take a whole one with it, so `Whole` needs the hypothesis.

**Connections.** A connection that is at a frame has just been heard of, and is no
prey for a takeover (`Frames`); hence it still owns the chat when it goes on with the
frame (`Owned`), although it looked that up in an earlier critical section. That is
enough for answers. A promise is about the turn that runs (`Promises`); a running
turn keeps its chat with its connection, as long as the key under which the router
is asked is the one it knows.

**Accounts.** `Handled` is the account of a message: how often it was handled, and
how many pollers may still handle it, are together at most one more than the
account was paired and the note of the message was `dropped`: by a turn that failed, an
hour that passed, or a write of the dedupe file that failed or was cut off. A message that
the file lacks was handled once less. It rests on `Monitors` (the monitor of a poller in the map is the
only one that is not canceled) and `InMap`. `Agrees` relates map and record
except between the two halves of a pairing or a deletion, and after a write or a removal
that was reported as failed (`unsaved`); `Hands` gives a pairing its
account to itself meanwhile, which is where operations that overlap break it.

Every safety property of a passing run is stated by a theorem. Only model-checked is
liveness (`AnswerActedOn`, `EndsOrWaits`, `EndsSettled`, `SlotsReturned`,
`AnsweringIsAnswered`, `NotTrapped`, the other half of `TurnReleased`,
`PairedIsPolled`): it rests on
fairness, and so on ENABLED, which the provers do not reason about. The violation run
stays with TLC too. What the theorems assume beyond the ASSUMEs is listed above; for
values of the constants that violate it the property is false, not unproved. No module
that is proved about uses a recursive operator.

## Where the code and its documents disagree

One run that TLC refutes, with the quotation in `PROJECT.json`: the WebSocket runner
lower-cases a chat key before it asks the router, which knows the chat as the client
spelled it; a chat id with capitals never counts as active, and its running turn can
be taken over (`WsConnectionsMixedCase`).

The conditions under which the passing runs hold stand for weaknesses of the code.
Each is a constant or a conjunct of a property; changing it makes TLC refute the
property named:

| Change | Refuted | Why |
|---|---|---|
| `Procs = {p1, p2}` in the store | `ClaimExclusive` | every command builds a `Service`, and its recovery takes claims away from a server at work |
| `CrashInWrite = TRUE`, two crashes in `HumanRequestStoreClean` | `StaleClaimsRecovered` | a half-written temporary file makes every listing, and so every later recovery, fail |
| `FoundByCorrelation` in `HumanRequestStoreTorn` | itself | the temporary file of an interrupted write ends in `.json` and is listed as a record: the request is found twice, or half a file makes every listing fail (store.go:274: "returns the unique request") |
| `patient \|-> FALSE` in a situation with a chain, and `NotStranded` without `Overtaken` | `NotStranded` | an answer that comes before a resumed turn has saved its pause is applied to the pause before it, and is used up |
| `AgentsMayGo = TRUE` in `HitlResume` | `NotStranded` | a resume whose agent is no longer configured ends without an error, and the answer is used up |
| a situation of `HitlResume` with a chain and a crash | `AnswerAppliedOnce` | a retried resume finds the run paused again and applies the old answer to the new question |
| `CrashInSave = TRUE` in `HitlResume` | `AnswerActedOn` | run.json is written in place; no retry can load a half-written run |
| `Steps <- ReviseSteps`, `Flow <- ReviseFlow` in `FlowKernelGate` (and the sayings and outputs of `ReviseFlow`) | `EndsOrWaits` | the revise branch of the release-review example leads back to steps that are completed; nothing schedules them again, and the run spins |
| `OnlyRouted` without `interrupts = 0` | `OnlyRouted` | a cancelled approval is first completed and then cancelled; a call cut off in between lets the flow go on |
| `AgeWhileRouting = TRUE` in `ChatSession` | `OneTurnPerChat` | an entry that becomes an hour old between its lookup and its lock is evicted, and the chat has two turns |
| `NoneLeftBehind` as a property of `ChatSession` | itself | a message queued after the last look of a turn is taken up by nobody (router.go: "reply comes via that turn's OnTurnResult") |
| `MaxParallel = MaxOutstanding = 1` and `OutstandingBounded` in `ChildTurns` | itself | a child that waits for a human has given its slot back, although the HITL plan has it "still counts against `max_outstanding`" |
| `NoStaleResults` in `ChildTurns` | itself | a child delivers after the collector was reset, into the results of the next run |
| `SuccessIsOnDisk` in `OwnerBind` | itself | owner-bindings.json is written in place; a later write that fails or is cut off takes away the bindings of owners who were told long ago (owner_bind.go:288: success honestly means that it is on disk) |
| `CrashInAppend = TRUE` and `RoundsWhole` in `MessageIntake` | itself | a round is appended line by line; a crash leaves a question without its reply |
| `InProgressIsCompleted` in `MessageIntake` | itself | a message that is steered into a running turn stays "processing" in the deduper; no turn completes or forgets it (ilink/runner.go:659: "the onNewTurn closure will Complete") |
| `TornWrites = TRUE` in `MessageIntake` | all three | half a line at the end of messages.jsonl takes the next one with it |
| `NoneLeftWaiting` in `ProgressFeed` | itself | the renderer of a message that is steered into another turn is never stopped: its goroutine stays |
| `Overlap = TRUE` in `IlinkAccounts` | `PolledOnce` | a deletion between the registration of a poller and its start leaves a monitor that no account knows |
| `PairedIsPolled` without its last disjunct | itself | a record that was cut off cannot be parsed, and ends every later start of the program |

Seen on the way, and visible in the modules: `EndsSettled` can speak only of the message
that started the turn, for the reason `InProgressIsCompleted` fails; the quotas of the raw
feed are not reset when a steered turn restarts; an account whose record could not be
removed cannot be deleted again before a restart, and one whose new record could not be
written keeps running under the old token, beside a file that may be torn (`unsaved`); a monitor that has failed
leaves a poller that looks as if it were running.

## Not modelled

- The model client, the tools and their sandbox: external calls, whose outcome is an
  arbitrary choice in `HitlResume`, `FlowKernel` and `ChatSession`.
- `delegate_agent`: the code has retired it in favour of `spawn_turn`
  (delegation.go:172), so the slots of `ChildTurns` have no other user.
- The filter of event frames by the subscriptions of a websocket client, and parsing
  and rendering of text, cards, frames and HTTP.
- Scopes and folders of sessions, and what of a history goes into a prompt.
- Configuration, agent profiles, skills, entrypoints and flow definitions: read at
  the start, then pure lookups. What a valid flow definition is, is `FlowAssumption`.
- Events on disk, recorders and usage: appended and never read back by the program.
- Two processes on one directory other than for the store of requests: the code
  has nothing that orders them, so there is no promise to check.

## Plan

Done: the store and its refinement, `HitlResume`, `FlowKernel`, `ChatSession`; then
`ChildTurns`, `OwnerBind`, `MessageIntake`, `WsConnections`, `ProgressFeed`,
`IlinkAccounts`; a theorem for every safety property they are checked for.

Left, in this order:

1. Theorems under weaker hypotheses, after TLC has found that they hold
   without the present ones: the promises of `HitlResume` for the runs of a chain that no crash
   meets, those of `IlinkAccounts` for accounts whose operations do not overlap.
2. The lookup of a reply in a chat by the text protocol as two steps.
3. The filter of event frames in `WsConnections`.
