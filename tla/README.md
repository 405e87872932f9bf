# Verification of the self update agent

TLA+ models of the self update agent (SUA), model-checked with TLC, with
theorems checked by the TLA+ proof system. Paths are relative to the repository.

The agent updates an operating system with two slots. An update manager sends it
requests over MQTT; the agent downloads a bundle, lets RAUC write it to the slot
that is not running, switches the slot of the next boot when it is told to, and
reports each step.

## 1. Inventory

### Components

| Component | Code | State it keeps | Operations |
|---|---|---|---|
| State machine | `src/FSM/FSM.cpp`, `src/SelfUpdateAgent.cpp` | active state, transition table | `handleEvent` (run the body, look up event and output, or drop), `transitTo` (`onEnter`, nested events) |
| States | `src/FSM/States/*.cpp` | none beyond the context | `body`, `onEnter` of ten states; two of them (`SendCurrentState`, `Cleaning`) leave themselves at once |
| Shared context | `src/Context.h` | desired state, current version, action status, `downloadMode`, `fallbackMode` | written by every handler and by the message callback |
| MQTT processor | `src/Mqtt/MqttProcessor.cpp` | connection, retry counter | `connected`, `connection_lost`, `on_failure`, `message_arrived`, `send`, `stop` |
| JSON protocol | `src/Mqtt/MqttMessagingProtocolJSON.cpp` | none | read three kinds of requests, create nineteen messages |
| RAUC client | `src/Install/DBusRaucInstaller.cpp` | `is_installing`, `is_succeeded`, signals waiting in GLib's main context | `installBundle`, `installing`, `getInstallProgress`, marks, versions, two signal handlers |
| Installer | `src/Install/Installer.cpp` | waiting time | `start`: call, poll loop, timeout |
| Downloader | `src/Download/Downloader.cpp` | the temporary file, progress limiter | `start` |
| Bundle checker | `src/Utils/BundleChecker.cpp` | none | two version comparisons |
| Dispatcher | `src/Patterns/Dispatcher.*` | subscriptions | subscribe, dispatch |
| Start-up | `src/main.cpp` | options | choice of mode, construction |
| Dummy installer | `src/Install/DummyRaucInstaller.cpp` | a counter | the installer's interface without RAUC |

### How they interact

* The MQTT client library calls back. A message callback *first* replaces the
  desired state (or only its activity id) and *then* calls `handleEvent`, which
  may drop the event. Connection callbacks raise events too.
* `handleEvent` runs the state's body synchronously. `Downloading::body` stays in
  curl, `Installing::body` in the Installer's loop. No other message is handled
  meanwhile, but connection callbacks, RAUC and a restart come in between.
* RAUC is a process of its own. It switches the next boot to the slot it has
  written; `Installed::onEnter` takes that back, `Activating::onEnter` does it
  again when ACTIVATE comes. It goes on when the agent gives up or dies.
* RAUC's signals reach `is_installing` and `is_succeeded` only when the agent
  iterates the main context, in `installBundle`, in `getBundleVersion`, in `installing`
  and in `getSlotStatus` (`DBusRaucInstaller.cpp:172`), which the booted version and
  `Activating::onEnter` ask for.

### What is hard here

Requests in any order, repeated or late, against a table that drops what it does
not know, after the context has already been overwritten; an installation
service with a life of its own (timeouts, signals of earlier jobs, crashes on
either side); marks and calls that fail without anybody looking; a file that is
truncated while RAUC may read it; counters and statuses that earlier updates have
left. A connection that comes and goes in the middle of an update, with a table that heeds
its loss in two states only; a send that throws out of the handler it is in; requests
that are refused, and answered, while the context belongs to an earlier one.
`hazards` in `PROJECT.json` lists each of these at its line, with the
properties that watch it.

### What makes the components correct

* State machine, states, context: what is reported about the slots is true; a
  success is a success; every update ends; state requests are answered.
* Slots: a boot takes the running image unless ACTIVATE armed a complete one.
* Installer and RAUC client: `start` returns, and its success is about its bundle.
* Bundle file: the file that was checked is the file RAUC installs for the waiting UPDATE,
  whatever an earlier job of RAUC still reads.
* MQTT processor: whoever is connected is heard, the version is announced on each
  connection, and the process gives up only after 50 failed attempts of one outage.
* JSON protocol: a request is read completely or refused; a feedback names the activity
  it belongs to and the image that is meant; the closing message tells the outcome.
* Downloader and Dispatcher: each transfer is reported from its beginning and not
  too often, to the active state object only; a success is a complete file.

## 2. Modules

| Module | Contents |
|---|---|
| `SelfUpdateAgent` | the core: state machine, states, context, bundle file, slots, RAUC, restarts |
| `SlotUpdate` | abstract: what an A/B update promises for running slot and spare slot |
| `Installer` | `Installer::start` and the RAUC client in single steps, with queued signals |
| `Installation` | abstract: what the states rely on when RAUC installs for them |
| `Downloader` | a transfer, its progress reports and the subscriptions they go through |
| `TransitionTable` | the table row by row, and where the loop of `handleEvent` stops |
| `MqttProcessor` | connection callbacks, retries, and `handleEvent` in the steps in which a send may throw |
| `MessagingProtocol` | `MqttMessagingProtocolJSON`: three readers and `createMessage` as operators |
| `MessagingProtocolTests` | the inputs and expectations of `TestMqttMessagingProtocolJSON.cpp`; `MCFeedback` assumes that the operators meet them |
| `Feedback` | the core behind the protocol: requests read or refused, messages with activity and version |
| `MCSelfUpdateAgent`, `MCInstaller`, `MCDownloader`, `MCMqttProcessor`, `MCFeedback` | constants, specifications and symmetries for TLC |
| `SelfUpdateAgentProofs` | inductive invariant of the core and its theorems |
| `SlotProtocolProofs` | the core implements `SlotUpdate`; the action properties |
| `InstallerProofs` | type correctness and `SuccessIsOurs`; `Installer` implements `Installation` |
| `InstallationProofs` | the core implements `Installation` |
| `TransitionTableProofs` | the handlers of the core follow the table |
| `DownloaderProofs` | the four properties of run `downloader` |
| `MqttProcessorProofs` | the properties of run `mqtt`, `TransitionsAreRows` among them, and `TransientStatesAreLeft` without throwing sends |
| `FeedbackProofs` | `Feedback` implements the core; its invariants |

`Feedback` extends `SelfUpdateAgent` and `MessagingProtocolTests` (which extends
`MessagingProtocol`); `SelfUpdateAgent` and `MqttProcessor` extend `TransitionTable`;
`SelfUpdateAgent` and `Installer` are both shown to implement `Installation`, which is
where they meet. `Downloader` stands alone and is linked to the core as said below.

### SelfUpdateAgent

One action is one callback from beginning to end: the assignment to the context,
`handleEvent`, the body, the transition and the next state's `onEnter`, nested
events included. `Receive...` are the branches of `message_arrived`;
`ConnectivityEstablished` and `ConnectivityLost` the connection callbacks. The
two bodies that wait are two actions each (`ReceiveDownload`/`FinishDownload`,
`ReceiveUpdate`/`FinishInstall`), with the variable `busy` between them. A
request that finds no row in the table takes the disjunct `Dropped`, which keeps
everything but what `message_arrived` has overwritten before.

| Variable | Code |
|---|---|
| `fsm` | `FSM::activeState()`. `SendCurrentState` and `Cleaning` are never seen from outside: they raise `Waiting` in `onEnter` |
| `desired` | `Context::desiredState`: `bundleVersion` and `actionStatus` |
| `version` | `Context::currentState.version` |
| `downloadMode`, `fallbackMode` | the same in `Context` |
| `busy` | which body has not returned |
| `sent` | the messages of the last handler |
| `tempFile` | the bundle in `updatesDirectory + tempFileName`: a version, `Partial` or `Absent` |
| `booted`, `other`, `primary` | the images of the slots and the slot of the next boot |
| `raucOp`, `raucTarget`, `raucResult` | RAUC's operation, its bundle (`Broken` if a download has truncated it meanwhile), and what the polling agent was told |

Left out of the core: percentages and their feedback messages, texts, metadata,
activity ids (in `Feedback`), and publishes that fail (in `MqttProcessor`). A state request answered in `Connected`
leads to `Idle` as in the table. `Context::desiredState` of a state request is
the empty one, which is why the version becomes `NoVersion` even if the request is
dropped then.

External, modelled from how the code uses them: RAUC checks the bundle, marks the
other slot not bootable, writes it and switches to it; the boot loader takes the
slot of the next boot if it holds an image. Both appear under *external* in the
map.

After a timeout or a crash RAUC goes on, and the manager may begin anew: the next DOWNLOAD
opens the one temporary file with `fopen(..., "wb")` (`Downloader.cpp:144`) and so truncates
the bundle that RAUC still reads (`TruncateBundle`). That this does happen is in the
model and in run `faults`; what RAUC makes of it is assumed: a bundle cut off under it does not
install well (`RaucSucceeds`), as its signature and its hash tree cover the whole of it.
Without this assumption nothing is known of the image such a job leaves.

Faults are a constant, so that each run names what it tolerates:

| Fault | Meaning |
|---|---|
| `crash` | the process dies at any point (also by its own `exit(1)`), or the system reboots amid an update |
| `timeout` | `Installer::start` gives up after 15 minutes, fails early, or its call's reply is lost, while RAUC goes on |
| `mark` | RAUC fails to mark a slot |
| `dbus` | a query or the install call fails |

### Installer

One action is a piece of code between two places where RAUC can come in:
`GetBundleVersion` (which stands for `getSlotStatus` too), `Begin`, `Drain`, `Query`, `Call`, then
`Poll` and `GetProgress` in a loop. RAUC works,
reports its last progress, completes, checks bundles, and restarts; `Crash` starts
the agent again. Calls are numbered. `outcome[n]` is what became of call `n` in
RAUC, which the agent cannot see; `Others` is the job of a process before, or that of
another client, which installs at most once (`OthersInstall`) and exists unless the
behaviour is an `exclusive` one. The agent has
subscribed to the signals of every sender (`DBusRaucInstaller.cpp:211-233`), so it
takes those of others for its own. `shared` remembers that such a client began
while the loop was running.

`pending` is what the queue of the main context comes to: an iteration handles
all signals that wait, in their order, so the last one that sets the flags
counts. `Queue`, `StillInstalling` and `Succeeded` say this for `on_completed` and
`on_properties_changed`. The sign of a restarted RAUC (`restarted`) is different: its
handler asks `installing()`, which iterates the main context *again*
(`DBusRaucInstaller.cpp:91`, `:533`), so all other signals, later ones included, are
handled before it looks at the flag, and it overrules them (`FailsByRestart`). A
consequence: a restart *before* the call, whose sign comes between the drain and the
first poll, ends the loop with a failure while RAUC installs.

Two assumptions about RAUC are visible there: the signal that
`Operation` has become `installing` is sent before the reply to `InstallBundle`,
and becoming idle and sending `Completed` are one step. The first
one matters: without it a `Completed` that arrives between the drain
(`DBusRaucInstaller.cpp:143`) and the query (`:146`) would end the next loop with
a false success, as the mutant `QueueEndsOnly` shows.

In terms of the core, `Begin` to `Call` is `ReceiveUpdate`; the return is
`FinishInstall`. What the core takes for granted, that a poll which ends with success
is about RAUC's current bundle, is `SuccessIsOurs`. It has one exception: when this
call's installation has ended and another client begins one before the loop polls
again, the loop goes on and returns what becomes of theirs. TLC finds a call that
returns success though its own installation failed. The core assumes that RAUC has no
other client.

`Installation` states the rest of what the core takes for granted: one installation
at a time (`Ask` needs a RAUC at rest), `Succeed` only after the end of the job that was
asked for, and no job from then until the next `Ask`. `GiveUp` allows every wrong failure: a
timeout, a lost reply, a stale restart sign, a stale 100 percent. The contract promises
nothing about failures, and so the core's fault `timeout` covers them all: its loop
may fail at any time while RAUC goes on. `KeepsContract` is the
refinement in both modules, each with its own mapping: in `Installer` the agent waits
while the loop polls, in the core while `busy = "install"`; a success is the result
of the last call, or `fsm` in `Installed` or `Activating`. In behaviours that are not
`exclusive` the mapping of `Installer` shows nothing.

### Downloader

The life of the state `Downloading` (`phase`): `Enter` and `Rollback` are
`FSM::transitTo`, which replaces the state object; the destructor of the old one takes its
subscriptions out of the static list. The body subscribes each time it runs:
`CheckStream` (stream mode, stays in the state), `FailToOpen`, or `Open`,
`Receive` and `Finish` for a transfer. `Receive(t, n)` is one call of
`progress_callback`: curl has `n` bytes of `t`. curl guarantees that `n` does not
shrink within an answer; a redirection begins another one. The percentage, with
its truncation, the clamp and the unknown size 0, is computed as in the code.
`Finish` allows what the code makes of curl's result and the status: complete and
200, broken off and 200, or another status.

`notified` counts the reports of a transfer and is not in the code. Not modelled:
`feedbackInterval`, by which the subscriber thins the messages out once more, and
`cancelled`, which nothing sets. The fallback in `Downloading::onEnter` is dead
(see `OnlyDownloadModeInstalls`).

The core has `Open` to `Finish` as `BeginDownload` and `FinishDownload`, with a
file that may be partial after a success.

### TransitionTable and MqttProcessor

`Table` has the 25 rows of `SelfUpdateAgent::init` in their order. `Stops` says at
which rows the loop of `handleEvent` stops: at one that needs no output, at the first
that needs one (the body runs then), or at one whose output is that of the body.
`HandleEvent(s, event, t)` sums a whole call up: dropped (no row), lost (a body whose output
has no row), or a row, with the one for `Waiting` after it if `onEnter` raises it. The
action property `EventsFollowTable` compares each callback of the core with it, so that
`Accepting` and the handlers are not merely read against the table. For the two waiting
bodies the step that ends the body counts.

In `MqttProcessor` a handler is a frame `call[t]` of a thread: `Look` (the loop up to
the body or the transition), `Body`, `Enter` (`onEnter`, which may raise `Waiting`),
`Finish` (what the callback does after `handleEvent`) and `Reconnect` (after its 2.5
seconds). The connection changes between any two steps. `due` are the callbacks that
the client library has still to make; external, and assumed of it: it reports every
change, in order, and with `Serial` makes one callback at a time.

| Variable | Code |
|---|---|
| `link`, `due` | the client library's connection, and callbacks not yet made |
| `fsm`, `retries` | `FSM::activeState()`, `MqttCallback::_retries` |
| `call` | per thread: callback, event, `output` and row of `handleEvent` |
| `process` | running, ended by `exit(1)` after too many retries, or ended otherwise |
| `greeted`, `failures` | history: the version was published on this connection; failures reported in this outage |

`SendThrows` is a `reconnect()` that throws in `send` (`MqttProcessor.cpp:230`, outside
the `try`): in a message callback the catch block takes it for a malformed request, the
rest of the handler is lost; in any other callback it ends the process. The same holds
for `subscribe` and for the reply in the catch block. A body returns any of its outputs:
versions and slots are the core's. The core in turn has no failing sends, so it lacks the
handlers that end between two steps; its connection callbacks and those here are the
same rows.

### MessagingProtocol and Feedback

A request is a record of the places that a reader looks at. A text is given, missing, of
another type, or empty; a list is what `std::find_if` meets: the wanted item, another
one, or one without the key (which throws). The readers are lists of checks in the order
of the code; the first that fails is the verdict: one of the exceptions that the catch
blocks of `message_arrived` tell apart. `CreateMessage` gives the values that a message
carries, not its wording; an absent activity id is the empty one.

`MessagingProtocolTests` has every case of `TestMqttMessagingProtocolJSON.cpp` but its
wording. `ReadersPassTheirTests` and `WriterPassesItsTests` compare the operators with them;
they are facts about constants, so `MCFeedback` states them as `ASSUME`s, which TLC
evaluates at the beginning of run `faults`.

`Feedback` puts the readers before the core: `message_arrived` takes any complete
request, and every request with one place that is not; `Refuse` is what the catch blocks do. Its
variables are `activity` (`Context::desiredState.activityId`) and two histories: the
request whose body waits, and the failure reported last. Every step is one of the core,
which is proved (`FeedbackIsAgent`).

## 3. What is checked

### Runs that pass

| Run | Bounds | Result |
|---|---|---|
| `nominal` | 3 versions, both modes, fault `dbus` | 32 358 states; `InstalledWaitsForActivation`, `OnlyActivateSwitches`, `EventsFollowTable`, refinement `SlotProtocol` |
| `faults` | module `Feedback`: 3 versions, 2 activities, both modes, all faults | 106 206 states; `TypeOK`, `ReportedImageIsInOtherSlot`, `SuccessIsActivated`, `NextBootIsComplete`, `AwaitedBundleIsUntouched`; `FeedbackTypeOK`, `BodyAnswersItsRequest`, `FeedbackIsAddressed`, `ClosingTellsTheOutcome`, `SuccessNamesTheImage`, `RefusalsAreTold`; refinement `KeepsContract` of the core |
| `mqtt` | 2 threads, serial; 2 retries, 3 callbacks due, throwing client | 32 223 states; `TypeOK`, `DeafOnlyWhileDisconnected`, `ConnectedIsAnnounced`, `GivesUpInOneOutage`, `TransitionsAreRows` |
| `liveness` | 2 versions, download mode, `crash` and `timeout` | 46 160 states; `UpdateConcludes` |
| `installer` | 3 calls, timeout of 2 polls, all faults, with and without another client | 56 181 states; `TypeOK`, `SuccessIsOurs`, `StartReturns`, refinement `KeepsContract` |
| `downloader` | sizes 0, 3, 20; up to 21 bytes; 3 subscriptions | 99 117 states; `TypeOK`, `ReportsComeInSteps`, `ListenersLive`, `FirstProgressIsReported` |

Three versions are one that is booted, one in the other slot, and one that is
desired, all different; a wrong bundle or a replaced request is then one of the
others. The handlers only compare versions, so more add nothing, and a
permutation of versions is a symmetry. All other state is finite and unbounded in
time: any number of requests, crashes and updates one after the other. In
`Installer`, `MaxCalls` bounds the calls: three are a given-up one, the next one
that meets its signals, and one more after that; with that of another client four jobs overlap.
`MaxWaits = 2` lets the timeout come after none, one or two reports of progress.

In `Downloader`, 20 bytes reach every multiple of ten percent and values between,
so that all ten reports happen; 3 bytes make jumps over several steps; one byte more than
announced needs the clamp. Three subscriptions are enough for a rollback, a second
visit and a repeated command in stream mode.

In `MqttProcessor`, two retries make the exit reachable within one outage and, if the
counter did not start again, over two. Three due callbacks are a loss, a failure and a
connection, so that an outage can pass by unnoticed and another one begin before the
first callback is made. The counters `retries` and `failures` are finite by the exit. With `Serial` one thread
is active at a time; the second one is needed for the mutants of `DeafOnlyWhileDisconnected`
and `TransitionsAreRows`.

In `Feedback`, two activities are the one of the running update and another; versions
and activities are both symmetric. The lists have at most two items: the search ends at the first
that decides.

Every property of these runs is broken by a mutant, one of the definitions
commented as *Faulty*: a dropped row or guard, a result nobody looks at, a check
one poll too late.

### Properties that hold although they need not

* `ReportedImageIsInOtherSlot`: a new desired state may arrive at any time and
  changes the version without any check; yet what is reported as installed is what
  RAUC wrote, since nothing is handled while the body polls, and the body compares
  the bundle again.
* `SuccessIsActivated`: CLEANUP reports COMPLETE by a status that an earlier step
  left. It is never stale: each new installation goes through a new desired state,
  which resets it.
* `NextBootIsComplete`: holds with all faults; RAUC marks the slot not bootable first.
* `AwaitedBundleIsUntouched`: holds with all faults, although a download does truncate the
  bundle of a job that was given up: no UPDATE ever waits for such a job, since RAUC takes one
  installation at a time and refuses the next one, and while an UPDATE waits no download begins.
  The mutant, a RAUC that lets the new call join the running job, breaks it.
* `UpdateConcludes`: with crashes and given-up installations, and a manager that
  repeats its commands, an update in download mode ends.

* `DeafOnlyWhileDisconnected`: a lost connection changes the state in `Connected` and
  `Idle` only, and a throwing send may cut a handler off anywhere; yet nobody is left in
  `Uninitialized` on a connection that stands. It rests on serial callbacks: with
  overlapping ones a transition of the earlier callback overtakes that of the later one.
* `ConnectedIsAnnounced`: the connection may go and come back unnoticed between two
  steps; `Connected` is still not the state of a connection that was not greeted.
* `GivesUpInOneOutage`: only `connection_lost` resets the counter, not a success, but
  no outage begins without it.
* `TransitionsAreRows`: after the body `handleEvent` compares only the output with the row,
  not the state again (`FSM.cpp:87`). That the state is still that of the row rests on
  serial callbacks too.
* `KeepsContract`: after a timeout or a crash RAUC goes on and signals the end of a job
  that nobody waits for any more; yet no later call takes it for its own, and while an image is
  reported as installed RAUC rests, with all faults.
* `EventsFollowTable`: an event is never lost but in stream mode, and no failure in a
  handler leads anywhere the table does not.
* `BodyAnswersItsRequest`: any command, dropped or not, replaces the activity id, and so
  does a refused request, but none is handled while a body waits. `FeedbackIsAddressed` holds for
  refusals because the catch blocks read the id again.
* `RefusalsAreTold`: a reader may fail in the middle of a list, at an item without its key
  (`MqttMessagingProtocolJSON.cpp:77`), with a `std::out_of_range` instead of a JSON exception;
  and the context may belong to another update. Still the manager is told, and no more than
  the activity id of the context changes.
* `ClosingTellsTheOutcome`: INCOMPLETE is built from a status that another handler left,
  which may be several requests ago; it is always that of the failure reported last, or
  empty if the desired state has been replaced since.
* `SuccessNamesTheImage`: UPDATE_SUCCESS is built from the desired state, not from
  RAUC's slots, and still names what they hold.

### Disagreements with the documentation

Each is a run that TLC ends with a counterexample.

| Run | Code | Statement |
|---|---|---|
| `state_request` | amid an update a state request is dropped, after it has wiped the desired state | `src/README.md:103`: can be received at any point of time |
| `reported_version` | after UPDATE the current version is the new bundle's, and a rollback keeps it | `src/README.md:33`: installed version from booted partition |
| `given_up` | after the timeout RAUC goes on and switches the next boot | `src/docs/bfb.md:138`: ACTIVATE makes 'other' bootable; `:126` |
| `downloader_breaks_off` | only the HTTP status decides whether a download succeeded | `src/docs/bfb.md:122`: downloaded without errors |
| `stream` | in stream mode `Downloading::body` returns events without a row | `src/README.md:71` and the option itself |
| `mqtt_stuck` | a send that throws in `onEnter` of `Cleaning` or `SendCurrentState` leaves the agent there for good | `src/README.md:79`: Cleanup --> Idle |

More statements that the models refute, without a run of their own:

* `Installed.cpp:27` (wait for activation command): the result of `activateBooted` is
  ignored. `InstalledWaitsForActivation` fails with `Faults = {"mark"}`.
* `src/README.md:77` (Activate --> Failed): an activation that fails stays in `Activating`
  (`SelfUpdateAgent.cpp:74`, `Activating.cpp:43`); from there CLEANUP
  reports INCOMPLETE. `SuccessIsActivated` and `ClosingTellsTheOutcome` cover the report.
* `Installer.cpp:62` (waiting more than 15 minutes is a failure): at 100 percent the loop
  does not count its waiting time. `StartReturns` fails under `LoopSpec` of `MCInstaller`, where
  RAUC need not complete.
* `src/README.md:81` (Uninitialized in case connection is lost): `LossIsNoticed` of
  `MqttProcessor` fails: only `Connected` and `Idle` have a row for it.
* `src/docs/bfb.md:128` (ACTIVATION_SUCCESS: the partition with the new image): a desired
  state that is dropped in `Installed` still replaces the version, which the message then
  names. `ActivationNamesTheImage` of `Feedback` fails.
* `src/docs/bfb.md:131` (INCOMPLETE with the error of a previous step): after an unchanged
  version in `Idle` the agent is in `Failed` and CLEANUP reports INCOMPLETE with an empty
  status; likewise after a state request that was dropped in `Activating`, which turns a
  COMPLETE into INCOMPLETE.
* `src/docs/bfb.md:144` (the activity id of the desired state in all feedback): it is
  that of the last command or refused request.
* The comment in `DBusRaucInstaller.cpp:319` (ignore a rare previous 100% progress): a
  previous 100 percent of a *failed* installation is not ignored (`GetProgress`).

`stream` has a consequence for the whole model: fallback mode is never
reached, which is the invariant `OnlyDownloadModeInstalls`. The branches for
it are modelled and proved dead.

### Fairness

* `Progress` (core): curl returns, RAUC ends an installation either way, and a loop
  whose RAUC has ended gets to know it (`StartReturns` of `Installer`, under `RaucEnds`). Nothing
  is assumed of the timeout: it may come or not. That curl returns is an assumption only,
  as no timeout is set (`Downloader.cpp:166`): a stalled transfer ends every hope of
  `UpdateConcludes`, and no property covers that hazard.
* `PersistentManager`: the library reconnects (`set_automatic_reconnect`), and the
  manager repeats the command that the last feedback calls for, strongly fair since
  `busy` and crashes disable it again and again. It is not code of this repository;
  without it no update has to end. There is no fairness for `Crash`, `Reboot`, lost
  connections, ROLLBACK or new requests.
* `LoopRuns` (Installer): the thread in `start` is scheduled. `RaucEnds`: RAUC
  reports the end of a job and completes it. `StartReturns` needs the second one.
* `MqttProcessor` and `Feedback` state no fairness: their properties are safety.

Deadlock is checked in all runs; there is none.

## 4. What is proved

For all sets of versions, modes, numbers of calls and timeouts. The assumptions
are those of the modules: the markers (`NoVersion`, `Broken`, ...) are no
versions, modes are Boolean, bounds are natural numbers, faults are known ones.

| Theorem | Statement | Extra assumption |
|---|---|---|
| `AlwaysConsistent` | `Spec => []Consistent` | none |
| `AgentIsTyped`, `ReportedImageIsThere`, `SuccessMeansActivated`, `BootIsSafe` | the core's invariants of run `faults` | none |
| `InstallationWaits` | `InstalledWaitsForActivation` | marks do not fail |
| `SlotProtocolHolds` | the core implements `SlotUpdate` | no fault but `dbus` |
| `AwaitedBundleStays` | `AwaitedBundleIsUntouched` | none |
| `SwitchesAreAsked` | `OnlyActivateSwitches` | no fault but `dbus` |
| `InstallerIsTyped`, `SuccessBelongsToCall` | the invariants of run `installer` | none |
| `AloneSuccessIsExclusive` | in `exclusive` behaviours a success is that of this very call | none |
| `InstallerKeepsContract` | `Installer` implements `Installation` | none; shows nothing where RAUC has another client |
| `AgentKeepsContract` | the core implements `Installation` | none |
| `HandlersFollowTable` | `EventsFollowTable` | none |
| `DroppedHaveNoRow`, `OnlyStreamOutputsAreLost` | `Accepting` is the table's; only `DownloadStart` in `Downloading` may be lost | none |
| `DownloadIsTyped`, `StepsAreReported`, `ListenersAreAlive`, `BeginningIsReported` | the properties of run `downloader` | none; sizes are natural numbers |
| `AlwaysOrderly`, `ProcessorIsTyped`, `AgentListens`, `AgentGreets`, `OutagesAreSeparate` | `Spec => []Orderly`; the invariants of run `mqtt` | callbacks are serial |
| `OnlyRowsAreTaken` | `TransitionsAreRows` | callbacks are serial |
| `TransientStatesPass` | `TransientStatesAreLeft`, which run `mqtt_stuck` refutes | serial callbacks, no throwing client |
| `FeedbackIsAgent`, `FeedbackIsConsistent` | `FeedbackSpec => Spec`, so all invariants of the core hold behind the protocol | none |
| `AlwaysAddressed`, `FeedbackIsTyped`, `BodiesAnswer`, `FeedbackNamesActivity`, `SuccessIsNamed`, `ClosingIsTrue` | the invariants of `Feedback` | none; the empty text is no activity |

*Core.* None of the safety properties is inductive. `ReportedImageIsInOtherSlot`
is established by `FinishInstall`, so something must be known while the body polls:
`PollingMatchesRauc` says that the desired version is RAUC's target, and that a
success means that the target is in the other slot and is next (`AwaitedBundleIsUntouched`, a
part of `Consistent` too, says the same of the file). It must not be
disturbed afterwards: `RaucRestsAfterInstall` says that RAUC is idle in `Installed`
and `Activating`, and as long as the status is UPDATE_SUCCESS. That fallback
mode cannot start the download in the middle is `OnlyDownloadModeInstalls`. With
the type invariant and the three properties these make up `Consistent`. There
is a lemma for each handler; events that are dropped share
`DroppedConsistent`.

*Refinement.* `SlotUpdate` sees the other slot and a stage. While RAUC has
switched already and the agent has not answered (`Unanswered`), the mapping hides both:
the spare slot counts as erased, the stage as quiet. The invariant is
`Consistent` with `RaucWorksForAgent`: without crashes and timeouts RAUC works only
while the agent polls, which also keeps requests out (`Listening`). The assumption
cannot be weakened to the other faults: with a timeout or a crash RAUC switches slots
unasked, which run `given_up` shows, and with `mark` the switch is not taken back.

*Installer.* `LoopIsOurs`: from the reply to the return RAUC has the bundle of this
call or none, and neither a waiting success nor the flag is anybody else's, unless a
client came in between. The step that matters is `Call`, where `Queue("installing")` overrules an earlier success.
For the contract `LoopIsAlone` is stronger, where the agent is alone: a success that waits
or is known in the loop means that RAUC is at rest and has ended this call's job well.

*Contract.* `Installer` and the core implement the same `Installation`: the one shows that
signals and polls come to no more than it allows, the other that the states, with every
fault, ask for no more than it offers. In the core no invariant beyond `Consistent` is
needed; it gives the two things that matter, that RAUC rests in `Installed`
and `Activating` and that `FinishInstall` has the result of RAUC's target. Both refine one
abstraction; a single specification of the two together is not stated.

*Table.* The 25 rows are unfolded once (`TableRows`), then each handler is matched
with the rows of its event: `RowsAreAccepted` and `AcceptedHaveRows` give
`DroppedHaveNoRow`, and a lemma per event gives where it leads. The only invariant
needed is `Consistent`, which says in which state a waiting body was run.

*Downloader.* `InStep`: in a transfer the limiter is ten times the number of reports,
otherwise 0, and in download mode a waiting object has no subscription yet. A report needs
a percentage of at least the limiter and at most 99, so the tenth one puts the
limiter out of reach. `PercentageRange` is the arithmetic behind it.

*MqttProcessor.* None of the properties is inductive: what the agent knows of the
connection lags behind by the callbacks that are due. `DueMatchesLink` says that the
last of them tells how the link is, and that after a connection only its loss can
come; `HandledInOrder` and `UpIsHeard` carry this over to the callback that is being
handled. So when all is told on a link that is up, the last callback was `connected`,
and its handler leaves `Uninitialized` even if a send throws later. For the counter
(`RetriesAreOfThisOutage`): it exceeds the failures of this outage only as long as the
loss that will reset it is still to be told or being counted. `ConnectedIsCurrent` does the same for the greeting. `EventsMatchCallbacks` ties event and row of a
frame to its callback and to the state; the table is used row by row in a few lemmas only.
`OnlyRowsAreTaken` follows from it: the row at which the loop stops is one of the active
state, since with serial callbacks that is still the state the body was run in.

*Feedback.* First, what the readers return: the first failing check decides, so a
request that is read has passed all of them (`NamedPasses`), and one that is refused
*and answered* has an activity (`AnswersAreNamed`). With it every step is one of the core
(`StepIsAgentStep`), so `Consistent` comes for free. `Addressed` is the invariant
for activities. `Outcome` says that in `Failed` and `Activating` the remembered
failure and the status in the context are the same; the step that matters is a request
that is dropped there and replaces both.
`Announced` ties `Installed` in `sent` to the other slot by the core's `PollingMatchesRauc`.

Liveness, and anything with ENABLED, is model-checked only, and so are the
counterexamples of section 3.

## 5. Not modelled, and why

* Parsing of options and addresses, logging: no state that matters to an update.
* Wording, time and layout of messages, the percentages of an installation: no property
  is about them. The comparison with the unit tests is one of values.
* The dummy installer: a counter to try the agent without RAUC; it has no slots.
* The main loop of `main.cpp` after start-up: it waits for the end.
* A curl that never returns: assumed away, listed as a hazard.
* `MqttProcessor::stop`: only tests call it.
* Handlers in the core that end between two steps because a send throws, and several
  callbacks in `handleEvent` at a time: `MqttProcessor` has both, without versions and slots.
  The properties of run `mqtt` need serial callbacks, which is what the client library is
  used for; the mutant of `DeafOnlyWhileDisconnected` is what overlapping ones would do.

## 6. Plan

Done: `SelfUpdateAgent` with `SlotUpdate`, `Installer` with `Installation`, `Downloader`,
`MqttProcessor`, `TransitionTable` and `Feedback`, with their proofs; every safety property
of a passing run but `RefusalsAreTold`, which is model-checked only, is stated by a theorem.
Open, in this order:

1. `Downloader` and the core's `BeginDownload` and `FinishDownload`: one contract for
   both, as for the installation. It can promise little, since a success does not mean a complete
   file (`downloader_breaks_off`).
2. Sends that throw in the core, so that slots and statuses are there when a handler
   ends between two steps.
3. The scenarios of `TestSelfUpdateScenarios.cpp` as behaviours of `Feedback`.
