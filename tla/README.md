# A verification project for shrmt

shrmt is a remote control for an NVIDIA SHIELD: a command line, a GTK window, and
under both a controller that pairs with the television, keeps a default target and
sends keys and app links over the Android TV remote protocol or NVIDIA's own
protocol. The modules in this directory model the parts of it that keep state and
share it between goroutines, processes and a device; TLC checks them on small
instances, and TLAPS proves their safety properties, but for two about pure data, and
both refinements for every instance. Line numbers refer to the sources (paths relative to the repository).

Contents: 1 the system, 2 the modules, 3 the runs, 4 what the runs refute,
5 fairness, 6 bounds, 7 the proofs, 8 what is not modelled, 9 the plan.

## 1. The system

### Components, their state and their operations

| Component | State | Operations | Who calls it |
|---|---|---|---|
| Android TV sender, `adapters/out/androidtv/androidtv.go` | mutex, cached session, config of that session | `Send`, `Launch`, `Warmup` | the queue worker, launches and refreshes of the window, the command line |
| Android TV connection, `internal/atvremote/{remote,session}.go` | socket, write lock, power, first error, two one-shot channels | `DialSession`, `SendKey`, `LaunchAppLink`, `Close`; the reader goroutine | the sender; the television |
| NVIDIA client, `internal/beyonder/{client,session}.go` | socket, bounded message channel, done channel, first error, level | `Dial`, `Hello`, `Pair`, `SendSpecialInput`, `LaunchApp`, `StartKeepalive`, `Close`; two goroutines | the power sender; the probe tool |
| NVIDIA framing and messages, `internal/beyonder/messages.go` | bytes received so far | reassembly, encoding, decoding | the reader of the NVIDIA client |
| NVIDIA files, `internal/beyonder/creds.go` | key, certificate, device id | `LoadCredentials`, `SaveCertificate`, `LoadOrCreateDeviceID` | the power sender; `beyonderprobe pair` |
| Power sender, `adapters/out/beyonder/power.go` | none | chooses the protocol for Power and app shortcuts | the remote service |
| Android TV credentials, `adapters/out/xdg/storage.go`, `internal/atvremote/{certificate,pairing}.go`, `core/pairing/pairing.go` | certificate and key file of three directories; what the television trusts | `Load` with migration, `EnsureClientCertificate`, `Pair` | every request; pairing |
| Target store, `adapters/out/xdg/storage.go`, `core/device/device.go` | `target.json` of three directories | `Load` with migration, `Save`, `Clear`, `Resolve` | every request; selecting, pairing, discovering |
| Remote service and controller, `core/remote/remote.go`, `controller/controller.go` | none | `Load`, `Send`, `Launch`, `Pair`, `SelectTarget` | the window and the command line |
| Action queue of the window, `adapters/in/gtk/app.go` | queue of 64, atomic counter, status line | `sendAsync`, the worker | key presses and buttons |
| Operations of the window, `adapters/in/gtk/app.go` | entry, labels, sections, sensitivity of the buttons | refresh, discover, save, pair, launch | the user; one another |
| Discovery, `internal/discovery/discovery.go`, `adapters/out/zeroconf` | map of records under construction | `Scan` with its collectors | discovering and resolving |
| Probe of the NVIDIA protocol, `cmd/nvprobe` | baseline, position in the list of guesses, log | one attempt after the other, with a poll of the power state | the user, also again with `start-at` |
| Probe for wake-up keys, `cmd/wakeprobe` | position in the list of keys, log | the same, over the Android TV protocol | the user |
| Probe of the known protocol, `cmd/beyonderprobe` | a second reassembler for `--dump` | one call of the NVIDIA client | the user |
| Command line, generated code | none | one sequential call per process | the user |

### How they interact

A key press goes from the UI thread through the queue to the one worker, which
calls `Controller.Send`: the remote service resolves the target (entry, target
store, discovery, in that order), loads the credentials and calls the power sender,
which hands everything but Power and app shortcuts to the Android TV sender. The
latter locks its mutex, dials or reuses a session, and writes frames on a
connection that its reader goroutine also writes to, when it answers the device.
Launches, refreshes (through `Warmup`) and pairings run beside the worker in
goroutines of their own and meet it in the sender's mutex and in the files.
Results come back to the UI thread as posted functions. Command-line processes
use the same files with no lock.

### Which behaviours are hard, and what correctness means

- *Sender.* Calls for different televisions share one session; every wait can end
  with a timeout or a cancellation, every write can fail, and a failed first attempt
  is repeated. No connection may be lost, no key may reach another television than
  its own, and the retry must not repeat what the old connection was already given.
- *Connections.* Two or three goroutines share one socket, its locks and its error
  field. Frames stay whole, readiness is earned, replies are not missed, an earlier
  loss is never followed by a success, and everything ends when it is closed.
- *Files.* No lock, several processes, a crash between any two operations, and
  migrations that write while others read: half a pair, a torn target or an
  overwritten selection must have a cause that the code cannot avoid.
- *Window.* Operations overlap and finish in any order, and each posts its result:
  the counter, the status line, the shown target and the shown pairing state must
  be right once everything has come to rest.
- *Discovery.* Goroutines that nobody waits for write the map that the scan reads at
  its end. What was recorded in time must be in the result, once, and everything ends.
- *Stream.* The transport cuts and joins what was written; messages must come out as
  they went in.
- *Probes.* The effect of an attempt shows late, or not at all, or is somebody
  else's; the probe is interrupted and resumed. It must blame the right attempt,
  leave none out, and not leave a key held unnoticed.

`PROJECT.json` lists these hazards one by one, each at its line, with the properties
that would catch it going wrong.

## 2. The modules

| Module | Models | Uses |
|---|---|---|
| `AndroidTVSender` | the sender and, from outside, its connections | `SerialRemote`, `SessionView` |
| `SerialRemote` | abstract: what callers of the sender may rely on | |
| `RemoteClient` | one Android TV connection from inside | `SessionView` |
| `SessionView` | abstract: one connection as its user sees it | |
| `BeyonderClient` | one NVIDIA connection with its three goroutines | |
| `BeyonderPairing` | pairing and pressing over the three NVIDIA files | |
| `ActionQueue` | queue, worker, counter and status line of the window | |
| `GtkRemote` | the other operations of the window | |
| `Credentials` | certificate and key, loading, migrating, pairing | |
| `TargetStore` | the default target, loading, migrating, selecting, resolving | |
| `Discovery` | the scan with its browsers, collectors, map and mutex | |
| `NvidiaStream` | framing and reassembly of the NVIDIA messages, and the dump | |
| `ProbeAttempts` | flags and list of guesses of `nvprobe`: pure operators | |
| `NvProbe` | the loop of `nvprobe`, its log, the television, the operator | `ProbeAttempts` |
| `WakeProbe` | the loop of `wakeprobe`, and its list of keys | |
| `CredentialFiles` | the files of both protocols side by side | `BeyonderPairing`, `Credentials` |
| `Parts` | one scan, one use of a probe or one stream, side by side | `Discovery`, `NvProbe`, `WakeProbe`, `NvidiaStream` |
| `MCParts` | command lines and fairness of `Parts`, for TLC | `Parts` |
| `..._proofs` | theorems about the module they are named after (section 7) | TLAPS |
| other `MC...` | constants for TLC | |

Definitions called "Mutant for P" stand before the definition they distort. Each is a
plausible bug in the code that definition models, and P is violated when it takes
the definition's place; they are not part of any specification.

**AndroidTVSender.** One action per step between two points where another goroutine
can get in: `Begin` and `Lock`, then `ensureSessionLocked` (`Reuse`, `Discard`),
`DialSession` (`DialFails` .. `DialAccepted`), `planSendSteps` (`MakePlan`),
each item as check, write, confirm, pause, and `Retry`, `GiveUp`, `Return`. `mu`, `session`
and `config` are the fields of `Sender`; `conn` holds every connection that was ever
dialled, named by caller, call and attempt; `sent` is a history of the items
written, each with its connection. A device activates, reports its power state,
fails or leaves between any two steps of a caller, and the context of a call may
end at any time. Waking a device is the plan WAKE, HOME; the pause between
the two can be cancelled. Fields that a closed connection can no longer show are blank.

**SerialRemote.** No session, connection or device: one caller is served at a time,
it writes a plan for its own request item by item, the plan may be started
over once, and success is answered only if the last run went out whole.
`Contract` in `AndroidTVSender` is the refinement mapping: `holder` is `mu`, `out` is
what the attempt in hand has written (`Written`, read off the history `sent` and the
attempts its connections were dialled by). The refinement is proved.

**RemoteClient.** `writeMessage` is shared by both goroutines: lock, prefix,
payload, unlock, so that a frame is two entries of `wire`. The reader is `run` and
`handleIncoming`: reading, the malformed and the failed read, answering configure,
set-active and ping, power reports, errors. The user is `DialSession`
(wait for ready, grace period, accept or reject), then `SendKey` or `LaunchAppLink`, then
`Close`. `ready` and `started` count how often the one-shot channels are closed.
`SessionView` is what the sender's model assumes of a connection; both models are proved
to implement it (section 7).

**BeyonderClient.** `readLoop` with its bounded channel and the select on `done`, the
keepalive (select, context, lock, write), and the user: `Hello`, waiting for the level,
inputs and launches behind `ErrNotPaired`, `Close`. `forwarded`, `taken` and
`readerEnd` are histories. `Send` is three steps: it looks at the context once
(`KeepSend`, `UserSend`), waits for the write lock (`KeepLock`, `UserLock`), which no
context ends, and writes. The context ends with a cancellation or a deadline, which
also fails the writes that have not begun.

**BeyonderPairing.** The files as `beyonderprobe pair` writes them (id, key,
certificate; opening truncates, so a file is torn between opening and writing) and
as a press of Power or of an app shortcut reads them (certificate, key). The exchange of
messages is one step whose result may be lost. `clash` and `idClash` remember
whether processes were at the files at once.

**ActionQueue.** `sendAsync` in three steps of the UI thread (count, offer or refuse,
status), the worker in four (take, announce, send, report), posted functions in order.

**GtkRemote.** `Edit`, `Discover`, `Save`, `Pair` and `Launch` are what the user does;
each starts a goroutine (a record in `running`) that reads or writes the store in
the order of the code and posts its result; `ApplyState`, `ShowFound`, `ShowSaved`,
`ShowPaired`, `ShowLaunched` and `ShowError` are the posted functions. Those that end with
`refreshStateAsync` start a refresh in the same step. Targets have a port because the
code loses it on the way through the entry. A save is one step here; its steps
are in `TargetStore`.

**Credentials.** Two files in each of the directories. `Exists` is two looks, writing is
truncate and fill, migration reads, truncates and fills each file in turn, and
pairing generates, opens, dials and talks to the television, which learns to trust
the pair at some point of the exchange. `clash` remembers readers and writers that
overlapped, `cut` a write that failed or died.

**TargetStore.** `Load` looks at each directory in turn, fails on a file it cannot
decode, and saves an older target; `Save` truncates and writes. A load resolves
twice (`LoadDefault`, then `Resolve`), and may warm a connection up; a send resolves, a
pairing resolves and saves, selecting saves.

**Discovery.** A browser and a collector per service. The library offers one entry at
a time on the unbuffered channel; `Receive` takes it, `BeginWrite` and `EndWrite` are the map
under the mutex, so that `BeginRead` and `EndRead` of `Scan`, which take no mutex, may
overlap a write. Then the result is one of the two a loop may see, or the run time ends
the program (`Fatal`). A failed `NewResolver` or `Browse` records an error, for which the
discoverer drops every device.

**NvidiaStream.** A byte is its place in the stream, and a message its size, the place of
its end and whether it decodes. `Send` frames the next message as `Frames` does. `Read` delivers any
number of further bytes as one chunk; the hook of the dump sees it first, then the client's
Reassembler. `Feed` is one turn of the loop of the Reassembler, as the
set of its possible outcomes: bytes that are not one message decode to something
nobody sent, or not at all. `hurt` remembers a chunk that cut an announcement, cut a
message without one, or joined something to it: messages.go:215-217 asks for single
writes so that this does not happen, and nothing in the receiver can repair it. `SetOnFrame`
hooks the dump's own Reassembler in at any time, since `Dial` has started the reader
before (main.go:180-186 of beyonderprobe, against client.go:21-23). Assumed: no message
begins with the tag of an announcement; the code has the same assumption. What bytes
that are no message might announce is left out: they come up only in a hurt stream, or in
a dump that begins inside a message, and of those nothing is claimed.

**ProbeAttempts.** Lists and bytes as the code builds them, in its order: `Loops` is the
nest of loops, `Distinct` the seen map. A number is one byte (`MaxNumber`), as all
defaults but the port 8987 are. `ReadBack` decodes a message again; it is the reference.

**NvProbe.** `Begin` is the start of `main` (the log is truncated before `start-at` is looked
at), then per attempt `sendTLS`, `pollForStateChange`, `Finish` (log line, `switch`). The effect of
what was written may come at once, late or never, and somebody else may touch the
television. `culprit` is what switched it last, `excused` says that a change has a cause the
loop cannot see: a late effect, another hand, or an attempt whose send failed after
writing, which the `switch` reports first, so that the change behind it stops nothing. An answer to
the preamble returns from `sendTLS` before the probe message is written: in `Sends`, a
response after any number of writes. Errors are told apart by their text, so
a poll that fails differently from the baseline counts as a change and stops the probe; and
an `Index` in the log counts from `start-at`.

**WakeProbe.** As `NvProbe`, with `SampleBefore` and without a baseline: it stops when a sample shows
power, also when the television was on before. The halves of a long press are two
attempts on two sessions; `held` is what the television was told to hold. A send without
an error has only been taken by the kernel (session.go:112, and remote.go:94 does not
record an end of file), so the key may arrive in the step, later (`LateKey`) or never:
until it does it is in `underway`. `unsure` are the keys whose last release reported an
error, or whose press came late.

## 3. The runs

| Run | Shows |
|---|---|
| `sender_calls` | two callers, two televisions: `NoLeakedConnection`, `SessionMatchesConfig`, `WritesReachOwnTarget`, `RetryOnFreshConnection`, `OneWriteAfterCancel`, `ImplementsContract`, the refinement of `SerialRemote`, and `ConnectionsAsViewed`, that of `SessionView` by each connection |
| `sender_returns` | `EveryCallReturns`: with fair callers and devices that owe nothing |
| `remote_client` | `FramesWhole`, `ReadyWasEarned`, `SuccessHasNoGap`, `ImplementsView` (the refinement of `SessionView`), `CloseEndsReader`, `RequestsFinished` |
| `beyonder_client` | `MessagesInOrder`, `NoReplyMissed`, `ClientIsClosed`, with a channel that is full after one message |
| `action_queue` | `SentOnceInOrder`, `DepthIsExact`, `StatusSettles`, `ComesToRest`, with refusals |
| `gtk_remote` | `ViewIsTrue`, `KeysReachShownTarget`, when all operations have ended |
| `credentials` | `NoMixedPair`, `TrustedPairStays`, `AlarmHasCause` of `Credentials`; `FallbackOnlyUnpaired`, `StoredPairWorks`, `IdIsPersistent` of `BeyonderPairing`: over crashes, failed writes and concurrent processes |
| `target_store` | `TornHasCause`, `OlderNeverWins`, `WarmsOnlyChosen` |
| `parts` | `RaceOnlyAtEnd`, `ResultsAreRight`, `AllEnds` of `Discovery`; `GuessesAreSound`, `BlameIsRight`, `ResumeCoversAll` of `NvProbe`; `HeldKeyHasCause` of `WakeProbe`; `StreamIsFaithful` of `NvidiaStream` |
| `sender_toggle`, `pairing_timeout`, `target_migration` | section 4 |

The runs `credentials` and `parts` check modules that share nothing, over the compositions
`CredentialFiles` and `Parts`: their initial states choose one of the modules, whose steps are then the only ones (`protocol`, `part`), while the
variables of the others rest. A behaviour of these runs is a behaviour of one of the
modules, and the properties are those of that module.

Type invariants are proved (section 7) rather than checked by a run.

Some of these properties are conditional, and the condition is the result:
`NoMixedPair` and `TrustedPairStays` hold as long as no two processes write the
files at once (they are violated otherwise: nothing in the code prevents it);
`OlderNeverWins` as long as nobody else is busy with the file; `ViewIsTrue` as
long as no result overtakes that of a newer refresh; `KeysReachShownTarget` as long as
the user or an older refresh has not changed the entry since the newest refresh
began, and for the default port only; `BlameIsRight` as long as both samples show the
power and no cause was hidden (`excused`); `StreamIsFaithful` as long as announcements
and messages without one come in chunks of their own (`hurt`), and of the dump only if
it was hooked in between two messages; `RaceOnlyAtEnd` says where the race is that
the scan does have. `HeldKeyHasCause` lists the ways in which a key is left held: a
wake-up or the limit between its halves is one, and the probe does not release it; a
release that is reported as sent and is late or lost is another, and a press that comes
after its release a third. `AlarmHasCause`, `TornHasCause` and `StoredPairWorks` excuse
every killed, failed or overlapping writer: they say that nothing else does the damage,
and what holds after a crash is the matter of `FallbackOnlyUnpaired`, `NoMixedPair`,
`TrustedPairStays` and `IdIsPersistent`.

## 4. What the runs refute

- `sender_toggle`: README.md:56 says that Power sends a single toggle. An error that the
  reader records after the key was written makes the sender reconnect and write it again.
- `pairing_timeout`: cli.go:113 gives pairing a timeout. Only the dial looks at the
  context; a television that accepts and stays silent is waited for without end.
- `target_migration`: storage_test.go:53 has the current target win over an older one. A
  target selected between `Load`'s look at the current file and its migration is
  overwritten by the older one.

## 5. Fairness

- `AndroidTVSender`: a caller that holds the mutex keeps moving. Every wait in the
  code has a timer (dial 5 s or the context, ready 5 s, grace 750 ms, pause), and a write
  ends at the latest when the kernel gives the connection up; that last point is an
  assumption about the kernel, since the code sets no write deadline. `Lock` is
  strongly fair because `sync.Mutex` goes into starvation mode after a millisecond.
  Nothing is assumed of devices, cancellations or new calls.
- `RemoteClient`: the reader runs, writes end, the write lock is strongly fair. The user
  and the device owe nothing; `CloseEndsReader` starts from a close that did happen.
- `BeyonderClient`: goroutines run and the context ends, since every caller gives it a
  deadline; a select that is ready again and again takes each branch in the end. `KeepLock`
  and `UserLock` are strongly fair, as above, and a goroutine that waits for the lock has
  no other step: a lock that is not given back shows in `ClientIsClosed`.
- `ActionQueue`: the UI thread and the worker run; that `Send` returns is
  `EveryCallReturns` of `AndroidTVSender`, together with the deadline in `BeyonderClient`.
- `Discovery`: goroutines run and the context ends, since callers give it a deadline. The
  library owes nothing: a collector ends by the context. `AllSpec` in `MCParts` states the same
  for the behaviours that are a scan.
- `Credentials` (only for `pairing_timeout`): the program runs; the television owes no
  answer. The counterexample is a television that never answers.

`CHECK_DEADLOCK FALSE` is set everywhere: all calls, presses and messages are
bounded, and a system with no more work to do stops.

## 6. Bounds

| Constant | In the run | Why it is enough |
|---|---|---|
| callers, configs (`sender_*`) | 2, 2 | one caller can hold what another needs, and one session be of the other's target |
| `MaxCalls` | 1 | the session and config that a call finds are left by the other caller's call; the other caller's call plays the part of a second one, also after it has returned. The theorems of section 7 hold for any number |
| `Reports` | {"off"} in `sender_calls`, none in `sender_returns`, both in `sender_toggle` | off is the report that makes a plan of two steps; on and unknown make the same plan |
| `Requests` | three kinds, or two | named in `MCAndroidTVSender`: a two-step plan, a one-step plan, a warm-up, a link |
| `MaxMsgs`, `MaxOps` (`remote_client`) | 3, 2 | handshake, power report and error or ping while two keys are sent |
| `ChanCap`, `MaxMsgs`, `MaxOps`, `MaxProbes` | 1, 2, 2, 1 | one message fills the channel, the second blocks the reader; the code has 64 |
| `QueueCap`, `MaxPresses` | 2, 4 | two queued, one in the worker's hands, one refused; the code has 64 |
| `NumDirs` (`credentials`, `target_*`) | 2 | the current directory and an older one; a third, in the code, is searched like the second |
| `MaxOps` (`credentials`, `target_store`) | 2 | a crash and a later attempt of each process, beside the other's |
| `MaxEvents`, `MaxEdits` (`gtk_remote`) | 2, 2 | two operations of the user beside the first refresh and the refreshes they start, up to five in all |
| `Services`, `Instances`, `Addrs`, `Texts`, `MaxEntries` (`parts`) | 2, 1, 2, 2, 2 | two collectors at the map, the same device under both services, with a new address or text; the theorems hold for any numbers |
| `NvFlags`, `WakeFlags` | nine and seven command lines | every mode, layout, framing and refusal; colliding tags, empty texts, tag 0, start-at, limit and both switches |
| `MaxResumes`, `MaxTouches`, `MaxUnreal` | 1 | one resumption, one stranger and one failed sample are what the conditions of the properties name |
| `MaxUnderway` | 1 | one key at a time is late or lost; each of the causes that `HeldKeyHasCause` names is reached by itself. The theorem holds for any number |
| `MaxUnframedSize`, `Sizes`, `Messages` | 2, {1, 2, 3}, 3 | messages without and with announcement, at the limit, and a message before, between and after; every way to cut and join them; the code has 2048 |
| pairs, ids | 4, 3 and 2 | one for each generation that can happen |

`Symmetry` in `MCTargetStore` and `MCCredentials` permutes processes, televisions,
pairs and ids that the specification does not tell apart; those runs check invariants only.

## 7. The proofs

Every invariant the runs check but one (`GuessesAreSound`), and the three refinements, are theorems. In each proof
module `IInv` (or the name given below) is the inductive invariant, `Initially` shows
`Init => IInv`, and `Inductive` or `Preserved` shows `IInv /\ [Next]_vars => IInv'` from
lemmas of one action, or of a few alike, each. The constants are arbitrary, under the
named assumption of the module alone: any numbers of processes, targets, messages,
operations, guesses and resumptions.

| Module | Theorems | What `IInv` adds, and why |
|---|---|---|
| `AndroidTVSender_proofs` | `TypeCorrect`, `NoLeak`, `ConfigDescribesSession`, `OwnTarget`, `FreshRetry`, `OneLateWrite`, `Refinement`, `ConnectionsViewed`, `NothingLeftOut` | see below |
| `RemoteClient_proofs` | `TypeCorrect`, `WholeFrames`, `EarnedReady`, `NothingLost`, `Refinement` | `Lock` and `LastHalf`: who is between two halves holds the lock, and the last half on the wire is its prefix; `Steps`: where each goroutine is in `writeMessage`, and for which message; `Handshake`: what is known where the reader is about to report; `NoGap`: while no error shows, the frames of the user on the wire are its operations; `ErrorIsLast`, without which an operation could start after the error |
| `BeyonderClient_proofs` | `TypeCorrect`, `InOrder`, `RepliesSeen` | `Order`: the order also holds after the reader's end, unless `Close` made it drop the message in hand; `Ending`: the user closes only as its last step, so while it waits that has not happened |
| `ActionQueue_proofs` | `TypeCorrect`, `OnceInOrder`, `ExactDepth`, `SettledStatus` | `Traces`: an idle worker's last post reports an end, and an accepted action has left a trace that the UI cannot remove before it writes "Queued"; so "Queued" is always overwritten |
| `GtkRemote_proofs` | `TrueView`, `KeysReachShown` | see below |
| `CredentialFiles_proofs` | of `BeyonderPairing`: `TypeCorrect`, `NoFallback`, `PairWorks`, `PersistentId`; of the composition: `NvidiaFiles`, `OnePair`, `TrustStays`, `CausedAlarm` | `Remembered`: files are never removed; `Storing`: undisturbed, the one writer has written the key before the certificate; `OneId`: the id in the file is the only one in use; for the Android TV files, `FilesInv` below |
| `TargetStore_proofs` | `TypeCorrect`, `TornFileHasCause`, `OlderTargetLoses`, `WarmsChosen` | `Kept`: what files may hold; `InHand`: what a request holds at each step, and that a second look finds a target where the first did; `Undisturbed`: without a clash one process is busy with the file, and one that found no current file is right about it |
| `Parts_proofs` | of `Discovery`: `OneRace`, `RightResults`; of the probes: `RightBlame`, `CoveringResume`, `CausedHold`; of the stream: `FaithfulStream`; `ScanOfParts`: the composition implements `Discovery` | `Mutex`: who writes the map owns the mutex; `Waited`: the scan goes on when the context has ended; `Good`: records come from what was received, hold what is due, and once per key; for the probes and the stream, `NvInv`, `WkInv` and `NsInv` below |

**The connection.** `Refinement` in `RemoteClient_proofs` proves `ImplementsView`: the initial states of `RemoteClient` are
initial states of `SessionView` under the mapping `View`, and each action is one of
`SessionView`'s or a stutter, given `IInv`. Only reports of power, becoming ready, the reader's
errors and closing show; `ErrorIsLast` is needed because `SessionView` lets nothing happen after
an error.

**The sender.** From `SenderAssumption` (nil is not a caller, config, request or connection;
requests are well-formed; the reports are power states; the bound is a natural number).
None of the safety properties is inductive alone. `IInv` adds to them

- `Mutex`: a caller inside the critical section is the owner of `mu`. Without it, two callers
  could be between dialling and storing at once, and one would overwrite the other's session.
- `Locals`: what a caller knows at each step: that it has a request, that the session it
  writes to is the stored one and its config that of its request, that a plan is not empty
  while it is being sent. `WritesReachOwnTarget` is preserved by a write because of it.
- `Fresh`: a connection named by a call or an attempt that has not happened yet has never
  been dialled. Without it a dial could take over a connection that another variable
  still names, and `for` would change under the history `sent`.
- `History`, which ties `sent` to the step a caller is at: `ItemsOf`, the items of the attempt
  in hand come last, each attempt has a connection to itself, and the first one's is closed in
  the second; `PlanOf`, what the attempt has written and what it has left are together a plan
  for the request; `ApartOf`, two items of one attempt differ, and no two are late. `FreshRetry`, `OneLateWrite` and `Refinement` rest on it.

`Inductive` is one lemma per conjunct (`TypeStep`, `MutexStep`, `LocalsStep`, `FreshStep`,
`SessionStep`, `NoLeakStep`, `WritesStep`, and those of `History`) and in each one step per action
or per group of actions that touch the same variables. `DeviceKeeps` and `TargetKept` say what the
device and every other step leave alone, `OthersWait` and `OthersLocals` that one caller's
steps do not disturb another. `Refinement` proves `ImplementsContract`: a write is a step of
`SerialRemote`, and so are taking and giving back the mutex and starting a plan over; what
dials, waits and checks is a stutter.

**Both views of a connection.** `ConnectionsViewed` proves `ConnectionsAsViewed`: each of the sender's
connections, blank until it is dialled, is one of `SessionView`. It needs that a dial takes a
connection which has never been dialled (`Fresh`), that only open ones are closed
(`SessionMatchesConfig`, `Locals`), and that what is open was dialled (`OpenIsDialled`).
`NothingLeftOut` is the converse for what a device does, when `Reports` has both power states: each such step of `SessionView` is one of the
sender's `Device`. So the sender's model allows the devices no less than `RemoteClient`, which implements
the same view, may show it, and its theorems do not rest on too mild a device.

**The window.** Both theorems are about the state at rest, about which no single step knows
anything; `IInv` of `GtkRemote_proofs` says what is under way instead. `Single`: each
operation has a number of its own and is in one place; `Newest`: the newest refresh is on its
way, was shown, or failed; `ReadsTrue` and `ShowsTrue`: unless a save or a pairing is still to
come, at whose end another refresh starts, what the newest refresh has read so far, and what it
has shown, is what the store holds; `Fills`: unless somebody else changes the entry, it is what
the newest refresh was started with until that refresh fills it; `Enabled`: at rest the buttons
are enabled.

**The Android TV files.** `FilesInv` is an invariant of `Credentials`: `OlderRest`, the older
directories do not change; `Carries`, what a process has in hand is whole, whatever the others do;
`HoldOnePair`, as long as no two processes write at once: there is one writer (`WritesAlone`),
and each process finds the files as it has left them (`Finds`), so that the half that is there is
that of the pair it writes; `Unheard`, with neither a cut nor a clash nobody looks while another
writes, and half a pair is not reported. A television trusts a pair only while `Finds` has it in
the files. The theorems carry the invariant into the composition.

**The probes.** `NvInv` and `WkInv` are over the list as it is, of any length. `NvPlace`: the
log is behind the loop; `NvMade`: what the loop, an earlier log or `start-at` has gone past was made;
`NvRepeated`: what lies ahead of where the operator would go on and was made before has left no
line; `NvBlame`: as long as no cause is hidden, the power is the baseline's, or the attempt
in hand has switched it and has not failed. `WkHeld`: every held key has reported an error at
its release or was pressed late (`unsure`), or its release is on its way or lost, or it has its
release ahead of it in the list, and in the first run that is the next one. An arriving
release takes the key out of `unsure`. `LongList` says what the list of keys is, and `StartThenEnd` and `EndAfterStart` that
the two halves of a long press stand next to each other in it.

**The stream.** `StreamIsFaithful` speaks of what has come out and is not inductive. `NsInv` adds where a
Reassembler is. `NsLayout`: the messages lie one after the other, each behind its announcement,
and what has arrived is a prefix. `NsRebuilds`: unless it failed, a Reassembler is between two messages
or inside an announced one with as many bytes of it as it holds (`NsPosition`), and a
message without announcement that lies ahead of it in its chunk is the end of that chunk. `NsUncut`: the chunk does not end inside an announcement. `NsFeeds` is one turn of the
loop: it moves within a message, past an announcement, or completes message k, and then what has come out
grows by k (`NsCompletes`, `NsBetweenNext`) unless k is bad; the step of `Read` keeps `NsRebuilds` unless
the chunk hurts. One invariant does for both Reassemblers, since it is stated for one that starts between
any two messages.

Only model-checked are `GuessesAreSound`, which says what operators on lists compute and would need
induction over lists, and liveness (`EveryCallReturns`, `CloseEndsReader`, `RequestsFinished`,
`ClientIsClosed`, `ComesToRest`, `AllEnds`), since the prover does not support ENABLED.
`start-at` and `limit` are assumed to be natural numbers: the
programs look at them only when they are positive.

## 8. What is not modelled

- Encoding and decoding of payloads, link normalisation, key codes, TLS and protobuf:
  data that no property is about. Generated code.
- `Clear` of the target store: nothing calls it.
- Time: a timeout is an alternative that may always happen; how long a wait takes is not said.
- Delivery: a write on a link the device has left may succeed, as in the kernel, and no
  property claims that what was written arrived. `NvProbe` and `WakeProbe`, which look at
  the effect, have it late or lost.
- Of the probes: descriptions, waiting times, the lookup of the local address, which keys
  and defaults there are. `beyonderprobe` beyond pairing and dump: it prints what the client
  returns. `internal/probe` has no importer.
- That two goroutines write the client's error field and `Err` may return the keepalive's
  (client.go:124, 191): both writers are modelled, no property is about it.
- Sorting of devices, which orders a set for display.
- The command line: one sequential call per process. As processes
  beside the window they are in the models of the files.
- Widgets, layout, process bootstrap.

## 9. The plan

The components that keep state between events are modelled, and the safety that the runs
check is proved of them for all values of the constants, but for `GuessesAreSound` (induction
over data); their liveness is only model-checked. Partly modelled are the target store
(`Clear`), the core services (what keeps no state) and the probe tools; section 8 names what is
left out, the command line and the widgets with it. What could follow, in this order:

1. A composition of `ActionQueue` with `SerialRemote` in place of `Send`: presses reach the
   wire in the order they were accepted.
2. Lemmas about `Loops` and `Distinct` for fixed numbers of lists, and the parts of
   `GuessesAreSound` that need no induction.
