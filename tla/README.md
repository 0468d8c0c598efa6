# A TLA+ model of the StreamCheats daemon

StreamCheats is a Rust daemon (`src/backend`) behind an Electron shell
(`src/electron`) and a Next.js frontend (`src/frontend`).  The daemon accepts
KMBox-Net commands over UDP, translates them to serial packets for a proxied
mouse, keeps that serial link alive, and reports what it does on a monitor
port, a log stream and an HTTP API.  This directory holds TLA+ models of the
three, TLC configurations that check them, and theorems about them that the
TLA+ proof system checks.

Line numbers are those of the files under `src/backend/src` unless a path says
otherwise.

## Inventory

| Component (files) | State | Operations | Talks to | What is hard | What makes it correct |
|---|---|---|---|---|---|
| Session supervisor (`main.rs:409-525`) | current port, sender slot `SerialTxHolder`, per-session flag and channel | discover, publish the sender, spawn writer and reader, join both, clear the slot, back off | discovery, writer, reader, main thread; the slot is shared with everyone who sends | sender is published before its receiver exists; three threads clear the slot | a published sender has a receiver; the port is free before the next probe |
| Serial writer (`streamcheats/writer.rs`) | its receiver, consecutive heartbeat failures | take an envelope, write it, count heartbeat failures, disconnect procedure | slot, channel, port, session flag | withdrawing the sender and draining the channel against concurrent senders | nothing of a dead session survives; only heartbeats strike out |
| Serial reader (`streamcheats/reader.rs`) | line buffer | read a line, count it, end the session on an error | `lines_received`, session flag | the only detector of a lost device while heartbeats are paused | a lost device ends the session |
| Heartbeat (`streamcheats/heartbeat.rs`) | misses, paused, last count, whether it saw a session | tick every 2.5 s: prompt, count a miss, pause, resume | slot (its lock is held over the tick), `lines_received` | it samples both the slot and the counter | bounded prompts to a silent device; resumes when it talks |
| Device controller (`streamcheats/device.rs`, `state/device_state.rs`) | button mask and last deltas under a mutex | apply buttons, move, wheel, both; silent mask; reset; settings; re-arm | slot, event bus; called by the main thread, workers and watchdog | lock, build, unlock, send, publish: other threads run in between | events rebuild the state; old packets are few |
| Mask controller and watchdog (`streamcheats/mask/*`) | `mouse_bits` shadow, watchdog handle and its stop flag | mask_mouse (a diff), unmask_all (everything), start and stop the pump | device controller | a diff against a shadow while devices come and go; a join on the UDP thread | what a command of this session changed was told to the device; no pump without an axis |
| Command translator (`util/translator.rs`) | encryption toggle, counters, peer | test the length, decrypt, parse, authenticate, dispatch, ack; interpolation threads | device and mask controllers, monitor registry | a datagram's length says whether it is encrypted; integer arithmetic; threads that outlive their command | what is dispatched is what a client meant; moves sum to their target |
| KMBox wire format (`kmbox_net/parser.rs`, `schema.rs`, `encryption.rs`) | none | parse a datagram, XXTEA-like cipher | translator | lengths, widths, wrap-around | decryption inverts encryption |
| Serial packets (`streamcheats/packet.rs`, `device_settings.rs`) | none | build the 9-byte mouse packet and the settings packet | device controller | i8 and i16 limits, sentinels | decoding gives the clamped movement |
| Event bus (`streamcheats/state/bus.rs`, `event.rs`) | list of subscribers | publish, subscribe, prune | device controller, monitor | order of publication against order of change | a subscriber can follow the state |
| Monitor (`kmbox_net/monitor/*`) | peer registry, counters, subscription | register, unregister, note an emission; encode and send each event to each peer | bus, UDP | a snapshot of the registry used while it changes | a departed peer is sent at most what was under way |
| Discovery (`streamcheats/discovery.rs`) | none kept | list ports, probe each on its own thread, wait for the banner | supervisor | banner in pieces, late, after other text; two ports that match | finds a device that answers in time; closes every other port |
| Updater (`updater/*`) | `State` under a lock, poller and download tasks | check, download with progress, install, poll | GitHub, file system, HTTP routes | three tasks write one state; one `.part` file | a ready installer is on disk, and whole unless two downloads of it overlapped |
| Log stream (`services/log_stream/*`, `http/routes/log_stream.rs`) | ring of 5,000 events, broadcast channel of 8,192 | capture, snapshot, subscribe, lag | tracing layer, WebSocket | between snapshot and subscription; slow browsers | a browser misses nothing it is not told of |
| Daemon lifecycle (`util/daemon.rs`, `main.rs:540-823`) | pid, UDP port and HTTP port files | take over from an older daemon, bind, write, clean up | file system, signals, HTTP, Electron shell | crashes, reused pids, daemons that start together, cleanup on two threads, removals and reads that fail | the files name the daemon that lives, and go with it if they can be removed; one comes to serve |
| Settings file (`util/settings.rs`, `http/routes/updates.rs`) | `config.json`, the live nightly flag | load or create, toggle and rewrite | user, two HTTP workers, a process that starts | the file is truncated and filled in two steps, and read in between or not at all | the user's fields survive what spoils no read or write; flag and file agree |
| Log files (`main.rs:120-327`, `util/log_rotation.rs`) | daily files, a lossy channel, the janitor's list | log a line, roll over, sweep over the quota | appender, janitor, bug report | midnight between listing and deletion; files others hold open | the live file stays; the quota is reached |
| Bug report (`services/bug_report/*`, `http/routes/bug_report.rs`, `src/electron/services/bug-report.js`) | the request's steps | slice the last minutes, zip, save | log files, Electron, frontend | a report just after midnight while the janitor sweeps; a daemon that hangs or ends | what is saved is whole; the button comes back |
| HTTP server (`http/*`) | shared handles | routes | the above | none of its own | serves what the parts hold |
| Electron shell (`src/electron/services/*`) | child process, port cache | find, spawn or kill the backend; health check | daemon and its files | files that go stale between its reads | leaves a live daemon alone |
| Frontend hooks (`src/frontend/lib/hooks/*`) | counters, timers, buffers, a socket | poll, reconnect, post | Electron bridge, HTTP API | answers out of order; timers, look-ups and sockets that overlap | what the page shows is what is |

The hazards behind the fourth-to-last column are listed one by one, with their
lines and the properties that watch them, in `PROJECT.json`.

## Plan

In order of importance of the behaviour; what is marked is done.

1. `Session` + `SerialLink` + `SessionProofs`: the serial session (done).
2. `DeviceController` + `DeviceProofs`: the mouse state, mask shadow, watchdog
   and workers (done).
3. `Updater` + `UpdaterProofs`: the check, download and progress tasks over
   one state and one `.part` file, with failures and restarts (done).
4. `Monitor` + `ObserverProofs`: registry, copy and emission against register
   and unregister; the bus (done).
5. `LogStream` + `ObserverProofs`: ring, broadcast channel and the WebSocket
   handler (done).
6. `Daemon` + `DaemonProofs`: takeover, publication and cleanup of several
   daemons and the shell that spawns one (done).
7. `Discovery` + `DiscoveryProofs`: banner, deadlines and ports (done).
8. `Packet`, `Interpolation` and `Encryption`, composed in `Translator` +
   `TranslatorProofs`: from a client's datagram to what the firmware reads
   (done).
9. `Settings` + `DaemonProofs`: `config.json` under toggles, starts and
   crashes (done).
10. `Bridge`, `StatusPill`, `LogViewer`, `UpdateSwitch`, `FileLog`,
    `BugReport`, composed in `Frontend` + `FrontendProofs`: the page over a
    daemon that comes and goes, the log files and their janitor (done).

Left: the update banner's progress and dismissal; unmounting of the hooks; version
strings with their parsing.

## The modules

A module `XProofs` has the theorems about `X`: `DeviceProofs` those about
`DeviceController`, `ObserverProofs` those about `Monitor` and `LogStream`,
`DaemonProofs` those about `Settings` too.  An MC module has the values that TLC
gives the constants.  Most are of one module, under its name.  `MCEdges` runs
`Monitor`, `LogStream` and `Discovery`, and `MCInputs` runs `Translator` and
`Settings`: they share no state, so that a behaviour follows one of them
(`edge`, `input`) while the others stand still, and every property of each is
checked as it would be alone.

### Session (and SerialLink)

One module for five threads: supervisor, writer, reader, heartbeat, and the
main thread's shutdown.  Every sender of packets (translator, workers,
watchdog) is the one action `Send`.

| Model | Code |
|---|---|
| `running`, `sessionRunning` | the `AtomicBool`s of `run` and of each session |
| `holder` | `SerialTxHolder`: a session number stands for that session's `Sender` |
| `chan[s]` | the `mpsc` channel of session `s`; envelopes are a heartbeat or a packet |
| `sup`, `writer[s]`, `reader[s]`, `hb`, `mainPc` | where each thread is between two of its steps on shared state |
| `failures` | `consecutive_heartbeat_failures` |
| `consecutiveMisses`, `paused`, `hadSession` | locals of `heartbeat_loop` |
| `fresh` | `lines_received > last_send_count`, the only thing the two counters are used for |
| `verdicts`, `prompts` | history, read by no guard |

A producer locks the slot, sends and unlocks in one step.  The heartbeat alone
holds the lock over its send and its second look at the line counter, so it
has two steps, and no other thread touches the slot between them.  A received
envelope, its write and the verdict are separate steps, because the flag can
drop between them.  The disconnect procedure is step by step: clear the slot,
drop one envelope at a time, return.  `SerialLink` is the promise the sessions
make to senders: packets are accepted while the link is open, leave in order,
and never cross into a later session.  `ImplementsLink` is the refinement.

### DeviceController

The main thread executes one command at a time.  The part of a command that
holds the state lock, or the mask lock, is one action per opcode (`Connect`,
`ApplyButtons`, `ApplyButtonsAndMove`, `Interpolate`, `MaskMouse`,
`UnmaskAll`); what it does afterwards without the lock is put, in the order of
the code, in `todo`, and one action per kind of entry takes it from there:
send an input packet or a setting, publish an event, spawn a worker, start or
stop the watchdog, join it.  Workers and watchdog are three steps a packet:
look at the mask, send, publish (the watchdog publishes nothing).

| Model | Code |
|---|---|
| `buttons` | `DeviceState.button_mask` |
| `bits` | `MaskState.mouse_bits`, as the set of masked buttons and axes |
| `worker[w]` | the detached threads of `spawn_automove` and `spawn_bezier` |
| `dog`, `handle` | the thread and the `Option<Watchdog>` |
| `told`, `hid` | what the present device was sent: a serial channel is FIFO, so the last value of each setting is what the device has |
| `seen` | the mask that a bus subscriber rebuilds from `ButtonsChanged` and `Reset`: the bus is FIFO too; the mask in `MoveEmitted` is a report that it does not need |
| `attached` | the slot holds a sender; `Attach` and `Detach` are all this module knows of `Session` |
| `late`, `due` | history, read by no guard: old packets since the last change, and the settings that a command of this session changed or swept and that the device was not told since |

`mask_keyboard` only logs, and dx, dy and wheel play no part in the
properties here (they do in `Translator`); both are left out.

### Updater

The poller and the requests run `check_once`, a request runs
`start_download`, and every download is two tasks.  A step of the model ends
where the code awaits: at the state's lock, at the network and at the file
system.

| Model | Code |
|---|---|
| `state` | `Updater.state`; of its fields only the version |
| `check[c]` | where the poller or a request is in `check_once`; a failed fetch looks at the state in one step and writes it in the next |
| `dl[d]` | the download task: `start_download` to its first await, then `download_to_temp` |
| `queue[d]` | the progress channel; its task writes `Downloading` for each report, for as long as there are any |
| `part`, `exe`, `file` | the two names of a version's installer in the temporary directory, and the files they lead to; an open file outlives its name |
| `overlapped` | history, read by no guard |

Versions are numbers in the order of semver, and the list that GitHub answers
with is any set of them.  `Restart` is the end of the process, at any moment
and for any reason, and its next start: only files outlive it.  `Installed`
stays, since a newer installed version would only leave the checks fewer
offers.  `install_now` reads the state and changes none; that the path it reads
is there is `ReadyOnDisk`.  Removing a name is best effort in the code, so it
may also not happen, and `File::create` then empties the file that has the
name.

### Monitor

The UDP loop with `handle_cmd_monitor`, the bus, and the emitter thread.  A
step ends where a lock is released, at a datagram, and at the emitter's wait.

| Model | Code |
|---|---|
| `peers`, `total` | the keys of `PeerRegistry.inner` and their `total_emits`; `MaxEmits` stands for `u64::MAX`, where the counter saturates |
| `udp`, `leaving`, `toRemove` | the UDP loop; in `cmd_monitor(0)` the host and what is left of the handler's copy of the table |
| `emitter`, `targets`, `target` | where `run_loop` and `dispatch` are, what is left of the emitter's copy of the table, and the peer between its datagram and `note_emit` |
| `subscribed`, `queue` | the emitter's `Sender` in the bus, and the length of its channel; `Publish` by any thread |
| `wanted`, `sent`, `late` | history, read by no guard |

What a change says is the same packet for every peer and is left out.  The
translator handles one datagram at a time, so that `handle_cmd_monitor` never
runs twice at once.

### LogStream

`CaptureWriter::drop` pushes a line and then broadcasts it, under two locks:
two actions, and any number of lines may be in between.

| Model | Code |
|---|---|
| `logged`, `ring` | `LogRing`; a line is its number in the order of the pushes |
| `writing` | lines pushed and not yet broadcast, each by a thread of its own |
| `channel` | every line ever broadcast; `tokio`'s channel keeps the last `ChannelCapacity` of them, and `Behind` says whether a receiver still finds its next one |
| `pc[c]`, `backlog[c]`, `next[c]` | `handle_socket`: its place, the rest of its copy of the ring, the position of its receiver |
| `start`, `horizon`, `got`, `live`, `told` | history, read by no guard |

`Close` ends a session at any moment, since a client can; it may then connect
again.  A line broadcast while nobody listens is in `channel` all the same,
behind the start of every later receiver.

### Daemon

Processes, each known by its pid, that run `main` next to each other, and the
Electron shell.  A step ends at every file and every look at another process,
and whatever is between two of them is one action.

| Model | Code |
|---|---|
| `os[d]` | who has the pid: nobody, a daemon, or an unrelated program |
| `pc[d]`, `seen[d]` | the main thread from `takeover_if_running` to the end of `run`, and the pid it read |
| `handler[d]` | the Ctrl+C thread, which runs the same cleanup next to the main thread |
| `running[d]`, `port[d]`, `bound[d]`, `http[d]` | the flag, the configured UDP port, its socket, the HTTP server |
| `files` | the pid, port and HTTP port files: whose they are |
| `shell`, `found`, `child` | `spawnIfNeeded` of the Electron main process, the pid it read and the process it spawned |
| `errors` | how many operations have failed; `MaxErrors` bounds it |
| `kept` | history: files whose daemon could not remove them in the end |
| `contested`, `disturbed` | history: who published next to another process or was overlooked by one whose read failed, and whether anything came from outside |

The code drops the error of every removal, in `takeover_if_running`, in both
cleanups and in the shell's `removeStaleFiles`, so each may leave the file
where it is (`Remove`, `RemoveLast`).  A pid file that cannot be read is taken
for none, and a process that `tasklist` cannot name for a stranger, by which a
live daemon is overlooked (`contested`).  `StartFails` is every other return of
`run` with an error: the bind fails for other reasons than a daemon, the socket
refuses its timeout, or `ctrlc::set_handler` fails after the files are out,
which nobody then removes.

`write_atomic` renames a whole file into place, so that a file names one
process.  The name of the new file is the same for all daemons: of two that
write at the same time, one may put the other's into place (`Write`).  A
process is killed by a takeover, by the shell, by a crash or by the user;
`Reuse` gives a dead daemon's pid away.  Threads of the daemon that write none
of the files are in `Session`.

### Discovery

One probe thread for each port the system lists, and `discover_device`.  What
a device sends is a sequence of tokens (a firmware prefix, any other byte, a
newline), cut into reads of any size.

| Model | Code |
|---|---|
| `probe[p]`, `open[p]`, `accum[p]`, `expired[p]` | the thread, its handle, its buffer and its deadline |
| `matches`, `abort`, `main`, `result` | the channel of matches, the flag, and `discover_device` up to its return |
| `heard[p]` | history: everything that the probe has read |

`Cap`, `Drop` and `Chunk` stand for the buffer's limit of 8,192 bytes, the
4,096 that go when it is passed (`discovery.rs:122`), and the 256 of a read.

### Packet, Interpolation, Encryption and Translator

`Packet` has the mouse packet as nine bytes, and what the firmware reads in
them; `Encryption` the cipher over words of `WordBits` bits; `Interpolation`
the worker threads, with the curve in whole numbers; `Translator` the loop
around them.

| Model | Code |
|---|---|
| `wire`, `reply` | the datagram under way, as words, and the ack |
| `job[w]`, `at[w]`, `emitted[w]` | a worker's arguments, its loop counter, and what it believes it has moved |
| `mask`, `host` | `button_mask`, and what the firmware adds up from the packets |
| `meant`, `heard`, `moved`, `sent`, `clamped` | history: the client's intent, what was dispatched, what the device controller and each worker were asked for |

The cipher is a list of updates, each of one word by its two neighbours:
`Before` and `After` are `a3` and `a4` of `encrypt`, and `Decrypt` undoes the
list from its end, as the loops of `decrypt` do.  The exclusive or is spelled
out bit by bit.  The daemon never calls `encrypt`; a client does, who is not
part of this repository, like the datagrams of `Send`.  Another client's
encrypted datagram decrypts to noise, which could by chance begin with this
device's MAC (one in 2^32 for the code): `ForeignStaysForeign` assumes of the
requests, MACs and counts of an instance that none does, and TLC evaluates it
on every datagram the instance can send.  A Bezier point is rounded to the
nearest whole number, and at a tie either way, which covers what `f64` makes of
it.

### Settings

`config.json` is one of few classes of contents: missing, broken, a JSON value
that is no object, or an object with one class of fields (the default's, a user's,
one that `validate` rejects, one that serde rejects, none) and the
`experimental_builds` field on, off or unset.  Every read of it may fail, also
of a file that is whole: a start then replaces the file with the default, and a
toggle takes it for `{}`.

| Model | Code |
|---|---|
| `file` | `config.json`; a write is a truncation and a fill |
| `starter`, `judged` | a process in `load_or_create`, and what it has read |
| `up`, `flag` | a daemon that serves, and its `Updater.experimental` |
| `toggle[r]`, `want[r]`, `text[r]` | a toggle's handler, its value, and the document that it will write |
| `saved`, `saves` | history: the fields the file should have, and how often the user saved |
| `spoilt`, `peeked` | history: whether a read failed, a write was cut off or crossed another; whether half a file was read |
| `crossed` | history: whether flag and file may differ |

### Frontend

`Bridge` has the daemon as the page sees it: it comes, publishes its port,
hangs, goes, and leaves its file behind or not.  The parts share nothing else,
so that a behaviour of `Frontend` follows one of them at a time (`view`).

| Model | Code |
|---|---|
| `StatusPill`: `pill`, `failures`, `probing`, `detail`, `asking` | `useConnectionStatus`, `useHealthDetail` and the health check over IPC |
| `LogViewer`: `resolving`, `socket`, `timers`, `status`, `paused`, `events` | `useLogStream`: look-ups of the URL, the WebSocket, the reconnect timer, what the view says and keeps |
| `UpdateSwitch`: `polls`, `press`, `shown`, `busy`, `flag` | `useUpdater`: status requests and the nightly box, and the daemon's flag |
| `FileLog`: `channel`, `current`, `files`, `held`, `sweep`, `report` | the lossy channel, the day of the open file, the files by day (a line is its time stamp, and is known by its file's day and its place there), those that others hold open, the janitor's list of days with sizes and its total, a report's slices |
| `BugReport`: `button`, `job`, `zip` | `useBugReport`, `runBugReport` with its timeout, the file on the desktop |
| `outcomes`, `early`, `due` | history |

## The runs

| Run | Question | Bounds |
|---|---|---|
| `session` | does a teardown leave nothing behind, is a silent device left alone, does the whole implement `SerialLink`; do shutdowns, lost devices' sessions and pauses end | two sessions, since every hazard between sessions is between one and the next; two envelopes waiting, so that a drain takes several steps; thresholds of two, so that a first and a last failure differ (three in the code) |
| `device_races` | a command, a worker and the watchdog interleaved | masks none and one button, one axis, one worker of two packets |
| `mask_live` | histories of masks with devices coming and going; does every command, worker and shutdown end, and the pump go on | a button and both axes, which share one switch and one pump; no button held; one worker of two packets |
| `updater` | is an installer whole and a ready one there, does a stale `Downloading` end | two downloads, since they share files by pairs, over all restarts; the poller and one request; a stable version and a nightly, both newer than the installed one; one chunk, which makes a file either empty or whole |
| `edges`: monitor | does a departed peer stay departed, are the counters right, does the emitter end | a host with two ports and one with one, so that an unsubscription removes several entries and not all; two changes waiting; a counter that saturates at 2 |
| `edges`: log stream | does a browser get every line it is not told of, and is it brought up to date | one client, since clients only read what they share; ring and channel of two, five lines, so that both overflow and a client can lag twice |
| `edges`: discovery | is the winner the only port kept, is a banner overlooked, does the search end | two ports, five tokens heard, a buffer of three that drops two, reads of one or two: a banner can come in two pieces, after a buffer that overflowed and in the read that makes it overflow |
| `daemon` | do the files name the daemon that lives, who is turned away by the port, does one come to serve | two pids, each started any number of times, with a shell: an old daemon and its successor, or two at once; one UDP port, over which they meet (two daemons that write their files at the same time need two, which the theorems have); one operation that fails, at any place (`MaxErrors`) |
| `inputs`: translator | does the firmware read what the client meant; do interpolated moves add up | two datagrams, the first of them also encrypted; requests on both sides of every limit of the number formats, with divisions that leave a remainder and negative ones; two workers; words of 20 bits, which hold every value the requests use, four rounds, blocks of 20 words, two more than a plain datagram has |
| `inputs`: settings | do the user's fields survive, do flag and file agree | two toggles and two saves by hand, over any number of starts, crashes and failed reads |
| `frontend` | is the page right about the daemon and its own doings, and does it come to be right again | two ports, since a stale port file needs another one; the code's threshold of three failures; four lines kept; two status requests at a time; log files of two days and three lines around a midnight, with a quota of one line |
| `half_installer`, `offer_lost` | what two comments of the updater say and the code does not keep | as `updater`; one download is enough for the second |
| `masks_lost` | what the watchdog's header says and the code does not keep | one axis, one worker of one packet |
| `toggle_overlap` | what a comment on the toggle says and the code does not keep | as `inputs` |

What the conjoined properties say in particular:

- `TeardownIsClean`: a drained channel stays empty, a published sender has its
  receiver, the port is free between sessions, no writer in its loop loses its
  sender before shutdown, and `run()` returns with nothing left.
  `NothingHangs`: a shutdown ends, a lost device's session ends, a paused
  heartbeat resumes.
- `DeviceFollowsMasks`: between commands the device was told all that the
  commands of its session changed or swept, whatever it was told agrees with
  the masks in force, and the pump has a handle exactly while an axis is
  masked.  It says nothing of masks of an earlier session or of none, which are
  lost (`masks_lost`), nor of the time within a command.  `WaitsEnd`: commands,
  interpolations and shutdown.
- `EmitsFollowTable`: one datagram after an unsubscription at most, and
  counters within one.  `NoSilentLoss`: a client that was told of no loss has
  every line, and losses told add up.
- `FilesAreTrue`: all three files name a daemon that serves, published alone
  and was not overlooked, and none names one that returned unless its own last
  removal of that file failed (`kept`).
- `SearchIsSound`: one port open at the return, and no port given up on that
  sent a whole firmware line.
- `MeantIsWhatMoves`: what is dispatched is what the client meant, and the
  firmware's totals are those the device controller was asked for.
  `InterpolationIsExact`: moves sum to the target, and a straight one is even.
- `PageIsHonest`: the pill against the last three probes, one connection of
  the log view at a time with a true status, a saved report that is whole.
  `PartsSettle`: each part comes to show the truth once the daemon stays, the
  bug report button comes back, the janitor reaches the quota.

`MaxSessions`, `MaxPending`, `Workers`, `MaxSteps`, `Downloads`, `MaxQueue`,
`MaxLines`, `Clients`, `Procs`, `MaxErrors`, `MaxHeard`, `MaxDatagrams`, `MaxEncrypted`,
`MaxSaves`, `MaxTime` and `Polls` are bounds of the model and not of the code;
the theorems hold for every value of those they are about.
Deadlock is checked in every run but `inputs` and `toggle_overlap`, whose
translator stops when its datagrams are used up.  Elsewhere a part that has
come to its end stutters in an action of its own: `Exited` in
`DeviceController`, `Ended` in `Monitor`, `Found` in `MCEdges`; and the updater
can always restart.

### Fairness

Every thread is scheduled (weak fairness of its steps), and discovery, the
sleeps, a read and a write return.  Nothing forces a device to answer or fail,
a host to send, or a user to stop the daemon, and the liveness properties do
not need it.  That a write returns is an assumption about the driver: the
port's write timeout is zero (`writer.rs:75`), and a write that never returned
would keep the writer from either flag.  The locks are ordinary mutexes; no
thread holds one across a wait except the heartbeat, whose wait is a channel
send that does not block.

In `Updater` the poller's own steps are scheduled, and GitHub answers one of
its fetches after another (strong fairness of `FetchOk`).  No download is
assumed to end, no request to come and no progress task to be scheduled:
`DownloadingEnds` is about the poller alone, since after a late report nothing
else would end the state.  It takes up to six hours.

In `Monitor` the emitter is scheduled and its wait times out; nothing is
assumed of the UDP loop, of publishers or of a datagram's success.  In
`LogStream` the handler of a client is polled until the client is gone, which
takes a client that reads: a send that waited for ever would stop the handler.
`select!` chooses among ready branches at random, so that a client that keeps
sending cannot keep the channel out.  Nothing is assumed of logging threads;
only finitely many lines are logged, hence "up to date" is the end of them.

In `Daemon` the main thread of every process is scheduled.  Nothing is asked of
the Ctrl+C threads and the shell, and no process is ever started, stopped,
killed or interrupted unless it so happens: `SomeoneServes` says what follows
when that comes to an end.  In `Discovery` the probes and their deadlines are scheduled: a clock
runs.  `EdgesSpec` has the fairness of the three modules it runs.  In `Frontend` timers fire, requests end and the janitor is scheduled;
daemons, the user and what is logged are free, and every property of
`PartsSettle` says of itself what has to hold still.

### What the code does not keep

Two downloads of one version can overlap: two requests, or a check that sets
`Available` again while a download runs.  They share one `.part` name, and the
first to end renames the file that the second still writes (`half_installer`).
The second then finds no `.part`, and may have removed the `.exe` before that.
Without overlap none of this can happen, which is what `InstallersAreSound`
says and `UpdaterProofs` proves.

A failed check looks at the state in one lock and writes `Failed` in another
(`updater/mod.rs:166`): an offer that the other checker made in between is
overwritten, against the comment at 163-165 (`offer_lost`).  The banner is gone
until a later check succeeds.

Masks set while no device is attached, or before one is replaced, are never
told to the device that comes later, while the pump feeds it wheel = 1 packets
that it takes for scrolls (`controller.rs:154` against `watchdog.rs:1-2`;
`masks_lost`).

Two toggles on the two HTTP workers can overlap: one reads the file that the
other has truncated, takes it for `{}` and writes a document with the toggle
alone (`util/settings.rs:185`, against 174-176; `toggle_overlap`).

What modelling has shown besides, and no run shows as a violation, since it is
a matter of one step or of one failed call:

- A removal that fails leaves a file that names no daemon, also after a clean
  exit (`util/daemon.rs:217-237`, `backend-process.js:76-82`); the next takeover
  tries again.  A pid file that cannot be read is taken for none
  (`util/daemon.rs:94`) and a process that `tasklist` cannot name for a
  stranger (`backend-process.js:64-70`); the daemon it names lives on without
  files.  `FilesAreTrue` names these exceptions.
- A `run()` that cannot set its Ctrl+C handler returns with its files published
  and removes none of them (`main.rs:630`).
- A `config.json` that cannot be read, also if only for a moment, is replaced
  with the default by a start (`util/settings.rs:249-258`) and with the toggle
  alone by a toggle (186), as 179-181 and 235-236 say: the user's fields are
  gone.  So they are after a crash between truncation and text.
- Toggles that overlap, with each other or with a start, may leave a flag in
  the file that is not the daemon's (`http/routes/updates.rs:92`); `FlagIsSaved`
  speaks of the others.
- `resume()` says "streaming" also while a look-up or a connection attempt is
  under way and no socket is open, until that attempt ends
  (`useLogStream.ts:92-99` under `src/frontend/lib/hooks`; `early` in
  `StatusIsHonest`).
- Two bug reports of one minute have one name, and the second replaces the
  first on the desktop (`services/bug_report/mod.rs:134-137`).
- A watchdog packet carries a mask read before the lock was released
  (`watchdog.rs:68`), and may undo a press or release on the wire until the
  next packet, against `device.rs:345-347`.  The same holds of interpolation
  packets.  `OneStalePacket`, proved, says how bad it can be: one packet per
  thread per change.
- A progress report handled after its download ended sets the state back to
  `Downloading` (`updater/mod.rs:276-292` against 61), and the installer that
  was ready cannot be launched any more.
- A session that ends and is replaced between two heartbeat ticks is not
  noticed (`heartbeat.rs:90` against 86); the new device inherits pause and
  misses until its first line.
- A firmware line that arrives between the heartbeat's send and its second
  look at the counter (`heartbeat.rs:145` against 38) is forgotten, and the
  next tick may count a miss.
- A worker may publish its move, with the mask it read, after a later change
  was published (`device.rs:139` against `event.rs:4`): the last report of the
  monitor is then wrong until the next one.
- Sens reduction is switched off before the pump is stopped
  (`controller.rs:180`), so that until the command ends a wheel = 1 packet can
  reach a device on which it is a scroll (`device.rs:347`).
- A successful check while an installer is ready sets `Available` again: the
  installer stays on disk, but it has to be downloaded once more.
  `install_now` (`updater/mod.rs:328`) launches the path that it read before.
- A `config.json` with a value of the wrong type, such as 70000 for
  `udp_port`, does not parse, and is removed and replaced with the default
  (`util/settings.rs:219-221, 235-236`); a value that parses and is invalid
  leaves the file alone (262-272), which is all that `src/backend/README.md:50-53`
  speaks of.
- A `config.json` that does not parse becomes, by the first toggle, one with
  the toggle alone.  The next start is said to fill in the defaults
  (`settings.rs:179-181`); the file parses and lacks `listen_addr`, and the
  start fails on it.
- A start whose UDP port is taken by a daemon that was itself starting fails
  although nobody holds the pid file (`TurnedAwayOnlyInRaces` says when).
- `daemon.rs:5-7` says that a `udp_port` of 0 is valid and means an ephemeral
  port; `settings.rs:144` rejects it.
- `src/electron/services/backend-process.js:66-69` takes a second spawn for
  harmless; two starts can kill each other's daemon on the way, until one
  serves.
- `FILE_LOG_GUARD` is a static and is never dropped (`main.rs:130-135`): the
  lines still in the channel at the end of the process are lost.
- A bug report fails if the janitor deletes yesterday's file between the test
  for it and the read (`log_slicer.rs:44, 76`).  An old log that was touched
  is the newest by mtime, and the janitor may then delete the live one
  (`log_rotation.rs:70-73`); the model keeps files in the order of days.
- A dismissed update banner returns after a manual check (`useUpdater.ts:42-51,
  65-73` under `src/frontend/lib/hooks`).
- `main.rs:805` clears the slot while the supervisor may still publish a
  session; the session then ends by its flag, which `TeardownIsClean` and
  `NothingHangs` cover.
- `bus.rs:22-31` documents a channel of 1,024 changes that drops on overflow;
  the code opens an unbounded one (`bus.rs:104`, as its comment says), and an
  emitter that falls behind keeps every change.
- `http/routes/log_stream.rs:9` says that the server subscribes after the
  snapshot; the code subscribes before it, as its comment at 52 says, and
  `CaughtUpHasAll` would not hold otherwise (the property's mutant does what
  the header says).  The header also says, at 15, that any client message ends
  the session; the code goes on at 82.
- A line may be shown twice, from the snapshot and from the channel, as the
  comment at 53-55 says, and lines of several threads may be shown in another
  order than they have in the ring.
- `schema.rs:57-66` says that the translator implements no encryption and
  that an encrypted body is parsed as garbage; `translator.rs:163` decrypts
  every datagram of 128 bytes, and `OurClientIsHeard` relies on it.
- `translator.rs:463-464` says that the moves of an interpolation add up to
  its target.  A step longer than 32,767 is clamped, and what is cut off is
  never made up for (`clamped` in `LandsOnTarget`).
- `discovery.rs:165-167` says that the send of a second match fails and thereby
  drops its port.  The receiver lives until the function returns, after the
  joins; the send succeeds, and the port is dropped with the channel, which is
  as good (`OnlyTheWinnerIsOpen`).

## What is proved

The proof modules argue from an inductive invariant, for every value of the
constants, under the named assumptions of each module.

`SessionProofs`: `SafetyInv` says that sessions come one after the other, that
a session's threads are as far as the supervisor's place allows, who may find
the slot filled or empty, and what the counters count.  The safety properties
are not inductive: that the drained channel stays empty needs to know that the
slot is empty while the writer drains, and that needs to know that nobody else
fills it.  From it follow `TeardownIsClean`, `SilentDeviceIsLeftAlone`,
`StrikeOutOnlyOnHeartbeats` and, with the step-by-step mapping to `SerialLink`,
`SessionImplementsLink`.

`DeviceProofs`: `DeviceInv` says that the state and what is left in `todo`
agree: a setting was told as the masks ask or a step that tells it is left,
the mask was announced or its announcement is left, the pump has a handle or a
step that starts it is left, and every setting that is due has a step that
tells it (`DueIsPending`).  Each step takes one entry off, and the invariant
turns into the property when nothing is left.  From it follow
`DeviceFollowsMasks`, `EventsRebuildMask` and `OneStalePacket`.

`UpdaterProofs`: `UpdaterInv` says who may use a version's two names.  That an
`.exe` is whole is not inductive: the renamed file must be the one the
download wrote, hence no file has two names, a file has none before it is
created (`OneNamePerFile`), and a lone download's `.part` is its own and has
every chunk so far (`PartIsOwn`).  From it follows `InstallersAreSound`.

`ObserverProofs`, of `Monitor`: `MonitorInv` says that the table is what was asked for, that
the copy an unsubscription works off holds every entry of its host, and that
an address the emitter has not yet served got no late datagram.  The bound on
the counters needs more than itself: between a datagram and its note the
counter may be behind but not ahead, which is why the one note that hits a new
registration makes it one too high and no more.  From it follow
`EmitsFollowTable` and `UnsubscribeClears`.

Of `LogStream`: `StreamInv` says that the ring has the newest lines in
order, and that every line since a client's snapshot is sent, in its backlog,
in the channel after its start, or not yet broadcast (`NothingSlips`).  The
step that needs the subscription to come first is the snapshot: a line that
the ring has dropped is older than the horizon, and any other is copied.
From it follows `NoSilentLoss`.

`DaemonProofs`: `DaemonInv` says what a process has by where it is
(`ProcessesInStep`), and that an owner, a daemon that published its pid alone
and was not told to stop, has its own files while every other live process is
still at the top of its takeover or looks at the owner in it (`OwnerIsKnown`).
That the files of a serving daemon stay is not inductive without it: a process
further on than that could remove or overwrite them.  `RemovedInOrder` says
that nobody writes a pid which its daemon has removed, so that of the two
cleanups together nothing is left but what the last one could not remove
(`kept`).  Every removal and read may fail, any number of times: `MaxErrors` is
any natural number.  From it follow `FilesAreTrue` and
`TurnedAwayOnlyInRaces`: a port that is taken by an owner is taken by a daemon
that the one at the bind would have to be behind.

Of `Settings`, in the same module: `SettingsInv` says that the file and every
text about to replace it agree on the fields that count (`FieldsAreKept`).
That edits survive is not inductive without the texts: a handler holds a
document that it read before others wrote, and may still write it.  As long as
nothing was `spoilt` or `peeked`, a process that replaces the file has found
nothing worth keeping in it, and the toggle
that is being handled has the flag's value (`FlagIsKept`).  From it follow
`EditsSurvive` and `FlagIsSaved`.

`FrontendProofs`: `FrontendInv` is one invariant for each part, and a step of
one leaves the others' alone.
- The pill: the counter is the number of failures since the last answer among
  the results that `PillIsHonest` speaks of (`FailuresAreCounted`), whatever
  the threshold.
- The log view: `OneAttempt` and `StatusIsHonest` hold each other up with the
  types, since a status depends on which socket there can be.
- The log files: every file is of a day up to the worker's, and no line is in
  a file before its own day (`DaysInOrder`); hence the files that the janitor
  lists stay as they were listed, and its total never exceeds what is there
  (`SweepIsCurrent`), also when midnight comes in between.  So it deletes only
  over the quota and never the file being written: `OnlySpareLogsGo`, for any
  files that earlier runs left.  `Size` is a cardinality, and what a deletion
  or a line does to it are lemmas of their own.
- The bug report: a line that the report should have is in it, in a file that
  it has yet to read, or in one that was deleted (`NothingLeftOut`).  It rests
  on `DaysInOrder` and on a window shorter than a day: a recent line is then in
  today's file or yesterday's.  From it follows `SavedIsWhole`, hence
  `PageIsHonest`.

`LogAssumption` asks of the files of earlier runs what the appender leaves
behind: finitely many, of days up to now, with lines that are not from the
future and no later than their file.  `ViewerAssumption` asks for a list of
four lines at least, as a quarter of it goes at a time (the code keeps 5,000).

`DiscoveryProofs`: `DiscoveryInv` says that a probe's buffer is the end of
what it heard, and longer than `Cap - Drop` as soon as anything was cut off
(`BuffersKeepUp`); a short line that ends in the present read is therefore in
the buffer as a whole, also where the read that ends it overflows the buffer.
`PortsAreHeld` gives every open port the one who will close it: its probe, the
channel, or the caller.  From it follows `SearchIsSound`.

`TranslatorProofs`: `TranslatorInv` says that what is on its way is one form of
what its client meant (`WireIsMeant`), that what was dispatched is what was
meant, that the workers are on their lines (`ExactInv`), and that the
firmware's totals are those it was asked for.  It stands on three stacks of
lemmas.
- The workers: integer division is odd, as on `i64`, it is exact on multiples,
  and two neighbouring points of a line differ by the share of a step to
  within one count.  A worker has sent what it believes unless a move was
  clamped, and its last step ends on the target.
- The packets: an `i16` survives its two bytes, and a direct byte is never one
  of the two sentinels, so the firmware reads every move that `build_packet`
  encodes (`FirmwareReads`).
- The cipher: an update changes one word by an amount that the other words
  alone give, and is undone by taking that amount away, with the wraps of
  both.  That decryption goes back along the whole list would be an induction,
  which the provers cannot do with the library's theorems; it is had from the
  least number at which the two lists of blocks would differ
  (`NatLessThanWellFounded`).  `DecryptInverts` holds for every block, key,
  number of words and rounds, in particular for the code's 32, 32 and 6.

From them follow `MeantIsWhatMoves`, `OurClientIsHeard` (from `WireIsMeant`
alone, without `ForeignStaysForeign`) and `InterpolationIsExact`, of the
workers on their own and of those that datagrams start.  `TranslatorAssumption`
asks that requests and MACs fit in words, and that an encrypted datagram is
longer than a plain one, by which the daemon tells them apart.

TLC checked these invariants on the instances above before they were proved.

Only model-checked: all liveness, since liveness under fairness and `ENABLED`
are out of the prover's reach; and the four statements that the code does not
keep, which runs refute.

## What is not modelled, and why

Bytes, formatting, logging, time stamps and latency, which no property tells
apart; of the operating system's serial driver only the outcomes of a read and
a write.  A temporary file mixed of the texts of two daemons that write it at
the same time: only whose whole file comes into place is told apart.  The
settings packet and the monitor report are known by what they
say and not by their bytes, since no number in them is near a limit of its
width.  The keyboard body, which dispatch never parses.  Rendering in the
frontend, windows and tray in the shell, and the zip encoding and system
information of a bug report are plain I/O.  The update banner's progress and
dismissal, and the hooks' unmounting, are left in the plan; version strings
are numbers in the order of semver, and their parsing is a library's.  Test
scripts and build files are no part of the running program.
