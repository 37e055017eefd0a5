# mementum-led: specifications, model checking and proofs

mementum-led drives a wall of 8x8 NeoPixel panels that scroll the same text in
step. Every panel is an ESP32 running the same firmware
(`src/http_controller/`); one of them, elected at run time, opens the WiFi
access point, keeps the message queue and tells all others what to show and
when. A Raspberry Pi (`src/server.py`) can take over the server's part; panels
cannot tell it from an elected one. This directory holds TLA+ models of that
code, TLC configurations for small instances, and TLAPS proofs.

- `PROJECT.json` lists components, runs, mutants, findings, hazards and
  theorems, and maps every definition to the source lines it models.
- Model-check: `tlc -config <run>.cfg MC<Module>`; prove: `tlapm <Module>Proofs.tla`.

## 1. Inventory

| # | Component | Source | Modules | Status |
|---|-----------|--------|---------|--------|
| 1 | Failover election | `ws_wifi.cpp:640-1004` | `Leadership`, `Failover`, `FailoverProofs`; deadlines in `Millis` | modelled |
| 2 | Firmware queue and sequencer | `http_controller.ino:183-241`, `ws_wifi.cpp:342-506` | `FirmwareSequencer`, `FirmwareSequencerProofs` | modelled |
| 3 | Firmware registry, session and broadcast | `ws_wifi.cpp:56-165, 168-340, 830-917` | `Session`, `SessionProofs`, `FirmwareBroadcast`, `FirmwareBroadcastProofs` | modelled but for the unlocked vector |
| 4 | Display schedule | `ws_flow.cpp:16-82`, `ws_wifi.cpp:472-571` | `DisplaySchedule`, `DisplayScheduleProofs`, `Takeover` | modelled |
| 5 | Shared clock | `ws_wifi.cpp:23-36, 194-234` | `SharedClock`, `Takeover`, `TakeoverProofs` | modelled |
| 6 | Wall-clock anchor | `ws_wifi.cpp:36-51, 572-593` | `Millis`, `MillisProofs` | modelled |
| 7 | Pi server: queue and sequencer | `server.py:235-247, 372-397, 521-658` | `PiQueue`, `PiServer`, `PiProofs` | modelled |
| 8 | Pi server: registry and broadcast | `server.py:250-296, 400-450, 604-671` | `PiBroadcast`, `PiServer`, `PiProofs`, `Session`, `Takeover` | modelled |
| 9 | Pi server: settings, fragments, log stream | `server.py:62-225, 300-370, 482-500` | `PiQueue`, `PiProofs` | settings modelled |
| 10 | Admin page | `data/index.html` | - | not modelled |
| 11 | Text scrolling and LED drawing | `ws_flow.cpp:84-227` | - | not modelled |
| 12 | Configuration loading and deployment | `loadConfigFromCSV`, shell and systemd | - | not modelled |

**1. Failover election.** *State:* `nodeRole`, ages `roleSince`, `lastScan`,
`lastServerScan`, `lastPromotionEvt`, deadline `promoteAt`, `everSawServer`,
the radio. *Operations:* the four tick handlers and four enter functions of
`WIFI_Loop`. *Interaction:* only through which access points are on the air; no
election message exists. *Hard:* a scan blocks `loop()` and its result is old
when acted upon; several nodes promote at once; a server may step down in
favour of one that is stepping down itself; power and links come and go.
*Correct when:* two servers that hear each other share the SSID for a bounded time,
an established server is not contested, stepping down never leaves the wall without
a server, and the nodes settle.

**2. Firmware queue and sequencer.** *State:* `sentStrings`, `playCount`,
`sentCount`, `currentStringIndex`, `max_plays`, `currentSchedule.active`.
*Operations:* `/SendData`, `/deleteSelected`, `/clear`, `/resetPlayCount`,
`/setMaxPlays`, and one pass of `serverSequencerLoop`. *Interaction:* `loop()`
and `webServerTask` share all of it without a lock. *Hard:* a handler between
any two accesses of a pass. *Correct when:* counts belong to their messages,
the ceiling holds, every message is shown, and `loop()` always gets out.

**3. Registry and session.** *State:* `registeredClients` and `lastCleanup` on
the server; `clientId`, `isConnected`, `heartbeatFailures`, `lastHeartbeat`,
the register backoff on the client. *Operations:* `/register`, `/heartbeat`,
`cleanupStaleClients`, `tickClient`, `WiFiEvent`, `broadcastCommand`.
*Interaction:* HTTP; on the client `loop()` and the WiFi event task write the
same variables; each broadcast is a task of its own that walks a snapshot of
the registry. *Hard:* lost answers, a server that restarts faster than the
client notices, late answers of a former session; several broadcast tasks at
once, held up by dead targets. *Correct when:* a reachable client ends up
registered and knows it, a vanished one is forgotten, and panels agree although
nobody waits for a broadcast to end.

**4. Display schedule.** *State:* `currentSchedule`, the panel. *Operations:*
`setSchedule`, `handlePlay`, `handleClearStrings`, colour wipes,
`renderScheduled`. *Interaction:* two tasks, no lock, `active` as the only
protocol; `enterServer` keeps it across a change of server. *Hard:* a field
written under a pass; a moment of a clock that is gone. *Correct when:* an
undisturbed pass shows one message at the column the shared clock calls for, the
panel goes dark, and no schedule outlives its server for good.

**5. Shared clock.** `clockOffset`, `clockSynced`; `syncClock` takes the best of
three Cristian samples from `/time`. *Hard:* unsigned differences, asymmetric
delays, an offset that outlives its server, samples on both sides of a restart.
*Correct when:* the error is at most half the round trip, and everybody ends up
with the clock of the server in office.

**6. Wall-clock anchor.** `toEpoch` and the re-anchoring rule of
`handleSetBrowserTime`: unsigned times before and after the anchor, over weeks.
With it in `Millis`: the deadlines `promoteAt` and `serverReadyAt`, which the
code compares as absolute values.

**7. Pi queue and sequencer.** *State:* three parallel lists, `cur_index`,
`MAX_PLAYS`, `DEFAULT_PLAYS`, guarded by `state_lock`. *Hard:* the cursor under
overflow and deletion, changing limits, threads. *Correct when:* plays are
counted for the right message and nobody loses a turn.

**8. Pi registry and broadcast.** *State:* `registered_clients`, the worker
pool, `global_seq`. *Interaction:* HTTP to every active client, from the
sequencer and from `/clear` at once. *Hard:* timeouts, requests served after the
server gave them up, picks made before a `/clear`, a restart that begins a new
clock and a new `global_seq` under clients that stay. *Correct when:* panels agree,
only a request the server gave up on can cut a message short, dead clients stop
nobody.

**9. Pi settings, fragments, log stream.** SQLite key/value settings, a fragment
table, bounded queues per log subscriber. *Hard:* memory and database are
written in two steps; restarts. *Correct when:* what a restart brings back is
what was in force.

**10. Admin page.** Polls lists and sends list positions, which may be stale.

**11, 12.** Pixel drawing, CSV parsing, installers: sequential, no shared state
of their own.

The list `hazards` of `PROJECT.json` names, line by line, what in this code a
test would hardly reach, with the properties aimed at it.

## 2. Modules

| Module | Abstracts | One action is |
|--------|-----------|---------------|
| `Leadership` | what the election promises about who serves | a claim, a resignation, a loss of power, a tick |
| `Failover` | `WIFI_Loop` on every node, the radio, power | a branch of a tick handler; a scan is two |
| `FirmwareSequencer` | `serverSequencerLoop` against the handlers | one shared access of `loop()`, or one whole handler |
| `FirmwareBroadcast` | sequencer, broadcast tasks, panels | the start of a message, or a step of one request |
| `Session` | one client, its two tasks, one server of either kind | sending, serving or receiving one request |
| `DisplaySchedule` | `setSchedule` / `handlePlay` against `renderScheduled` | one access to `currentSchedule`, or one drawing |
| `SharedClock` | uint32 time, `syncClock`'s estimate | (operators only) |
| `Takeover` | clocks, offsets and schedules across changes of server | a sample, a publication, a delivery, a change of role |
| `Millis` | deadlines and the wall-clock anchor over the wrap | a handler, a branch of a tick handler, a tick |
| `PiQueue` | queue, pick and settings of `server.py` | one section under `state_lock`, or one database write |
| `PiBroadcast` | pool, timeouts, clients, sleep of `server.py` | a step of one request or thread, or a tick |
| `PiServer` | `server.py` as one process | a step of `PiQueue`, of `PiBroadcast`, or of both where they meet |

A module's theorems stand in its companion `...Proofs`, which extends it. Those on
`SharedClock` are in `TakeoverProofs`, the refinement of `Leadership` in
`FailoverProofs`, and those on the three modules of `server.py` in `PiProofs`.
`Takeover` and `Millis` are built on `SharedClock`; `Failover` instantiates
`Leadership` with a refinement mapping; `PiServer` extends `PiQueue` and
`PiBroadcast`. Elsewhere the modules meet at these seams: who serves and when is
`Failover`'s, what it means for the clocks `Takeover`'s; the registry is `Session`'s,
and the broadcasts take any outcome of it; on the controller, which message is next
is `FirmwareSequencer`'s, and `FirmwareBroadcast` takes any.

Each `MC` module instantiates its specification for TLC.

### Failover

`node[n]` is a record of the failover variables of node `n`. A node is its
BSSID, so `memcmp` is `<`. `millis() - since` is an age that saturates at
`MaxAge`, beyond every threshold; `promoteAt` is a countdown. `scanForServerNetwork`
blocks, so it is split: `StartScan` fixes what the radio heard, the action named
for the branch acts on it up to `ScanLag` ticks later. The access points on the
air are the nodes in role `SERVER`, because `softAP` and `softAPdisconnect` go
with the role. A scan may miss beacons (`missed`), power may fail, links may blip
(`faults`). Two variables are history. `orphaned`: servers about to step down for one
whose power was lost meanwhile. `unheard`: pairs of a node and a server that the
node's last scan, or a scan of its present reign, missed. Properties that a missed
scan can break are stated pair by pair: what one pair missed excuses no other. The role banner blocks `loop()` (`busy`). Of a `CLIENT`
nothing timely is assumed, since its `loop()` waits in HTTP calls. The HTTP part
of `tickClient` is `Session`. It leads to `CANDIDATE` only when three heartbeats in a
row fall between a lost link and the event that announces the new address, as a
failed heartbeat is not counted; `ClientGivesUp` is that outcome, paid for as a fault.

### Leadership

The abstract specification has four variables: who has power, how long each
server has served, whether every scan so far was complete (`sure`), and which
servers may leave nobody behind (`excused`). Its rules are the guards of `Claim`,
`StepDown` and `Tick`: no claim against an established server, no resignation of
the last server, no old higher server beside a lower one. `Failover` states
`Leads == Lead!Spec`, with `reign` mapped to `roleAge` of the nodes in role `SERVER`,
`sure` to "no scan missed", `excused` to `orphaned`. All scans, timers, backoffs and
other roles map to stutters.

### FirmwareSequencer

`pc` is the place of `loop()` in a pass; handlers are atomic because `webServerTask`
runs them one by one and each is short beside a pass. (A handler shifts the lists entry
by entry without a lock; what `loop()` reads of a `String` in the middle of its
assignment is undefined, so that no finer step would mean anything.) A reign begins
with an empty queue, and with the cursor, the ceiling and the schedule that the node
has from before: `enterServer` resets none of them, and `config.csv` may set the ceiling
to any number, 0 included, which `/setMaxPlays` clamps and the boot does not.
`under` is history: a handler of this very pass has shrunk the queue to what ends a
search or a modulo badly. `races` counts handler calls
that changed the queue inside a pass. Properties that hold are stated relative to it:
they say exactly what the race can and cannot break. A deletion takes the positions
as they are sent, absent, repeated or negative (`atoi`), from the highest to the
lowest; `Deletions` is the queue after each. The same text sent twice is two
messages. `RenderDone` stands for `renderScheduled` finishing at any later time.
`/setDefaultPlays` is left out: the firmware stores the preset and nothing but
`/getConfig` reads it.

### Session

`entry` is the server's `registeredClients` entry as time since `lastSeen`, or
`Absent`. Entries are found by address, so clients do not interact and one stands for
all. `loop` and `task` are the requests `loop()` and the event task wait in. The
answer of a request is determined when the web task serves it, or when it is lost (a
fault) or nobody can serve it. `events` is the queue of the event task, fed by the
link. `syncClock` changes nothing here.

The server is a controller or the Pi (`pi`, chosen at the start). The Pi's entry
has a second state: `active`, dropped at the heartbeat timeout; the entry itself is
forgotten after `PurgeAfter`, in a later round of the cleanup thread (`Forgotten`), and a
heartbeat meanwhile revives it; a controller removes it at once (`Stale`). `state_lock` makes each of its requests one
action. `Restart` loses the registry of the Pi and keeps the link of the client,
as `hostapd` is another process.

### DisplaySchedule

A field of `sched` holds the message its value came from, so a mixture is
visible. The writer goes through the assignments of `setSchedule` in their
order, the reader through the reads of `renderScheduled` in theirs. A pass is
short beside a scroll step, so the clock does not tick inside one. `touched`,
`settled`, `strayed` are history variables that say whether a pass ran undisturbed,
whether the panel is the work of such a pass, and whether a `/clear` fell inside
one.

### SharedClock and Takeover

`SharedClock` is the arithmetic: `Wrap` for uint32_t, `Signed` for the `(int32_t)`
casts, `Age` for `millis() - since`, `Estimate` for one sample of `syncClock`. `M`
stands for 2^32.

`Takeover` gives each node a `millis()` of its own. They tick together, so only the
differences matter: `clock[n]` is fixed when `n` boots, and a tick moves every
`displayAt` one closer instead of every clock one on. A node keeps what the code
keeps: `clockOffset`, `clockSynced`, `currentSchedule`, `globalSeq`, the grace
period, the banner, and `sync`, the samples, best round trip and best offset of
a `syncClock` under way. `Promote` is `enterServer`: offset and queue reset, schedule
and sequence number kept. `Start` is `server.py`: fresh clock, fresh numbers, the
clients stay. A sample is one action: an exchange of at most `MaxTrip` before now,
answered at any point of it. `ours` marks, as history, what stems from the server in
office. A tick is long against an exchange, so a reply that is under way while the server
restarts has the effect of one that arrives just before the restart: it is kept and no
longer `ours`. At most one node serves: split brains are `Failover`'s. Two syncs of one
client at once, `loop()`'s and the event task's, are merged to one.

### FirmwareBroadcast

`jobs` are the requests under way, each with the rest of the walk its
`broadcastTask` has still to do. A request is served and answered, served
without an answer, fails at once or at the timeout, or is given up and served late
(without `task`). `planned` is the message between `broadcastPlay` and `setSchedule` in
`loop()`, where a `/clear` may fall. In contrast to `PiBroadcast` nothing waits
for a walk to end, and the only brake is the server's own panel.

### Millis

`up` is true time since power-on, which the program does not have; `Wrap(up)` is
`millis()`. `at` is the deadline a candidate or server compares with. `SetBrowserTime`
takes any time within `Skew` of the truth.

### PiQueue

The lists are sequences; positions are Python's, from 0. Flask runs each request
in a thread, but a section under `state_lock` is one action. Only `/setMaxPlays`
and `/setDefaultPlays` do something after the lock: `SetConfig` then
`StoreConfig`. `played` and `overlap` are history. Messages are told apart as sent,
not by text. A deletion pops the positions of the request one by one, from the last
to the first, as a recursive function (`Pops`), so that the module can be proved about.
The names every module has (`Init`, `Next`, `TypeOK`, ...) carry a `Queue` here, so that
`PiServer` can extend both halves of the server.

### PiBroadcast

`requests` are the requests of all rounds with their phase: queued in the pool,
sent, handled by the client with no answer yet, given up but perhaps still to
be handled (`stray`). Nothing bounds when a client handles what it has accepted:
`requests.get` only stops waiting, so a stray stays until it is handled, in this round
or in any later one. One that nobody will ever handle is not kept. Start and end of a
play are countdowns carried with it, as every party computes them from one `display_at`.
The queue is one bit, which requests set and reset (`Enqueue`, `Dequeue`), since
`PiQueue` has the rest. Clients are the firmware's
`handlePlay` and `handleClearStrings`, whole (`DisplaySchedule` splits them).

### PiServer

The two halves meet under `state_lock`, in three places. A request that changes the
lists or the limits may change whether there is something to play (`Edit`, with
`QueuedFollows` tying the bit of `PiBroadcast` to the lists of `PiQueue`). The
sequencer takes a message and numbers its play in one section (`PickNext`). `/clear`
empties the lists and then fans out (`ClearAll`). Every other step belongs to one
half. The database write of a setting comes after the lock and interleaves with
everything.

No run has this module: an instance of it is a product of the two below it. What
it is for is proved in `PiProofs`: it implements both halves, so that what `pi_queue`
and `pi_broadcast` check of each is true of the process, and the bit is exact. A
restart of the process is left out here. `PiQueue` has it for what the database
restores, `Session` for the registry, `Takeover` for the clock.

## 3. Runs

Every configuration finishes within three minutes on two workers.

| Run | Checks | Shows |
|-----|--------|-------|
| `failover_pair` | `IInv`, `SplitBrainBounded`, `DeferredToLower`, `EstablishedNotContested`, `AbdicationKeepsService`, `Leads`, `Settles` | a split brain ends after one scan interval (or banner) and one scan, unless one of the two missed the other; nobody promotes against an established server it heard; resignations leave a server; all of it as `Leadership` allows; after the last fault the nodes settle, on one server unless two missed each other for a whole abdication window |
| `sequencer` | `TypeOK`, `Compact`, `CountsHonest`, `EveryMessageShown`, `PassEnds` | a race costs one count; without one nothing is lost and no message starves; a pass ends unless a handler shrinks the queue under that very pass |
| `broadcast` | `TypeOK`, `SameUnlessCleared`, `TasksBounded`, `CutOnlyByLatePlay` | panels agree unless a `/clear` intervenes; the number of tasks is bounded by what dead targets cost; a message is cut short only by a `/play` that is older than its own end, or by a clear |
| `schedule` | `TypeOK`, `UntouchedPassHonest`, `SkipIsSafe`, `PanelGoesDark` | what clearing `active` first and setting it last does guarantee |
| `takeover` | `TypeOK`, `InStep`, `OwnInReach`, `NotCutShort`, `SettlesInStep` | clients synchronised with the server in office read its time; its messages are not cut short; nothing of a former reign stays for good |
| `session` | `TypeOK`, `Recovered`, `StaleEntriesGo`, `NoLiveClientRemoved` | registration heals within max(heartbeat, backoff) + 2 requests, with either kind of server |
| `millis` | `EpochTracks`, `AnchorHeals` | reported times are right near the anchor, before it and across wraps; every visit of a browser repairs the estimate |
| `pi_queue` | `QueueTypeOK`, `CountsExact`, `TurnsKept`, `StoredUnlessOverlap`, `EveryMessagePlayed` | exact counts, no waiting message put back or starved, settings stored |
| `pi_broadcast` | `TypeOK`, `SameMessage`, `OverwrittenOnlyByStray`, `RoundEnds` | panels agree, however late a stray is handled; only a stray can cut a message short, and the panel goes dark then; dead clients delay rounds and clears, never stop them |

Every property of a passing run has a mutant, a plausible bug in one definition
that violates it under the same configuration; mutants stand next to the
definition they change. Where three nodes matter (chains of resignations) the
theorems on `Failover` go further than any run: they hold for every number of nodes.

### Findings

Each of these runs has one property that a comment or document states, and TLC
finds a behaviour of the code that contradicts it.

| Run | The code does | The text says |
|-----|---------------|---------------|
| `session_deaf` | a registered client's first failed heartbeat drops its id and is not counted; the registrations that fail from then on are not counted either | `failover-design.md:72` "heartbeat fails >= N: CANDIDATE" |
| `takeover_dark` | a client is promoted with a schedule of the former server's clock; the sequencer plans nothing until its own clock gets there, which may take as long as the former server had been up | `failover-design.md:25` a promoted server with a fresh clock domain "is handled by existing logic" |
| `millis_grace` | when `millis()` wraps, a server is in its grace period again | `http_controller.ino:184` hold off "until clients have had time to reconnect after promotion" |

Properties that hold carry the condition under which they do, and the condition
names a weakness of its own:

- `unheard` in `Failover`, a scan that missed a server: a candidate promotes beside it,
  or at the same time, and if each abdication scan of the higher one misses the lower
  until `ABDICATION_WINDOW` is over, `tickServer` never scans again (`ws_wifi.cpp:883`).
  Two servers then stay until one loses power. With the code's constants that takes nine or
  ten missed scans. `Settles` allows exactly this outcome and no other.
- `races` in `FirmwareSequencer`, a handler inside a pass: a deletion between
  publishing and counting charges another message (`http_controller.ino:27` "no
  string ever plays more than this" is then off by one).
- `under` in `FirmwareSequencer`, a handler that shrinks the queue inside a pass: down
  to `startIndex`, and the `do-while` never gets back to it; to nothing, and
  `% sentCount` divides by zero. `PassEnds` says that nothing else does it: no earlier
  call, no overflow and no reset.
- `touched` and `strayed` in `DisplaySchedule`, a write inside a pass: a frame
  may mix two messages although `active` is cleared first (`ws_flow.cpp:34`), and a
  column drawn after `/clear` stays lit (`ws_wifi.cpp:474`).
- `dropped` in `FirmwareBroadcast`, and the message picked before a `/clear` in
  `PiBroadcast`: it is pushed after it (`server.py:395`).
- `stray` requests in `PiBroadcast`: a client that handles a `/play` after the server
  gave up on it, while a later message scrolls, takes it for a new one
  (`ws_wifi.cpp:523`), finds that it is over and goes dark. `server.py:632` "clients are
  never overwritten mid-scroll" is true of the requests the server waits for.
- `overlap` in `PiQueue`: two requests for one setting may be stored in the other
  order.
- `ours` in `Takeover`: a client whose sync with a new server has failed shows
  messages at the wrong time until a heartbeat has synchronised it.

### Bounds

- **Failover.** Time is scaled: in `failover_pair` a tick is about 2 s, and the
  order of all thresholds of the code is kept (cold before warm grace, scan
  before server scan before window, blip before grace). Neighbouring `Slot`s make
  simultaneous and nearly simultaneous promotions possible. Two faults suffice for
  losing a server and its successor. Two abdication scans fall into a window: two misses
  make a simultaneous promotion a permanent split brain, a third, of the guard, a promotion
  beside a server that is up. Four missed scans have both cases and one to spare.
  `FailoverProofs` removes these bounds, and that to two nodes, from the safety
  properties and the refinement.
- **FirmwareSequencer.** Two slots and three messages reach overflow; two other
  calls reach each pair of handlers in one pass. `DeleteRequests` has one index,
  several, a repeated, an absent and a negative one. `Configured` has a ceiling that allows
  no play at all.
- **Session.** A tick is about 8 s: heartbeat 4, timeout 12, cleanup 4, backoff 1 to
  4, the Pi's purge 16 (in the code it is 45 times the timeout; the order is what
  counts). Three faults cover an answer lost while a restart is under way and a blip
  follows. `RecoveryTime` is tight: one request less is refuted. It counts from the
  moment the link stands and the event task has caught up (`quiet`), and the
  assumption that it is within the heartbeat timeout holds in the code (backoff 32 s
  and two requests of 5 s against 90 s).
- **DisplaySchedule.** Two messages of different width back to back, a lead of two steps, the clock
  running past both by the largest lateness that matters, two panel calls. A tick
  is a scroll step.
- **FirmwareBroadcast.** Two clients, so that one waits behind the other; three
  plays of two lengths, so that a late request meets the next message and the one
  after it; a timeout as long as the lead, as 2 s to connect and 2 s to read are
  against a lead of 2 s. Clients are symmetric, and no liveness is checked here.
- **Takeover.** Two nodes, one of which may be a Pi: with more, one server and one
  client at a time differ in nothing the properties relate. Clocks differ by 0,
  2 or 4 of 6, so that a schedule of the former server lies ahead, behind, and on
  the far side of the signed range. Two samples: one may fail, or be the worse,
  or come from the former reign. One fault suffices for each kind of change; the
  theorems on `SharedClock` cover every `M`, start and trip.
- **Millis.** An uptime of more than a turn of the clock, so that anchor, wrap, and
  the far half of the signed range are reached in any order.
- **PiQueue.** Depth 2 with three messages (overflow with the cursor at either
  end), two limits, two other calls, two request threads.
- **PiBroadcast.** Two clients, two plays, one clear; timeout and lead of the
  same order as in the code; two workers for up to four requests, so that some
  wait for a worker. A `Timeout` of 2 is connecting, then reading. The second play
  meets strays of the first, handled at any time.

Only `broadcast` uses symmetry: it checks no liveness. `CHECK_DEADLOCK FALSE` appears
where the model really stops: messages, calls, plays and the clock are bounded, and
a node may have crashed. The failover, session and takeover runs check deadlock,
and so does `millis`, where a server can always yield.

### Fairness

`Failover` assumes that time passes, `loop()` of a powered node runs, and the
driver notices access points that stay or are gone; nothing about power or
blips. `FirmwareSequencer`: the scheduler runs `loop()` and the grace period ends;
no handler need ever be called. `Session`: tasks run, requests end by timeout.
`DisplaySchedule`: both tasks are scheduled by FreeRTOS; the clock gets *strong*
fairness because it stands still inside a pass, and passes never stop coming.
`PiQueue`: the sequencer keeps polling and a begun request ends. `PiBroadcast`:
`requests.get` has a timeout and threads run; no user need send anything.
`Takeover`: loops run, requests end, the election promotes and joins. Clients may ask
for the time any number of times within a tick, so that time itself gets strong
fairness; so does a sample, as a server that is up answers one of many requests.
Nothing is assumed of power, restarts and blips.

## 4. Proofs

The theorems hold for every value of the constants that meets the assumptions of
the module, for any number of nodes, clients, messages and faults. Those that state
a property of a run are listed here; each rests on an inductive invariant `IInv`
(`AnchorInv` for the anchor, `QueueInv` for the Pi's queue) that TLC confirmed on the
run's configuration before it was proved.

| Module | Theorems | State |
|--------|----------|-------|
| `FailoverProofs` | `Inductive`, `Deferred`, `ServiceKept`, `SplitBrain`, `NoReclaim`, `Implements` | `IInv`, `DeferredToLower`, `AbdicationKeepsService`, `SplitBrainBounded`, `EstablishedNotContested`, `Leads` |
| `TakeoverProofs` | `ClientsInStep`, `OwnScheduleInReach`, `MessagesCross` (and `AgeIsElapsed`, `SyncError`) | `InStep`, `OwnInReach`, `NotCutShort` |
| `SessionProofs` | `ClientsRecover`, `StaleGone`, `LiveClientsStay` (and `ConnectedSettles`) | `Recovered`, `StaleEntriesGo`, `NoLiveClientRemoved` |
| `PiProofs`, queue | `QueueTypeCorrect`, `CountsStayExact`, `TurnsAreKept`, `SettingsStored` | `QueueTypeOK`, `CountsExact`, `TurnsKept`, `StoredUnlessOverlap` |
| `PiProofs`, fan-out | `PanelsAgree`, `OnlyStraysOverwrite` | `SameMessage`, `OverwrittenOnlyByStray` |
| `PiProofs`, process | `QueueImplemented`, `BroadcastImplemented`, `PassFindsMessage` | `QueueSpec`, `Spec` of `PiBroadcast`, `QueuedHonest` |
| `FirmwareBroadcastProofs` | `PanelsAgree`, `CutsExplained`, `TasksStayBounded` | `SameUnlessCleared`, `CutOnlyByLatePlay`, `TasksBounded` |
| `DisplayScheduleProofs` | `HonestPass`, `SkipSafe` | `UntouchedPassHonest`, `SkipIsSafe` |
| `FirmwareSequencerProofs` | `StaysCompact`, `CountsStayHonest` | `Compact`, `CountsHonest` |
| `MillisProofs` | `EpochsTrack`, `AnchorsHeal` (and `GraceEnds`) | `EpochTracks`, `AnchorHeals` |

All but `MillisProofs` also prove `TypeCorrect`, the type invariant.

### Failover

`FailoverProofs` proves, for every set of nodes, every value of the timers that
meets `NodeAssumption`, `TimingAssumption` and `ScanAssumption`, and every number
of faults:

| Theorem | Statement |
|---------|-----------|
| `TypeCorrect` | `Spec => []TypeOK` |
| `Deferred` | `Spec => []DeferredToLower` |
| `ServiceKept` | `Spec => AbdicationKeepsService` |
| `Inductive` | `Spec => []IInv` |
| `SplitBrain` | `Spec => []SplitBrainBounded` |
| `NoReclaim` | `Spec => EstablishedNotContested` |

The assumptions: BSSIDs are naturals; the ages saturate beyond the thresholds
they are compared with; a scan is shorter than the scan interval, and the
interval and the banner shorter than the abdication window. The code's
constants meet all of them (6 s against 60 s; a scan takes about 2 s).

**Split brain.** `SplitBrainBounded` is not inductive: that two servers of any
age coexist is excluded only by what the higher has been doing since its
promotion. `IInv` adds it. `BannerFits` bounds how long the banner keeps it from
scanning. `YoungNotScanned` says that a server younger than the interval has a
scan timer equal to its age. `GuardIsFresh` says that during a guard scan that
heard nothing, every server on the air came up since the scan began or was missed by
it, so a promotion meets young or unheard servers only. `HigherWillLeave` then follows
through each step: of two servers the higher either still awaits its first scan, no later
than `FirstScan`, or that scan has heard the lower one and is pending, or one has
missed the other. `NoReclaim` is `GuardIsFresh` at the step of promotion. `UnheardMissed`
ties `unheard` to the count of missed scans, which `Leadership` knows.

**Service.** `DeferredToLower` is inductive given types because of how `orphaned`
propagates: when the server somebody counts on leaves for a lower one, that lower
one serves the former too; when it loses power, those counting on it, and those
counting on them, become orphaned. The least server of those on the air is never
leaving unless orphaned, so the abdication of any other leaves it.

The proofs are laid out with one lemma per class of step (`...Type`, `...Effect`,
`...Split`): an effect lemma says once what an action does to the set of servers,
and the invariant lemmas cite it.

**Refinement.** `Implements` is `Spec => Leads`. It cites `Inductive`, `Deferred` and
`SplitBrain` for the guards of the abstract actions: `GuardIsFresh` makes a promotion
a `Claim`, `DeferredToLower` makes an abdication a `StepDown`, the split-brain bound is
the condition of `Tick`, and every other step leaves the mapped variables alone.

### The clock and changes of server

For every even `M`, `AgeIsElapsed` says that `millis() - since` is the elapsed time,
across the wrap, as long as it is less than one turn; this justifies the saturating
ages of `Failover` and `Session`. `SyncError` says that an offset estimated from one
exchange errs by exactly how far the answer was off the middle of the exchange, at
most half the round trip, wherever the two clocks stand. Both rest on `Quotient` (a
number is a multiple of `M` plus its `Wrap`) and `Remainder` (in one way only).

`InStep` speaks of clients that have synchronised and is not inductive: an offset
goes into use only when the last sample is in, and its server may be gone by then.
`OffsetsNear` extends it to the best sample so far and to nodes in every role;
`OneServer` adds that a server reads its own clock and has no exchange under way,
`OwnPlanned` that what it planned itself lies within lead and length of now, and that
grace and banner were over. A change of reign clears every `ours` (`NewReign`), so all of it
has to be re-established only by samples (`ExchangeNear`, from the arithmetic of
`SyncError`), publications and ticks. `MessagesCross` carries the error
of the client's clock over to the schedule it reads. That a client whose offset
is off does not take a message that is still to come for one of the past needs
`Lead + MaxTrip < Half`, which `TakeoverAssumption` states (2 s and some seconds
against 24 days).

### The registration

`Recovered` bounds how long an undisturbed client can be out of the registry. It is
shown by saying, of each place the client may be in, how long it can have been there:
`InTouch` (the server has heard of it since its last heartbeat), or `Recovering`: by
heartbeat, by backoff, or with a request under way, `quiet` is bounded by the timer that
ends this phase. `Calm` says why nothing disturbs it: once link and events have settled, both
tasks agree, and whoever is answered now was heard now. That the event task cannot be
arbitrarily far behind is `LinkEvents` and `QueueShort`, an accounting of events
against faults which also bounds the event queue in `TypeOK`.

Two statements had to become exact on the way. `quiet` runs only while no link event
is waiting to be handled: the bound was otherwise met only because the run's events
are few. And the cleanup can reach a live client later than one heartbeat when the
backoff is the longer of the two, as it is in the code (32 s against 30 s):
`NoLiveClientRemoved` now says `Longer + RequestTime`.

### Panels

**Raspberry Pi.** The sequencer sleeps at least as long as anything it sent can be
shown. `RoundsApart` says so of the requests. A `/play` is of the present round, ends
no later than the sequencer wakes, and is a stray if the sequencer sleeps (`Present`);
or it is a stray whose time is over (`Outlived`), from whatever round. `PanelsInRound`
says of the panels that a message on them is of the present round. Nothing is assumed
of when a client handles a stray: what it then shows for the first time is either of
the present round, or over. `PanelsAgree` and `OnlyStraysOverwrite` follow.

**Controller.** Nobody waits there. `Covered` holds of each copy of a message, on a
panel, in a request, or planned: unless it was cleared or is over, it is of the
message planned last and no longer than the copy on the server's own panel. The
server plans the next when its own panel is dark, hence when all others are over.
`dropped` separates the messages a `/clear` cut loose.

`TasksBounded` says that at any time there is at most one task more than the sequencer
has periods in one walk over a registry of dead targets. It rests on when each task
was planned, which the state does not hold, and `Walks` recovers it from the numbers:
a play planned `k` messages ago was planned at least `k` periods ago, less what the
server's own panel still has to show, and that time together with the timeouts the
task may still run into never exceeds one walk. A step of a walk costs at most what it
takes off, a tick moves one unit from what is left to what has passed, and a plan
finds the panel dark. Tasks have distinct numbers, so all of them lie in an interval,
and the interval's length is the bound.

**One panel, field by field.** `DisplayScheduleProofs` relates two program counters.
`Fields` says which fields agree while the writer is at a given assignment, `Whole` that an
active schedule is not half written, `Untouched` what a pass knows of the fields it
has read if nobody wrote since. `LastDrawn` is what `SkipIsSafe` needs: `lastStep`
speaks of the column on the panel between passes, and the moment at which
`setSchedule` forgets it lies before the schedule opens.

### The controller's queue

`CountsHonest` bounds the difference between `playCount` and the plays by `races`. It is
not inductive, as the pass under way has still to count one play: either no
handler has rewritten the queue under it, and the message it counts is the one it
chose (`Steady`), or one has, and the counts are one better than the races allow
(`Slack`). `CountsBounded` and `PlaysBounded` bound both by the ceiling and the races,
which gives the types.

A deletion request removes up to `MAX_SENT_STRINGS` positions one after the other. The
queue after each is a recursive function (`Deletions`), and what every one of them keeps
(`Kept`: no hole, no duplicate, each count with its message) is shown by the least
position at which it would fail. `LeastNumber` derives the existence of that
position from the well-foundedness of the naturals, since the library's induction rules
take an operator the installed provers cannot instantiate. `Descending` is the sorted order as
a property, not as an algorithm, and the proofs hold for any order.

### The Raspberry Pi's queue

**Counts.** `QueueInv` has three parts. `Lists`: the three lists have one length, at
most `MAX_SENT_STRINGS`, without a duplicate, and the cursor is a position. `History`:
the count of each message in the lists is the number of its plays. `Settings`: what is
in memory and not in the database is on its way there, unless two requests overlap. A
deletion pops several positions, and what is left after each is a recursive function
(`Pops`). `Left` relates the lists before and after: they are parallel again, each
message that is left has its old count, and lists of the old length are the old lists.
It is reflexive and transitive, and holds of one pop (`PopLeft`), hence of the whole
request by the least number of pops after which it would not.

**Turns.** `TurnsKept` compares the distance from the cursor to a message before and
after a step. The distance is a remainder, and `DistanceAhead` turns it into a case split
(`Ahead`): the position minus the cursor, plus the length if it lies behind. Sending
is the hard case: an overflow shifts every position by one, the cursor too unless it
stands on the first, and the length stays.

**The process.** `QueueImplemented` and `BroadcastImplemented` map each step of
`PiServer` to a step of either half or to none. The second needs an invariant,
`Follows`: the bit says whether a message has plays left. It makes the section of the
sequencer a `Pick` of `PiBroadcast`, and a request an `Enqueue`, a `Dequeue` or no
step. `PassFindsMessage` adds that the circular scan of the sequencer finds what the
bit promises: among the positions with plays left, the one at the least distance from
the cursor is the one the scan stops at, wherever deletions and overflows have left
the cursor.

### Grace period and wall clock

`GraceEnds`: once its grace period is over, a server is silent again only if
`millis()` has wrapped around since its promotion. It bounds what `millis_grace`
finds: the wrap is the only cause. `EpochsTrack` and `AnchorsHeal` rest on
`AnchorInv`: the anchor is a moment of the past together with what a browser told
then, to its skew. `DeltaIsElapsed` reads the signed difference back within half a
turn, and `CutOff` bounds what two integer divisions lose.

The lemmas on `Wrap` and `Signed` stand in both modules that use them.

### Model-checked only

Liveness alone: `Settles`, `EveryMessageShown`, `PassEnds`, `EveryMessagePlayed`,
`RoundEnds`, `PanelGoesDark` and `SettlesInStep` need fairness and `ENABLED`, which no
installed prover handles. Every invariant and every action property of a passing run
is a theorem.

No module uses a `RECURSIVE` operator.

## 5. Not modelled

- *Memory safety of the unlocked `std::vector` and `String`s*, and of the LED driver
  under two tasks: data races whose outcome the language does not define. The models
  take single fields and single drawings as atomic, and a snapshot of the registry
  may leave out anybody (its request fails at once).
- *Admin page*: it holds no state but the list it has read last. The queues take
  deletions at any positions, outdated ones included.
- *`LogHub` and the fragment table of `server.py`*: bounded queues that drop what a
  slow reader leaves, and one SQL statement per request.
- *Pixels, text width, URL encoding, JSON, and the legacy `Text_Flow` scroller*: no
  property depends on them.
- *CSV configuration, installers, systemd units*: no state machine.
- *Epochs beyond int32_t* (2038): `MillisAssumption` excludes them.
- *`promoteAt` at the wrap* is in `Millis` but in no property: a node that
  promotes at once there does so after the same guard scan, which is all that
  `Failover`'s safety rests on, as the backoff only spreads the promotions.

## 6. What is next

1. A restart of `server.py` in `PiServer`, with a fresh `global_seq` under panels that
   still show what the former process sent.
2. An abstract queue that `PiQueue` and, without races, `FirmwareSequencer` both
   implement.
3. `Takeover` under a split brain: two servers whose clients differ.
