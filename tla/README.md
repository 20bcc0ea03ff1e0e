# VoxOne: TLA+ verification

VoxOne is the firmware of an internet radio with Bluetooth input on ESP32 and
ESP32-S3 (Arduino, FreeRTOS, C++). This directory holds TLA+ models of its
control logic, the TLC configurations that check them on small instances, and
TLAPS proofs for every value of the constants. Paths are relative to the source
tree: `core/` is `src/src/core/`, `hardware/` is `src/src/hardware/`.

The firmware is a set of tasks on two cores: the Arduino loop ("main"), the
Wi-Fi event task, the AsyncTCP task that runs the web handlers, the display
task, the DSP task and short-lived workers. They share objects with queues,
critical sections and atomics, and keep what must survive a power cut in four
stores: an EEPROM image, files on SPIFFS, NVS records and the OTA partitions.
What a test on the desk hardly reaches is therefore of two kinds: a step of
another task between two steps of this one, and a power cut or a failing store
between two steps of a save.

## 1. Inventory

State, operations and correctness of each component. "Where" is the module that
models it, or the place in the plan (section 3).

### What survives a power cut

| Component | State | Operations | What makes it correct | Where |
|---|---|---|---|---|
| Wi-Fi credential file (`core/wifi_config_atomic.h`) | active, temporary and rollback file | replace, recover, rollbackFirstBoot | credentials are never lost; a reboot uses the old or the new ones; the caller is told the truth | `WifiFiles`, `WifiConfigAtomic` |
| First boot transaction (`core/first_boot_transaction*.cpp`) | journal, hardware record, security record, Wi-Fi file, RAM copies | commit, recover at boot, synchronise RAM | all three stores or none; never an OPEN device with a partial setup; every boot ends | `FirstBootTransaction` |
| Serial console (`core/serialcli.cpp`) | none of its own | saves credentials, stores hardware | does not break a setup it cannot see | plan 3 |
| Configuration restore (`core/config_restore_*.cpp`, `config_backup*.cpp`) | marker, staged candidate, rollback snapshot, seven stores | upload, stage, ten commit steps, rollback, recover at boot | all stores or none, whatever the phase at the power cut; the client is told the truth; a later boot can finish | `ConfigRestore` |
| Configuration mutation lease (`core/configuration_mutation.h`) | holder | acquire, release | one writer of the configuration at a time | its effect in `ConfigRestore` |
| Configuration persistence (`core/config*.cpp`) | EEPROM image, RAM copy, deferred-save deadline | load, defer, commit | a deferred change is stored in the end; a bad image is not used | saves in `ConfigRestore` and `PlaylistStore`; plan 6 |
| Playlist store (`core/playlist_store.cpp`) | list, index, their temporary and rollback copies, selected position | recover, commit, rollback, rebuild index | the old or the new list after any cut; index and selection follow it; the client is told the truth | `PlaylistStore` |
| Administrator security (`core/security_settings*.cpp`) | NVS record, generation, state | begin, claim, change, open, close | an interrupted change leaves the old or the new verifier | plan 3; its part in the first boot is in `FirstBootTransaction` |
| Hardware configuration (`hardware/runtime_hardware_config*.cpp`) | NVS record, RAM copy | load, save | the copy in use is the stored one | part of `FirstBootTransaction` |
| OTA boot health (`core/ota_boot_*.cpp`, `ota_update_policy.*`) | slot states in otadata, pending image, stability window, timeout | begin, evaluate, reject, validate, upload preflight | a good image to boot at any time; an approval only after a live window; no image pending for ever | `BootHealth` |
| Factory reset (`core/factory_reset*.cpp`) | progress through all stores | ordered erase | an interrupted reset is resumed | plan 6 |

### What the user hears

| Component | State | Operations | What makes it correct | Where |
|---|---|---|---|---|
| Source manager (`core/source_manager*`, `radio_source_policy.h`) | selected source, PLAY/STOP intent, pending command | recordRadioCommand, cycle, select, observe | the user's last wish survives every change of source | `RadioState`, `RadioControl` |
| Player (`core/player.cpp`, `temporary_audio_state.h`, `radio_reconnect_policy.h`) | queue, status, announcement, reconnect | sendCommand, loop, _play, _stop | last command honoured; announcements give the player back; reconnects end; silence during an update | `RadioState`, `RadioControl`, `UpdateGate`, `PlaylistStore` |
| Connection attempt (`core/radio_connect_lifetime.h`, `audioI2S/Audio.cpp`) | one atomic state, worker, parameters, socket | begin, requestCancel, complete | no connection after a cancellation, nothing leaked, no socket touched by two tasks | `ConnectAttempt` |
| Network connection (`core/network.cpp`) | readiness, lostPlaying, beginReconnect, reassociation policy | Wi-Fi events, start-up attempts | the radio is told of every loss and recovery | events in `RadioControl`; start-up and reassociation plan 4 |
| Bluetooth firmware sender (`core/bt_firmware_sender.*`) | state, frame in progress, confirmed bytes, repetitions, early answer, image | start, tick, onLine, onIdentity, abort | what is shown as confirmed is stored; success means installed; the image outlives its use; every transfer ends | `BtSender`, `BtFirmware`; its lock in `UpdateGate` |
| Bluetooth link, volume session, audio input (`core/bt_*`) | line protocol, session gate, I2S owner | loop, commands | no command lost or doubled; one owner of I2S | the link's part of an update in `BtFirmware`; plan 5 |
| System operation state (`core/system_operation_state.h`) | operation phase, audio block, stopped flag | start, fail, release, restart | no audio during an update, and audio again after a failed one | `UpdateGate` |
| Update lock and restart (`core/update_progress.*`, `update_restart_coordinator.h`, `mqtt*`) | global update lock, stage of the restart | begin, finish, tick | one writer; the lock given back or the device restarted | `UpdateGate`; the MQTT shutdown is one wait |
| Output volume and mute (`core/mute_state.h`, `dac_mute*`) | requested and applied volume, mute | set, apply | the last volume is the one applied | plan 6 |

### The rest

Administrator sessions and the recovery access point (plan 3), the station
directory (plan 5), the web server's request backpressure (plan 5) and the DSP
service (plan 6) have state worth a model. The web server's handlers of updates,
restores and stations are in the models of what they change. Display, time
keeper, URL resolution and format detection, asset integrity, diagnostics and
user input are rendering, polling, parsing or logging; vendored libraries
(audio decoder, AsyncTCP, OneButton) are third-party code, modelled only from
how the firmware uses them. `PROJECT.json` lists every component with its files
and status.

### How they interact

- The portal calls the first boot transaction, which calls the credential file
  and the NVS stores; the boot sequence calls the recoveries in a fixed order
  before anything reads the stores.
- Controls, web, MQTT and display send commands to the player queue; the source
  manager looks at the player, resets that queue and sends commands of its own;
  the Wi-Fi event task sends commands and signals announcements.
- The player's connection runs in a worker task; any sender may cancel it.
- An update, from the web or to the Bluetooth module, takes the update lock,
  blocks the player through the system operation state, keeps the user's files in
  NVS while the file system is replaced, and restarts the device through the
  coordinator; the restarted image is judged by the boot health gate, a task of
  its own that reads what setup and loop report.
- The Bluetooth link calls the firmware sender from the main loop, hands it every
  line of the module and the module's identity, and writes its frames; the web
  server owns the staged image the sender reads from.
- The station requests run in the web task under the playlist guard; the player
  writes the selected position without it, and display and player read list and
  index at any time.

### Hazards

`PROJECT.json` lists the hazards at their lines. The ones that shaped the models:
a cut between two file operations or two stores, a rollback that is itself cut,
a failing store in the middle of a commit, a decision on a RAM copy that a failed
read left wrong, a sender that is overtaken between its enqueue and its record of
the intent, a queue that is reset with other tasks' commands in it, an
announcement that loses its network, a cancellation that meets a finishing
connection, a restore whose stores others write before, during and after it, an
update whose stop goes through a queue others use, an image that runs but must
not yet be trusted, a list whose positions others remember, and an answer on a
serial line that belongs to another frame or another transfer.

## 2. Modules

| Module | Models | State and actions |
|---|---|---|
| `WifiFiles` | `wifi_config_atomic.h` | three files with contents (a payload, empty, partial, missing); one action per SPIFFS operation; every operation may fail, leaving its effect undone or, for a write, partial |
| `WifiConfigAtomic` | `Config::init`, `Config::saveWifiCredentials` around them | boots, saves, power cuts; `SaveAtomic`, a save as an `AtomicUpdate` |
| `AtomicUpdate` | abstract | a stored value and at most one update, installed by one step or not at all; implemented by the first boot transaction, a credential save, a restore and a change of the station list |
| `FirstBootTransaction` | the transaction, its device runtime, the boot order of `main.cpp` | extends `WifiFiles` with journal, hardware and security record and the RAM copies; commit, recover, synchronise and boot, one action per store access |
| `FirstBootInvariant` | | the inductive invariant `IInv` |
| `RadioState` | `source_manager_state.h`, `temporary_audio_state.h` | the two state machines as operators on records |
| `RadioControl` | `source_manager.cpp`, `player.cpp`, the events of `network.cpp` | the tasks that reach them; a step is what one task does under one lock or one atomic call |
| `RadioInvariant` | | the inductive invariant `RadioInv`; `Room`, which it needs; and `CalmInv`, which gives the room |
| `ConfigRestore` | `config_restore_transaction.cpp`, `config_restore_adapter.cpp`, `restoreValidated`, the upload's handlers, the boot | seven components, staged and rollback files, index, marker, snapshot, the RAM record and its saving; one action per call of the backend, with failures and cuts after any prefix of it; `RestoreAtomic`, a restore as an `AtomicUpdate` |
| `BootHealth` | `ota_boot_health.cpp`, `ota_boot_runtime.cpp`, the reports of `main.cpp`, the upload | two slots, otadata, the gate and its atomics, the evidence, a clock; one action per read of the evidence, call of otadata or NVS and publication, for monitor, main loop and web task; bootloader and partitions external |
| `UpdateGate` | `system_operation_state.h`, `update_progress.h`, `update_restart_coordinator.h`, the update handlers of `netserver.cpp`, the player's and the source manager's part | phase, audio gate, lock, sessions of the uploads, player queue, snapshot of the user's files; one action per atomic access, for web, main, DSP and any other task |
| `PlaylistStore` | `playlist_store.cpp`, `station_store_state.h`, `playlist_mapping.h`, the station handlers, the selection in `config.cpp`, PR_PLAY | three copies of list and index, the selected position in RAM and flash; one action per SPIFFS operation, with failures and cuts; `ListAtomic`, a change of the list as an `AtomicUpdate` |
| `BtSender` | `bt_firmware_sender.cpp` | the sender's record and each of its operations as an operator on it |
| `BtFirmware` | `serviceBtFirmwareUpdate`, `bt_link.cpp`, `bt_link_protocol.cpp` around it | the line in both directions, one action per call of the main loop, the module (external), noise and switching off |
| `CancellableAttempt` | abstract | an attempt that may be given up, with one verdict |
| `ConnectAttempt` | `radio_connect_lifetime.h`, `connectToHost`, `connectTask` | one action per atomic access, for caller, worker and cancelling tasks |

`MC...` modules give the constants their values. Operators whose name ends in a
suffix after `_` (`WriteData_Unverified`, `Displace_NoCopy`) are seeded defects:
each stands before the definition it changes, and the run of the property it is
listed with fails when it takes that definition's place. They are not part of
any specification.

Correspondence worth knowing when reading the modules beside the code:

- **Credential files.** Payloads are opaque; `Valid` is what `valid` of the
  storage class accepts. `Effective(files)` is what a recovery would leave as
  the active file. RAM is lost at a power cut, and the file operation under way
  either happened or not.
- **First boot.** `pc` names the next call of commit, recover or setup; `result`
  is the cause that the portal is told. The administrator record is present or
  absent, since a first boot only ever creates the OPEN one.
- **Radio.** `sendCommand` is three steps (enqueue, cancel, record the intent),
  a change of source four (select, look, reset and decide, send). `mainAt`
  follows `loop()`. `chosen`, `asked`, `overtaken` and `quiet` are history
  variables: they remember what the user asked for, and the two circumstances
  in which the code gives a wish up on purpose. `sync` is a playlist commit the
  player has still to reconcile: the selected station is gone, or it is read again
  and may have become another one. Here an entry that moves keeps its station, an
  emptied list is filled before it is used, and a commit that comes while the
  station is read again is served in the same or a later round.
- **Connection attempt.** `watchdog` is the stored setting that puts the connect in a
  worker; without it the caller connects by itself. `RefuseHost` and
  `ResolutionError` are the early returns of `connectToHost`. Left out are the
  other ways to a stream: speech, files, and the request that `httpPrint` repeats on
  an open connection.
- **Restore.** `marker` is the stored phase in the order `commitStep` takes (the
  numbers of the enum differ, since `ScrollWritten` was appended to it), 0 when
  none is stored; `at` is the component that `restoreRollbackSnapshot` is at.
  `Partway` gives, for the call under way, every state of the stores that a
  prefix of it leaves; `Fault` continues with the error path from there, and
  `PowerCut` with a boot. The main loop's `save` shares the EEPROM buffer with
  the restore: when the two overlap, either record or a torn one is committed.
  `Edit` stands for every other writer: those that take the lease or the mutex
  cannot overlap a restore, and none looks at the marker. `before`, `edited`,
  `tuned`, `orphaned` and `failed` are history variables.
- **Boot health.** `stage` is how far setup has come, `monitor` where the task is
  between two of its calls. A tick is the monitor's sampling period, in which the
  main loop may run or not. `otadata` fails by refusing a call or, for
  `mark_valid`, by failing after the write; `stalledAt` is a history variable.
- **Update.** `web` is the handler AsyncTCP is in, which serves one callback at a
  time; `session[r]` is the request's `WebUpdateSession`, and `active` the request
  that owns the upload. The radio is silent or playing; the queue holds commands
  without payload. `files` are the user's files that are intact on SPIFFS; `saved`
  those in the NVS snapshot, which counts once its mark `pending` is written. A
  backup, a write-back or an erasure that fails or is cut off leaves any part of its
  work. `forgotten` is a history variable: an update went on with a snapshot without
  one of the files, or a backup took a pending snapshot for none.
- **Stations.** A list is a sequence of ids. `Effective` is the list a recovery
  without faults ends with. All rows count as equally long, so an index is told
  by its length. A stale index after a change that keeps the length would pass
  in the model; the code handles all changes alike, and those that add, delete or
  import change the length. `before`, `beforeSel`,
  `spare` and `touched` are history variables.
- **Bluetooth update.** An image is its number, its version and `Chunks` DATA
  frames. `confirmed` counts chunks for the byte count and the sequence number,
  which advance together; phases and error codes, which are only shown, are left
  out. `sent` says whether a frame has been begun, so that an abandoned one
  (`torn`) spoils what follows it on the line. The module is what the sender, its
  test and `docs/BT_FIRMWARE_SENDER.md` say of it: it stores DATA in sequence,
  compares the CRC, boots the image on trial and reports VALID only once it has
  confirmed it in that same run; after a reset it falls back and reports
  NOT_PENDING. `of` says which transfer a line is about; the sender does not see
  it (only FW_BEGIN carries it), the properties do. A status report is one line.
  Reading the staged image does not fail. `misled` is a history variable. The
  ping and the other commands are left out, and the protocol's own probe is sent
  on a quiet line.
- **Time.** Outside `BootHealth`, a retry that is due may run and a timeout may expire at any moment;
  intervals are not modelled. A full queue drops the command, as
  `xQueueSend` does after its wait.

## 3. Plan

Done so far, in this order: the first boot and its files, the radio and its
connection, the restore, boot health, the update gate, the station list, the
update of the Bluetooth module. What is left, in order of what an error would
cost:

1. `BtFirmware` in the place of `bt` in `UpdateGate`.
2. `AdminSecurity`, `AdminSessions`: the record, sessions bound to a generation,
   lockout with wrapping time, the recovery access point; the serial console as
   another writer of the first boot's stores.
3. `WifiLink`: start-up attempts, generation-checked events, reassociation.
4. Bluetooth link commands, volume session and ownership of I2S, composed with
   `RadioState`; the station directory's single background job; the web server's
   backpressure.
5. Configuration start-up, volume and mute, DSP revisions, factory reset.

Theorems planned: the safety of the radio with commands from every task, for a
weaker statement that the observations below allow; sessions never outlive their
generation.

## 4. Runs

| Run | Question | Bounds | Shows |
|---|---|---|---|
| `WifiAtomic` | is saving credentials atomic? | 2 payloads, 3 failing operations, 2 cuts | old or new credentials after any cut, `replace` reports the truth, no rename SPIFFS would refuse |
| `FirstBoot` | is the setup all-or-nothing? | 2 payloads, 2 hardware configurations, 2 failures, 3 cuts (431,906 states) | never OPEN with a partial setup or with another one than was entered, a truthful portal, the refinement of `AtomicUpdate` |
| `Radio` | is the last command honoured? | 2 stations, 2 panel commands, 2 changes of the link or the playlist, 1 Wi-Fi loss, 1 announcement, queue of 5 (3,964,362 states) | STOP, PLAY, station and exclusive Bluetooth hold whenever nothing is on its way |
| `RadioReturns` | does a wanted radio come back? | 1 station, one of each, and one failing connection, stream or station (353,005 states) | announcements end; the radio plays again |
| `ConnectAttempt` | is the attempt's protocol right? | unbounded attempts, with and without the watchdog (332 states) | who may close the connection, the refinement of `CancellableAttempt`, and both liveness properties |
| `ConfigRestore` | is a restore all-or-nothing? | 2 failing operations, 2 cuts, 1 edit or save by others, backups with and without a scroll section, optional components missing | one generation whenever no marker is stored; the answer agrees with the stores; the old generation is kept under the marker; a boot halts only with a reason; nothing stops halfway (deadlock) |
| `RestoreOverwritten` | does a restored backup stand? | 1 edit | **violated**: see below |
| `BootHealth` | is a bad image always left, and only a good one kept? | window 2, timeout 5, heartbeat 1, clock 6, 2 uploads, 1 cut, 2 failing calls | a validated image to fall back to, ready only when durably valid, approved only after a live window, decided even when the main loop never runs |
| `UpdateGate` | who may update, and what stops for it? | 2 uploads, 1 Bluetooth image, 1 player command, change of source or restart, queue of 2, both networks, 1 file of the user, 1 cut, 1 failure (441,425 states) | one writer, silence while it writes, the user's file kept, the lock given back, the audio returned |
| `UpdateRetry` | can a failed update be tried again? | 1 upload, 1 command | **violated**: see below |
| `PlaylistStore` | are list, index and selection replaced together? | 2 stations, lists up to 2, 2 failures, 1 request, 1 play command, 1 cut | the old or the new list, truthful answers, an index that follows, a selection that follows (1,186,882 states) |
| `BtFirmware` | is an image delivered or the failure told? | 2 transfers of 2 chunks, 1 repetition, 2 versions, 1 fault (a line lost or garbled, a reset, switched off), timeouts at any time (1,049,733 states) | success means the module runs that image and has confirmed it, confirmed chunks are stored, the image is not deleted under the sender, every transfer ends |

**Why the bounds are enough.** Failures: two let a commit fail and the rollback
fail as well; a third, in `WifiAtomic`, lets the clean-up of the failed rollback
fail. Cuts: three cover a cut in commit, one in the recovery after it and one in
the recovery of the recovery; each starts from states the invariant already
describes, and the proofs remove these bounds altogether. Restore: two failures
fail the commit and its rollback, two cuts fall in the commit and in the recovery
after it; a further one starts from stores of the same shapes. One edit suffices
to overlap any stage, because an edit excuses only the component it wrote. Two
generations and a third value for edits tell the three writers apart. Radio: the
queue has its real five places. Two commands are the least in which an older and a
newer one can meet in the queue, and two changes are a connection of the link
and its loss, two playlist commits, or one of each. `RadioReturns` needs one station
only, since it does not say which one plays. The safety run with two changes of the
link and a playlist commit besides (8,362,121 states up to the symmetry of the stations)
was also clean but takes too long to repeat on every change. The parts of `RadioInv` were checked
in the same way, with a queue of nine places and with the real five, before they were proved; so was
`CalmInv` with two losses of the connection and only calm notices.
Symmetry is used in safety runs only. Boot health: a window of two ticks
can be interrupted in its middle, the timeout leaves room for a window that is
started over and for one that ends too late, and the clock runs past the timeout;
two uploads overwrite both slots in turn. Update: two uploads let a second one
come while the first is served, cleaned up or waiting for the restart; one command
is enough to be past its gate when an update begins, and to fill the queue of two
together with the stop; a failure and a cut let the
update and the write-back after it fail. The safety properties also hold, in 1,672,429
states, with two files, of which one can be kept and the other torn, and two failures.
Stations: two are the least that can be moved and that a
deletion can shift; two failures fail commit and rollback; the recovery that a
request begins with makes one request and one boot meet every state an earlier
failure left. Bluetooth update: two transfers let the answers of one come in the
other; of two chunks the second can be answered for the first; one repetition is
used up and then fails; a late answer needs no fault, since a deadline may pass at
any time. The proofs about the last four modules have no bound.

**Deadlock** is checked in the radio, connection and restore runs. A restore or a
boot that stopped halfway would show as one, since cuts and edits by others are
bounded. In the first boot and credential runs it is not checked: a halted boot is a
state the firmware stops in (`main.cpp:225`), and the bounded cuts and failures stop
the rest. Nor is it in the boot health, update, station and Bluetooth runs: the
clock, the uploads and the requests are bounded, and a device nobody asks for
anything rests. `PendingIsDecided`, `UpdateEnds` and `TransferEnds` say that it
does not rest too early. The first boot and the stations have no such property: their
code is straight, without a loop or a wait, and ends by its shape.

**Fairness.** Radio (`FairSpec`): the main loop goes round, a call once
begun goes on, the Wi-Fi task finishes its event; the retry has strong fairness because the
back-off is bounded by a maximum delay, so a retry that is allowed again and again
becomes due. The user, the link, the network and the stations get none.
Connection: with the watchdog, the caller's loop and its timeout are fair, the worker is not, so
`CallerReturns` holds for a worker that hangs; `AttemptEnds` assumes a fair worker,
whose connect has a timeout of its own. Boot health: the bootloader, the begin of
the monitor, the monitor task and the clock go on; nothing is assumed of setup and
the main loop, which the monitor is there to judge. Update: the handlers of the
web task, the boot, the services of the main and the DSP loop go on; a connection
that stalls is closed by the server and a Bluetooth transfer has its deadlines, so
both end; taking a command from the queue has strong fairness, because the player
comes round again after each other thing it does; another task finishes the call
it has begun. Users, uploads and the network
get none. Bluetooth
update: the main loop takes a probe, sees that Bluetooth is off or on again and
ends a transfer that is over; a deadline passes in the end, with strong fairness,
because in each round of the loop a probe is taken before the deadline is looked
at. Nothing is assumed of the module, of the line, or of the UART taking a byte.

### What the code does otherwise than it says

- `RestoreOverwritten`: after a successful restore the record in RAM is still the
  old one, and a volume timer that ends before the user restarts the device
  saves it over the restored record.
- `UpdateRetry`: `test/web_update_hardening_native.cpp:119` says that a failed update
  permits a subsequent attempt, and `failureLeavesRetryable` there expects it. An update that fails before
  the radio has stopped leaves the audio gate closed until the player reports its
  stop; in the access point the player does not run (`main.cpp:356`), and a change
  of source may reset the queue with the stop in it (`source_manager.cpp:134`).
  The gate then stays closed, and `updateStarted` refuses every later update,
  until a reboot.

### Observed while modelling

Without a run of their own. First boot and restore:

- `docs/TODO.md:407` promises that an error or interruption lets the wizard be
  retried. After a rollback that failed, the console commands `wifi` and `hw`
  still write; they store values the journal does not name, and every later boot
  is halted (`serialcli.cpp:505`).
- `test/config_restore_transaction_native.cpp:208` expects that a later boot can
  repeat a recovery that failed. A playlist or Wi-Fi file replaced in between no
  longer matches the snapshot (`config_restore_adapter.cpp:649`), so every later
  boot is halted. `HaltsOnlyWithReason` counts this as a reason.
- A `clearMarker` that erases the marker but reports a failure makes the client
  hear `restore_failed` although the backup is in use; `AnswerTrue` allows it: it
  demands one generation, not the old one.

Connection attempt:

- `resolutionError` stops the client without asking whether the worker of an attempt
  that was given up still uses it (`Audio.cpp:626`), where `setDefaults` does ask
  (`Audio.cpp:333`). `ClosedByOwner` names this exception; it can meet only an attempt
  that was given up, whose connection would be refused anyway.

Radio. The first of these can happen with the main loop as the only sender, when
notices of the network hold up the queue; the last two need another task:

- Handling a PLAY erases the pending station of a newer PLAY (`player.cpp:344`);
  if that one is then lost with the queue, the older station comes back. So with
  PLAY 1, PLAY 2, PLAY 1 in the queue and a change of source after the second.
  `StationHonoured` leaves this case aside (`overtaken`), and so a station still
  pending after a restore that was suppressed.
- A command that finds the queue full is dropped, and its sender is not told
  (`player.cpp:76`). With a queue of one place TLC breaks each of the four safety
  properties in this way. The main loop alone never fills the queue; whether it meets a
  full one depends on how many notices gather while it is held up. Their number has
  no bound in the code: each loss of the Wi-Fi connection gives two and each URL one.
  The run `Radio` has few enough of them that its five places suffice, and says
  nothing of more; the proofs say what they need (`RoomWhenCalm`).
- A PLAY from the web task can be handled by the loop before its sender has
  cancelled and recorded it (`player.cpp:76-93`); the cancellation ends its own
  connection and no intent allows a retry.
- A change of source repeats a STOP it found pending (`source_manager.cpp:135`)
  and so can record it over a PLAY sent meanwhile. With `Operators = {web}` in the
  place of the panel, and the bounds of the run `Radio`, TLC breaks each of the four
  safety properties: they are true of the panel only.

Updates:

- `last_fail = mark_valid` in NVS is never erased. A later image that is flashed
  over USB and starts in the state UNDEFINED is then not validated by itself.
- A heartbeat stamped after the monitor read the clock makes the unsigned age
  wrap, so the evidence looks stale for one sample; the window starts over, and
  nothing else happens.
- A restart that is asked for during an update is lost when the failing update
  sets the phase again (`netserver.cpp:323`, `:342`).
- A file system that could not be mounted again leaves the phase
  FilesystemUnavailable; a new upload that fails before `updateStarted` does not
  change it, and the device answers 503 until a restart.
- When a boot cannot write the user's files back (`config.cpp:252`, which only
  logs it), or a backup fails after its mark was committed (`netserver.cpp:721-733`),
  the snapshot stays, and a later boot or failed update writes it over edits made
  since. Edits are not in the model, which asks only that the files are not lost.
- `docs/FULL_IMAGE.md:159` says that the firmware secures the Wi-Fi profiles and the
  station files in NVS before the file system is written. `backupWebUpdateData` takes
  a file that does not open for one the user does not have (`netserver.cpp:696`),
  commits the snapshot without it and lets the update overwrite it. `UserDataKept`
  leaves these updates aside (`forgotten`) and says what holds in all others; without
  that, TLC breaks it with a single failure.
- A backup that cannot read the mark of a pending snapshot erases it
  (`netserver.cpp:685-690`), although the files on SPIFFS may be torn.

Stations:

- A transient read failure of the active list while a rollback copy remains makes
  recover prefer that copy, which is older. `ListKept` names it (`spare`).
- PR_PLAY holds a position. If the list shrinks before the player takes it, the
  position is stored without the guard and without a bound (`player.cpp:341`);
  if loading the station then cannot get the guard, every request to change the
  list is refused as `invalid_playlist_state` (`netserver.cpp:2958`) until a
  reboot clamps the position.
- A cut between the replacement of the list and the write of the position leaves
  the new list with the old position, which the boot only clamps.

Bluetooth update:

- Only FW_BEGIN says which transfer it belongs to. A FW_READY that a transfer gave
  up waiting for is taken by the next one (`misled`). If the ABORT in between is
  lost, the new chunks are stored and acknowledged in the session of the earlier
  image, and only the module's CRC over the whole image refuses them.
  `ConfirmedIsStored` leaves such a transfer aside. So does `SuccessMeansInstalled`:
  if every answer such a transfer takes, up to a status of the same version, is one
  of the earlier session, it is even reported as a success. TLC shows it with one
  chunk, no repetition and three transfers, a larger instance than the run's.
- A status that was requested before a transfer and arrives in it contains the
  line FW_VERSION, which the sender takes for an answer it did not expect
  (`bt_firmware_sender.cpp:363`): the transfer fails.
- If READY or the status after it is lost, an installed and confirmed image is
  reported as `IdentityTimeout`: the status is asked for only after READY, or again
  after PENDING_VERIFY. Likewise a `VerifyTimeout` does not keep the module from
  installing what it has.
- FW_ABORTED, FW_ERR and switching Bluetooth off end a transfer without an ABORT
  frame, and a line beginning with FW_ that comes while an ABORT is being written
  starts it over.

## 5. Proofs

`tlapm` checks all of them; no constant is bounded beyond its named ASSUME.

**Credential files.** `WifiConfigAtomic_proofs` proves `Spec => [](TypeOK /\ SavesInv)` for any
credentials, failures and cuts, and from it `OldOrNew`, `SaveReport` and
`RenamesAllowed`. `CopiesInv` says that active and rollback file hold only what was
there when the last save began or what it installs, never a file cut short;
`LeftInv` that one of them is always left; `FilesInv` has, per operation, which of
the three exist. That gives `OldOrNew`, whatever fails. `SaveReport` also counts:
`SaveInv` says that up to the first failure of a save the previous credentials are
in use or can be put back, and that from the first failure on either the save goes
on to succeed or the way back is taken, which a second failure may interrupt.

`SavesAtomically` says more of a save: it implements `AtomicUpdate`. The target is set
from the call until the new file is in its place, the value is what a reboot would
use, and the only step that changes it is the rename of the temporary file; whatever
other write or rename fails and wherever the power is cut, the device never goes back
to the old credentials. That needs two things of the storage (`Trusted`): what was
stored can be read back at the next boot and when the save confirms it, and the
rollback file can be removed once the new one is confirmed. Without them it is false:
a reading that fails makes `recover` or `replace` put the rollback file back over a
good new one, so that old and new are used in turn, which `OldOrNew` allows. TLC agrees
on a small instance in both cases (2 payloads, 4 failures, 3 cuts; 85,634 states under
`Trusted`); this property is proved and no run of section 4 checks it.

**First boot.** `FirstBootTransaction_proofs` proves
`Spec => []IInv`. The properties are not inductive: `OpenOnlyWhenComplete`, for
instance, needs to know at every point of the commit which files exist, and at
every point of the rollback which are still to be removed. `IInv` says it in
parts: `JournalNamesPlan` (a stored journal is the plan in RAM up to its phase),
`Settled` (without a journal the stores are complete), `Recoverable` (with one
they can be taken back), then what each stage of commit, rollback and boot has
established, `Replacing` and `RollingBack` for the file operations within them,
and `HardwareStage` for the write that is skipped when the configuration in use
is the stored one. The proof goes by action groups: commit, undo, file steps,
boot, request. `StoresRest` adds that a step that ends or stays without a journal writes
no store, so that an OPEN device keeps the hardware and the credentials of its plan. From it follow six more safety properties, those the
run checks among them, and, as `Atomic`, that the transaction implements
`AtomicUpdate`: the only step that changes what a restart would use is the
erasure of the journal.

**Radio.** `Radio_proofs` proves `Spec => []TypeOK` of `RadioControl` as it stands,
and for any stations, any queue and any bounds, `RadioInv` and from it
`StopHonoured`, `PlayHonoured`, `StationHonoured` and `BluetoothAlone` under two
hypotheses. One is that the commands come from the main loop (`Operators \subseteq
{"main"}`): the encoder, the buttons, the remote control and the serial console are
read there. The other is `[]Room`: the main loop finds room for what it sends. Both
are needed, as the observations above show. The network task, the link, the stations
and the announcements are as free as in the model.

The second hypothesis is then discharged, for any number of commands, changes of the
link, notices and failures, from an assumption on when the notices come, which are all
that other tasks send. `RoomWhenCalm`: the main loop finds room if each notice finds three
places free; `HonouredWhenCalm` restates the four properties so. The code does not
enforce the assumption; it is the exact form in which a gathering of notices must be
ruled out. The argument is an account: `Load` counts what is in the queue and what the
main loop has still to send. In a round the loop takes one command and sends one, and a
change of source empties the queue before it sends two, so its own `Share` of the load is
one, or two between its controls and the queue (`MainLoad`). `CalmInv` adds that a notice
comes only below that.

Room makes a property of the end of a long story, nothing on its way, into one of
each step. `OthersInv` says that other tasks send notices only, so no command comes
between the parts of a call of the main loop; `MainInv` and `SentInv` what that
call has sent and has still to record. `SilenceInv`: a radio that must not run is
silent, or the command that silences it is on its way with no PLAY after it.
`PlayInv` is the same of a radio that must run. `QueueInv` and `StationInv` say that
the last PLAY in the queue is the user's last, and that a resume carries what the
source manager would resume now. `BusyInv` keeps the announcement and the radio
apart. The lemmas on `Append`, `Tail` and the emptied queue (`Added`, `Taken`) and on
notices (`Noticed`, `NoticeKeeps`) carry these through the queue; then there is one
lemma per action and conjunct.

**Connection attempt.** `Radio_proofs` also proves `AttemptInv` of `ConnectAttempt`, four
invariants, `ClosedByOwner` and the refinement of `CancellableAttempt`. `AttemptInv`
ties the atomic state to the worker's place (`Agree`), the parameters and the connection to
their owner (`Allocated`, `Owned`), and says that the caller turns away only
from an attempt that is over or given up (`Left`). `Owned` lets a given-up attempt lose
its connection early, which `ResolutionError` can do, so `ClosedByOwner` has that
exception and no other.

**Restore.** `ConfigRestore_proofs` proves `Spec => [](TypeOK /\ RestoreInv)` for any
values, generations and backups and any number of failures, cuts and edits, and from
it `AllOrNothing`, `AnswerTrue`, `PreviousKept` and `HaltsOnlyWithReason`. Failures
and cuts leave an operation half done, so the first lemmas say what any part of each
operation leaves (`ApplyPartDoes`, `RestorePartDoes`, `CleanupDoes`), and
`PartwayDoes` the same of whatever is under way: an operation that may erase the
marker changes no component. `PlaceInv` says where the marker is stored and who
waits for the end of a recovery; `GenerationInv` that without a marker, and already
when it is about to go, the components are of one generation, and of which;
`KeptInv` that the snapshot is the old generation and a rollback file never anything
else, and that commit finds each old file in its place; `BootInv` that during a boot
nobody saves, so that what its recovery has put back is still there when it compares.
Without the last one `HaltsOnlyWithReason` fails: in a running device a save between
the two makes the rollback report `recovery_pending`.

`RestoresAtomically` proves that a restore implements `AtomicUpdate` while nobody else
changes the configuration (`Alone`), with failures and cuts anywhere: the value is what
is stored, or under the marker the old generation of the snapshot; the
target is set by the marker and is the backup, completed from the snapshot where it has
no scroll section; and the value changes in one step, when the marker goes after the
verification. The removal of the marker by a rollback abandons the target. With the
record saved from RAM or a component edited meanwhile there is no such step, and the
properties above say what is left. `AloneInv` is the invariant of that case; TLC checks it and `RestoreAtomic`
with the constants of the `ConfigRestore` run (98,120 states), outside the runs of section 4.

**Boot health.** `BootHealth_proofs` proves `Spec => []IInv` for any window,
timeout, heartbeat and bounds, and from it `KnownGoodKept`, `ReadyMeansDurable`
and `ApprovedAlive`. A validated image in the other slot is no consequence of any
one check: `SlotsInv` says that what runs is what otadata selects, or a validated
image that has just installed its successor; `UploadInv` that an upload writes only
beside a validated image; `JudgedInv` that an image under judgement runs from the
selected slot with a validated one beside it; `RollbackInv` who may invalidate it;
`ReadyInv` what the atomics know; `WindowInv` ties the start of the window to the
last tick the loop was silent.

**Update gate.** `UpdateGate_proofs` proves `Spec => []IInv` for any number of
uploads, commands and cuts and any queue, and from it `OneWriter`,
`UserDataKept` and, with `QuietInv`, `SilentWhileWriting`. `HandlerInv` says whom a handler works for: an opening one for the
active request, a cleaning one for the request it retired. `LockInv` follows the
lock through its owners: whoever has blocked the audio for an upload still holds
it, and the Bluetooth sender and the restart coordinator only in theirs.
`StorageInv` says that each file is intact in the file system or in the committed
snapshot (`Kept`), that SPIFFS is only overwritten under a complete one (`Complete`), and
that the snapshot is only dropped when the file system has what it holds. All of it is
relative to `forgotten`. The lemmas `BackupKeepsFiles`, `RestoreKeepsFiles`,
`ClearKeepsFiles` and `RebootKeepsFiles` say so of every part of a backup, a
write-back, an erasure or a cut.
`QuietInv` explains the silence: `ClaimInv` that an update holds the operation phase
from its claim until its cleanup; `ReleaseInv` that the release of an earlier
update's gate, once decided, meets no update that relies on the gate; `GateInv` that
the gate is closed under a writer and the stop that was waited for is no older one.

**Station list.** `PlaylistStore_proofs` proves `Spec => []IInv` for any stations,
any length and any bounds, and from it `ListKept`; and `Spec => []RequestInv`,
from which follow `AnswersTrue`, `IndexFollows` and `SelectionFollows`. `KeptInv` says that active list
and rollback copy are only ever the list before, the list asked for, or the copy an
earlier failure left; `StageInv` what recover, commit and rollback have made sure
of at each of their stages, so that a copy goes only while the other one is a list;
`RecoverInv` that a commit made by the recovery stores what there was; `IndexInv`
that an index cut short is never installed. The lemmas on `Append`, `Without` and
`Moved` show that what the requests store is again a list without duplicates.
`RequestInv`, inductive beside `IInv`, follows one request: the old list and its
index are in place or have a copy until an operation fails (`OldListInv`); the first
failure, told from later ones by counting (`CountInv`, `FailedOnce`), is undone
(`UndoInv`, `FailureInv`); an index on its way in is the one of its list
(`BuildInv`); the old selection is in RAM or with the commit that puts it back
(`ChoiceInv`), and the position asked for is that of the same station (`FollowInv`,
from the lemmas on where `Without` and `Moved` leave a station). `UneditedInv` covers
the device whose list is still the old firmware's.

`ChangesAtomically` proves that a request implements `AtomicUpdate`: the list a
recovery ends with changes by the rename of the temporary list and by nothing else,
from the old list to the one asked for, and does not go back, through migrations,
rollbacks, rebuilt indexes and power cuts. The assumption, `Trusted`, is that both
lists can be read when a recovery begins, and that nothing fails between that rename
and the end of the commit; before it anything may. It is needed: a failure
after the rename makes `rollbackPlaylist` put the old list back, so that a cut in
between leaves the new one and the answer the old one, both of which `ListKept`
allows. TLC agrees on small instances in both cases (2 stations, 3 failures, 2
requests; 6,820,155 states with a play command and a cut under `Trusted`); no run of
section 4 checks it. `GoneInv` is what the assumption adds to the invariants.

**Bluetooth update.** `BtFirmware_proofs` proves `Spec => []IInv` for any number of
chunks, repetitions, updates and faults, and from it `ConfirmedIsStored`,
`ImageHeld` and, with `InstalledInv`, `SuccessMeansInstalled`. An acknowledgement names a chunk but no transfer, so the argument is
about the order on the line: `FreshInv` says that a new update's number is on
nothing that is on its way; `SessionInv` that behind its FW_BEGIN only its own DATA
are sent, so that once the module has taken it, it stores nothing else;
`AnswerInv` that every acknowledgement of this update is true and that behind its
FW_READY none of another one can come; `PastInv` that a sender that has taken this
FW_READY has the module to itself. `Own` says which frame may be written in which
state and that a transfer that is over holds no image. Noise only removes or
garbles (`Remains`), which keeps all of it. Each operation of the sender is first
shown to make at most one step with the line it is given (`Goes`). For success,
`InstalledInv` says that an FW_OK of this update is true: the module is about to boot
the image, runs it or has fallen back (`OnTrial`), and behind that answer no status
on the line is an older one (`Sound`), so the status that ends the transfer is that
of the new image.

**Only model-checked.** Liveness (`RadioReturns`, `AnnouncementEnds`,
`CallerReturns`, `AttemptEnds`, `PendingIsDecided`, `UpdateEnds`, `AudioReleased`,
`TransferEnds`), which the prover cannot do, and the refutations of the two runs
above. Every safety property that a passing run checks is proved, those of the radio, as
said there, for commands from the main loop and for notices that leave
the loop room in the queue.

## 6. Left out

Within the modelled components: volume, mute, display and smart start in the
player; the Bluetooth transport commands; the HTTP side of the portal and the
serial console as another writer of its stores; the
download of a backup and the encoding of its file; progress numbers, the
recovery mode and the HIL images of an update; the waits of the restart for MQTT
and open sockets; the marker that tells a wanted selection of no station from a
missing one; time outside `BootHealth`. The models hold file contents, stations
and hardware configurations as opaque values, since no property tells more apart.
In `RadioControl` and `UpdateGate` the MQTT, display and Wi-Fi tasks are one kind
of caller. In `UpdateGate` the file system can be mounted or not as a whole, and a
Bluetooth transfer succeeds or fails at some moment. Torn
otadata, in `BootHealth`, is the concern of the bootloader, which keeps two copies.

Not modelled, with the reasons in `PROJECT.json`: everything in section 3 still to
be written; and rendering, polling, parsing and logging. Most of the source tree is
neither: `src/reference/` holds copies of other firmwares that the build does not
use, and the audio decoders, the web server and the remote control library are
vendored. They make up the bulk of the lines and are modelled, if at all, from how
the firmware uses them.
