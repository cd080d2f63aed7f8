# Formal verification of radiometers_esp

TLA+ models of the radiometer firmware (`src/components`, `src/main`) and of its backend
(`src/infra/backend`), TLC configurations that check them on small instances, and theorems that
TLAPS proves for every value of the constants. Source paths below are relative to `src/`.

- [How to run](#how-to-run)
- [The system](#the-system)
- [Modules](#modules)
- [Runs](#runs), [findings](#findings), [bounds](#bounds), [fairness](#fairness)
- [Proofs](#proofs)
- [What is not modelled](#what-is-not-modelled)
- [Plan](#plan)

## How to run

    tlc -workers 2 -config UploadPipeline.cfg MCUploadPipeline
    tlapm UploadPipelineProofs.tla

`PROJECT.json` lists every run with its module and its properties, the source lines every definition
translates, one mutant per property (a plausible bug of the code under which TLC finds the property
violated), the hazards with the properties that watch them, and the theorems.

The operators marked `Fault:` in a module are those mutants; no `Next` uses them.

## The system

An ESP32 measures with three ADCs, moves a mirror, controls a heater and logs a CSV row per
measurement to an SD card (or to internal flash). Closed files are uploaded to MinIO. Measurements also
go out over MQTT. The backend ingests MQTT, and re-imports from MinIO what MQTT lost.

    HTTP, MQTT --> control_actions --> motion_controller (log_task, homing, PID)
                                          |  rows             storage mutex: SdLockGuard
                        wn90lp (meteo) ---+--> card: root/ --> to_upload/ --> uploaded/ --> purged
                        gps_module -------+                        |
                                                           UploadTask --> MinIO
    mqtt_bridge --> broker --> worker.py --> measurements <-- s3_sync.py <----+

### Inventory

| Component | State | Operations | Hard behaviour | What makes it correct | Module |
|---|---|---|---|---|---|
| Upload pipeline (`upload_pipeline.cpp`, `sd_maintenance.cpp`) | the three directories, the file under upload and its hash | queue, boot sweep, hash, PUT, archive, purge, clear | PUT without the lock, lost answers, busy mutex, restart between PUT and archive | no flushed row is lost; only stored files are archived; queued files are archived | `UploadPipeline` |
| Data logger (`data_logger.cpp`) | `log_file`, `current_log_path` | open, flush, name | one-second names, rename failures | the open log is where its path says | `UploadPipeline` |
| Storage manager (`storage_manager.cpp`) | recursive mutex, mount flag, active meteo path | lock with time-out, mount | time-outs, owner deleted | scopes exclude each other | in all file modules |
| Meteo logger (`wn90lp.cpp`) | hour bucket, active path, two schedules | hourly rotation, append, poll | boot sweep running next to it, failed rename | the active file is not swept | `UploadPipeline` |
| Logging session (`motion_controller.cpp`, `control_actions.cpp`) | `log_task`, `log_file`, `SharedState.logging`, mount flag | start, stop, log loop, rotation, self-stop | four cells, no common lock; `vTaskDelete` anywhere | one log task; none after a stop; it ends or has a file | `LoggingSession` |
| Stepper and homing (`motion_controller.cpp`) | the stepper flags of `SharedState`, position counter, DIR pin | move, home, stop, zero, measure at two places | four users of one motor, only flags between them; `vTaskDelete` in a move | the counter is the shaft; rows come from the right places; motions end | `Motor` |
| Zero calibration (`motion_controller.cpp`, `ltc2440.cpp`) | relay, running conversion, `calibrating`, offsets | ask, sample, publish | delayed conversions, two clients, dropped updates | one measures; offsets come from the load | `Calibration` |
| Heater PID, 1-Wire, masks (`motion_controller.cpp`, `sensor_hub.cpp`, `onewire_m1820.cpp`) | integral, readings, sensor mask | control, search, clamp | saturation, number of sensors changes | no wind-up; every sensor found once; regulates on what was asked | `Sensors` |
| Configuration (`config_loader.cpp`, `control_actions.cpp`) | `app_config`, NVS, `config.txt/.tmp/.bak` | save, load, roll back | restart between renames, partial success, two savers | answers are durable; files are whole; what was applied comes back | `ConfigStore`, `Settings` |
| HTTP server (`http_handlers.cpp`) | backend, transfer progress | switch, transfer, list, download, delete; every command body | mutex held for a whole download; switch during logging; cut copies | what was logged is kept; active files are protected | `StorageSwitch`, `Requests` |
| MQTT bridge (`mqtt_bridge.cpp`) | client, interface, fragment buffer | dispatch, publish, reconnect | its own parser, the route under it | agrees with HTTP, but for known bodies; reaches the broker | `Requests`, `Routes` |
| Network manager (`network_manager.cpp`) | driver modes, fallback tasks, default route | connect, fall back, apply, route switch, SNTP probe | six tasks and event handlers without a lock | reachable; the station returns; the route is alive | `Connectivity`, `Routes` |
| GNSS and RTCM (`gps_module.cpp`, `gps_unicore.cpp`) | RTCM file, receive buffer | frames, hourly rotation, leftovers, resynchronise | failed rotation, backend switch, bytes cut anywhere | every file is queued; every frame is found | `GnssLog`, `RtcmStream` |
| Error manager (`error_manager.cpp`) | entries, active bits | set, clear, publish, LED | published after the unlock | - | - |
| Shared state, utilities (`app_state.cpp`, `app_utils.cpp`) | `SharedState` under a 50 ms mutex | update, copy, move file | dropped updates | - | in its users |
| Boot (`app_main.cpp`) | - | load, mount, start tasks | order | - | in the others' `Init` and restarts |
| S3 recovery (`s3_sync.py`, `sqlalchemy.py`) | ledger, cursor, lease, counter, selections | schedule, claim, select, import, fail, ignore, finish | expired lease, overwritten objects, cancelled jobs, MQTT next to it | what the ledger calls done is in the table; every sound object is imported | `S3Sync` |
| Recovery CSV parser, ingestion worker | - | parse, fingerprint, deliver | repeated samples | the same sample has the same hash | in `S3Sync` |
| Soundings; history and filters; devices and users; front end; scripts | rows | CRUD, queries | - | - | - |

The components interact through four things: the storage mutex (all file users of the device), the
50 ms state mutex, the file system itself (a directory is a queue), and the bucket and the database
(device, MQTT worker and import meet there only).

## Modules

| Module | What it is |
|---|---|
| `RowCustody` | abstract specification: a flushed row is on the card or in the cloud; it leaves the card only after it reached the cloud |
| `UploadPipeline` | the files from the first row to the purge on one backend; refines `RowCustody` |
| `StorageSwitch` | two backends: switch, queue transfer, lists, deletes, next to logging and the uploader |
| `LoggingSession` | start, stop and the log task |
| `GnssLog` | the hourly RTCM3 log and its queue |
| `Motor` | one stepper motor and its four users |
| `Calibration` | zero calibration next to `AdcTask` |
| `Sensors`, `SensorMask` | 1-Wire search, temperatures, choice of the regulating sensors, PID: operators |
| `RtcmStream` | the receive buffer and the frames found in it |
| `ConfigStore` | how a save replaces `config.txt` and NVS |
| `Requests`, `Settings` | every command body read by HTTP and by MQTT; `config.txt` written and read back; a device that goes through both |
| `Connectivity` | station, access point, cable and fallback tasks |
| `Routes` | the default route and its four writers |
| `S3Sync` | the recovery import of one device |
| `MC*` | instances for TLC (symmetry, contents of objects) |
| `MCLogs`, `MCSensing`, `MCConfiguration`, `MCNetwork` | sums, see below |
| `*Proofs` | theorems and their proofs |
| `NaturalSets` | induction over the natural numbers, as two lemmas about sets of them |

A *sum* checks several modules that share no state in one run: a variable (`log`, `part`) chosen in
`Init` tells which of them the behaviour runs, and the others rest where none of their actions is enabled. It
explores the union of their state spaces, not the product, and the fairness of each part stays its own. The properties of
the parts are repeated in the sum under the same name, or under the name of the question the run asks.

### UploadPipeline

State: `names[d]` and `rows[d][n]` are the directories of the active backend and the rows flushed to each
file; `bucket` is MinIO; `lock` is `s_sd_mutex`; `logFile`, `logPath` and `meteoPath` are `log_file`,
`current_log_path` and `s_active_meteo_log_path`; `up`, `upFile`, `upHash` are the locals of `UploadTask`;
`at` and `job` are where a caller (HTTP server, MQTT task, log task) is. `written` and `used` are history.

Atomicity follows the lock. A whole `SdLockGuard` scope is one action when nothing another task or a
restart could see happens in its middle. `QueueCurrentLogForUpload` is split into `QueueTake` (lock, close),
`QueueMove` (rename) and `QueueSweep` (the sweep of the root, unlock), and `AppendMeteoLog` into
`MeteoRotate` and `MeteoWrite`, because a restart can fall in between. What runs without the lock
(`Hash`, `PutAcked`, `StopClose`) is always an action of its own. The recursive mutex times out, so every
waiting step has an alternative that gives up.

`StartLogging`, `StopLogging`, `Rotate` and `Download` are the entry points of callers. `OpenLog` is
`OpenLogFileWithPostfix`, `WriteRow` a row of the log task, `BootSweep` the sweep two minutes after boot,
`Pick ... Archive` is `UploadPendingOnce`, `Cleanup` the purge and `ClearBatch` the operator's clear task.
`rename` refuses an existing destination, as FatFs does. MinIO stores a body only when its digest is the
signed one (`Stored`).

### StorageSwitch

A file is a place `[b, d, n]` with contents `c`: whole, `part` (cut off) or `growing` (a copy being written). httpd runs
one handler at a time; `http` is where it is and what it has read: the switch between its look at `logging` and the
assignment (`CheckStopped`, `StorageApply`), the transfer of the queue file by file (`CopyStarts`,
`CopyFileThenRemove`), a delete with the state copy it made before its body arrived (`FsDeleteAsk`, `FsDelete`). Logging is
started and stopped by the other client, MQTT. A copy fails, is cut off by a power loss, or succeeds; a cut-off copy keeps
its final name, as in the code. `UploadTask` keeps the path it built before the PUT. One budget, `MaxFault`, bounds the
failed renames, failed copies and power losses of a behaviour.

The two lists are operators. `FlashList` has what the handler puts next to the files of a root (partitions, and `config.txt` when NVS
has one: `config`), and its answer without the files when the mutex timed out or the file system or the directory did not open (`read`).

### LoggingSession and GnssLog

`LoggingSession`: `handle` (`log_task`), `live` (tasks that exist), `logFile`, `logging`, `mounted`, `lock`. `pc` holds
where each caller and log task is, at the granularity at which another task can see a difference. The check
`log_task == nullptr` and the creation are two actions. `DeleteTask` removes a log task wherever it is,
also inside a guard scope. A log task that gives up runs `StopLogging` itself and deletes itself in
`vTaskDelete(log_task)`, before `log_task = nullptr`, so the handle keeps naming it.
Undefined behaviour (a row through a null `FILE*`, a deleted handle) sets `fault` and ends the behaviour.
`mounted` assumes the SD backend; `UpdateState` may drop its update (`OpenDone` and `StopFlags`).

`GnssLog`: `gpath` is `s_gnss_log_path`, `due` says that its hour is over. `WriteFirst`, `Write` and `WriteDue` are a record
without a file, one with a file, and one whose hour ended while it was collected; `Rotate` and `RotateFails` the rotation at
the top of the loop. The files of the other backend stay in the state, because the path may still name one after a switch.

### Motor

`sh` holds the stepper fields of `SharedState`, `dir` the DIR pin, `shaft` where the shaft really is. One iteration of a blocking driver
is one action (`Seek`, `OffsetStep`, `LogStep`). `StepperTask` is three, `Snapshot`, `StepPulse` and `StepCount`, because a
command between its snapshot of the flags, its pulse and its count makes a difference. `Released` is the end of a homing, which clears
flags another user may have set. `DeleteTask` of the session is `StopLog`, which sets `killed` when it hits a move.
Updates of the shared state always succeed here; dropped ones are in `Calibration`.

### Calibration, Sensors, RtcmStream

An LTC2440 returns the conversion the previous read started, so the first reading after the relay moved is old; `Ignored` samples
are dropped for that. `conv[a]` is what the conversion to be read from ADC `a` saw. A read that times out or whose bus fails clocks
nothing out and leaves it there; a bad frame is read again, on the next conversion. `Readings` are the outcomes of one
`ReadAllAdc`: which ADCs clocked out, which read well and which of them with the first frame. An error of ADC1 reads as zero, one of a later ADC ends
the reading before the next. `offsets[a]` counts the conversions of the sky in an offset, and `heard` and `unheard` tell which
ADCs gave something out while samples were ignored. `broken` records a dropped update, or a calibration that began before its
predecessor had switched the relay back: after either, the code promises nothing and the properties exempt the rest (`MCSensing` follows a calibration no further).

`Sensors` and `RtcmStream` follow one task each, so they are operators over inputs (a fold over the bits of a ROM,
the passes of `handleBytes`), checked on every input of a small instance. In `RtcmStream` a byte is a number, the two
length bytes are one and the CRC is one number, computed over header and payload byte by byte (`Crc24q`) and above every other byte.
A frame's checksum is therefore met nowhere else, and that of a frame is not that of more bytes that end in it: a CRC-24Q that
agrees by chance (one candidate in 2^24) is left out, and the CRC shows only as its last byte. What stands between the frames (`Noise`) is anything else, a
header that lies included.

### ConfigStore, Requests, Settings

In `ConfigStore` a text is the configuration it holds. `Request` changes `app_config`, `Build` serialises it with no lock,
`SaveNvs` writes NVS, `TakeCard ... DropBackup` are the steps of `SaveConfigEverywhere` on the card under the
mutex, each of which may fail. `Answer` decides a meteo request and starts the roll-back, which is a second
save. `Restart` can come between any two steps and loads `config.txt`, else `config.bak`, else NVS.

In `Requests` a body maps field names to items with cJSON's types, and each command has an operator per front end
(`HttpPidApply`, `MqttPidApply`), which takes the fields by its own names and defaults and ends in the common action (`PidApply`). `BuildConfigText` and
`ParseConfigText` write and read what the file keeps. `Settings` runs a device through requests of one kind by both front
ends, with fields missing, under either name and out of range, and restarts. `Complete` are the bodies with all their fields, and
`ReadApart` those of them of which the front ends make something different.

### Connectivity and Routes

`Connectivity`: `wifi` is the driver (on, mode), `sta` the station's attempt, `bits` the event group `InitWifi` waits on, `fallback` is
`s_fallback_ap_active`, `recover` that `WifiRecoverTask` runs, `sleeping` the two delayed fallback tasks and
`step` where the tasks are that may be inside `InitWifi` (boot, apply, the monitor, the fallback tasks). Time is `TimePasses`: whatever waits 2 s
for a retry counts as late. `cable` and `range` are outside. `Routes`: four parties set the default route; `probe` is the
monitor between the route it read and the one it writes back.

### S3Sync

State: `store` (versions of the objects; an ETag is the number of an upload), `ledger`
(`device_s3_sync_objects`), `waiting` (`next_retry_at` ahead), `cursor`, `inserted`, `lease`, `queue` (arq
jobs), and per run `pc`, `todo`, `from` and `got`. `Select` merges the ledger read, the listing and
`select_pending_objects`; everything after works on what it read. `Import` is one transaction with rows,
ledger entry, cursor and counter. A lease may expire while its owner runs; `finish_run` is `FinishCheck`
and `Release`, since it reads the owner and writes the row in two statements. `Cancel` is arq's timeout
(300 s) or the death of the process; the lease (30 min) stays. Clock comparisons are the actions `Tick`,
`RetryDue` and `Expire`. One device and one prefix.

## Runs

| Run | Distinct states | Shows |
|---|---|---|
| `upload_pipeline` | 838 k | two callers, the meteo task, the uploader and one restart: `NoRowLost`, `OpenLogInRoot` (the sweep without an exception never takes the open log), `ActiveMeteoNotSwept`, `ArchivedIsStored`, `UploadIsStable` (hash and PUT see the same file without the lock), `OnlyForward`, and `KeepsCustody`, the refinement of `RowCustody` |
| `upload_live` | 65 k | `QueuedIsArchived`: a queued file is archived although PUTs, answers and archiving fail and downloads hold the mutex |
| `storage` | 551 k | the backend switched, the queue moved in both directions, files listed and deleted, logging, the uploader and two failures: `Kept`, `OpenLogKept`, `PagesCover` (whenever httpd is free: pages that read the directory show every file once, on flash the partitions and `config.txt` too; pages that could not read it the latter only) |
| `logging` | 95 k | a session and one client: `OneLogTask`, `StoppedIsSilent`, and `SessionEnds`, a log task without a file gets one or ends; the GNSS log: `QueuedInTurn`, every file gets to the queue |
| `logging_guard` | - | violation of `GuardOwnerLives` |
| `motor` | 1.0 M | three commands at any moment: `HomingIsDriven`, `PositionIsShaft` (the counter is the shaft's distance from the zero), `RowsInPlace` (both averages of a row are taken where they should be), `MotionEnds` |
| `sensing` | 179 k | calibration of two ADCs whose reads fail anywhere: `OneMeasures`, `OffsetsFromLoad` (no conversion of the sky in the offset of an ADC that gave something out while samples were ignored, and one at most in that of an ADC that did not), `CalibrationEnds`; operators: `ScanIsComplete`, `RegulatesAsAsked`, `PidUnwinds`; bytes: `EveryFrameFound` |
| `configuration` | 536 k | one saving task, two restarts, every failure: `AnswerIsDurable`, `WholeFiles`, `BootMovesForward`; requests and restarts: `FrontEndsAgree` (the parsers make the same of a complete body exactly when `ReadApart` does not name it), `CredentialsTogether`, `RestartKeeps` |
| `network` | 122 k | every mode, priority and start, five changes: `StaysReachable`, `ComesBack`; routes: `BrokerIsReached`, `RouteIsAlive` |
| `s3_one` | 2.7 M | one run at a time: `DoneIsImported`, `NothingTwice`, `CountsInserted` (exact counter) |
| `s3_live` | 10 k | `SoundIsImported` while fewer files than `max_files_per_prefix` fail |
| `s3_block` | - | violation of `SoundIsImported` when as many fail |

### Findings

- `logging_guard`: `StopLogging` deletes the log task (`motion_controller.cpp:804`) also when that task is
  inside an `SdLockGuard` scope. Nobody gives the mutex back; `storage_manager.h:12` promises an RAII guard.
- `s3_block`: failed objects do not move the cursor, so `max_files_per_prefix` malformed files fill every
  selection (`s3_sync.py:301`). `docs/CHANGELOG.md:37` says malformed files do not block later ones.

Counterexamples kept to run by hand, each a sentence of the repository or an expectation that the code does not meet:

| Config | Module | Property | What happens |
|---|---|---|---|
| `LoggingNullFile.cfg` | `MCLoggingSession` | `RowsHaveAFile` | the log task looks at `log_file` at the top of its loop (`motion_controller.cpp:917`) and writes seconds later (970, 1037); a stop closes the file in between |
| `ConfigTwo.cfg` | `MCConfigStore` | `RolledBack` | `SaveConfigEverywhere` serialises before it locks (`config_loader.cpp:468`): an interval that was rolled back reaches `config.txt` through another task's save, against `docs/CHANGELOG.md:96` |
| `StorageSwitchRace.cfg` | `MCStorageSwitch` | `SwitchedWhenStopped` | the switch stops logging (`http_handlers.cpp:2334`) and assigns the backend later (2348); a start in between goes on logging to the old one |
| `NetworkBoth.cfg` | `MCConnectivity` | `BothActive` | with Ethernet first and up, nothing starts the station (`network_manager.cpp:207`), and one that loses its network is not connected again (741); `docs/CHANGELOG.md:75` says both interfaces are kept active |
| `WifiBoot.cfg` | `Settings` | `AcceptedWifiBoots` | a password shorter than 8 characters is accepted, used and saved; the loader drops it and the SSID with it, and the next boot is on the default network (`README.md:17` gives 8 to 63) |
| `GnssStuck.cfg` | `MCLogs` | `RotatesAnyway` | after a switch under an open GNSS file the rotation renames across file systems, fails every time, and every record is dropped (`gps_module.cpp:384`) |

Two more configurations to run by hand hold: `LoggingTwo.cfg` (`MCLoggingSession`, 112 k states: `SessionEnds` when two clients start and stop
one log task at the same time) and `Offsets.cfg` (`Calibration`, 24 k states: `OffsetsFromLoad` of three ADCs with two ignored samples and one task).

What else the modelling met, stated nowhere and checked nowhere, or exempted by a property that names it:

- A setting other than the meteo intervals counts as saved when NVS alone took it (`config_loader.cpp:525`, "existing
  fallback contract"). A save whose NVS write failed removes the last backup before its own rename (exempted in `BootMovesForward`).
- A stop can unmount the card under another task's guard scope (`motion_controller.cpp:791`, reachable in `LoggingSession`). Two clients
  that start at once create two log tasks (1068); the theorems assume requests one at a time.
- Two overlapping S3 runs lose an update of `inserted_measurements` (`sqlalchemy.py:738`), and `finish_run` can release
  a lease another run has just claimed. `DoneIsImported` holds all the same; the counter is claimed for one run at a time.
- `fclose` of a copied file is not looked at (`http_handlers.cpp:1803`): with `LastWriteFails = TRUE` `Kept` fails. A cut-off copy in the
  destination queue can be uploaded, and its archived name then blocks that of the whole one, which stays in its queue.
- A client's command while the motor is at work can leave the counter off (`calm` in `PositionIsShaft`). A log task deleted in its move leaves
  `homing` set, and `StepperTask` waits for it until the next homing (`killed`).
- An offset can hold one conversion of the sky: of an ADC that gave nothing out in any ignored sample. An LTC2440 that times out keeps its old
  conversion (`ltc2440.cpp:94`), and an error of ADC2 ends the reading before ADC3 is asked (`sensor_hub.cpp:277`), while the
  sample is counted as ignored all the same. An error of ADC1 is averaged as a zero (`sensor_hub.cpp:275`).
- When its mutex, mount or `opendir` fails, the flash list is answered with 200 and shows partitions and `config.txt` only
  (`http_handlers.cpp:1346`); after a failed `opendir` it even says that the file system is mounted. The list of the card answers 500.
- The guard of a delete asks `SharedState.log_filename`, whose update may be dropped (`data_logger.cpp:110`, `app_state.cpp:97`): after a dropped one
  the open log can be deleted. `OpenLogKept` takes the name from the log itself, with no update dropped.
- The two front ends differ on complete bodies (`ReadApart`): a power cycle of no or negative time is 1000 ms by HTTP
  (`http_handlers.cpp:471`), and 100 ms or, cast to unsigned, 30 s by MQTT (`mqtt_bridge.cpp:668`); a log row of a tenth of a second becomes one of a
  second by HTTP only (`http_handlers.cpp:785`); a move has `direction` and `speed` by HTTP and `reverse` and `speedUs` by MQTT,
  each deaf to the other's; an empty static address or GPS mode is filled in by MQTT only. HTTP bodies are also cut at the handler's buffer (64 to 512 bytes).
- They differ also on bodies with fields missing: `power_set`, `offMs`, `ethDhcp`, the GPS mode, heater and fan power, the
  log's duration and the names of the fields of a move. A field missing in `cloud_apply` erases the value in RAM; an
  empty value is not written to `config.txt`, so the default is back after a restart. A line end inside a text becomes a line of its own.
- `PidTask` keeps the heater at its last power when every sensor is lost, and `PidDisable` leaves it as it is. A
  mask sent before the first reading of the sensors is lost.
- Without a clock the GNSS name is `gps_log_<boot>` in every hour: the object is overwritten in MinIO, or the rename refused while the
  earlier file is queued. A file of the backend that was switched away waits until it is active again.
- If every hour of the GNSS log ends while a record is collected (up to 35 s), leftovers of the root wait for a restart, as only a rotation
  at the top of the loop sweeps (`WriteDue`).
- A change of the network settings while `InitWifi` waits its 15 s is dropped (`control_actions.cpp:24`), and a fallback task inside that wait
  cannot be stopped: with `Patient = FALSE` the access point may never open (`s_fallback_ap_active` outlives it) and the
  station never return. Attempts that fail within 2 s of each other are not counted; if all do, the fallback access point never opens.
- With Ethernet first, the loss of Wi-Fi leaves the default route where it is; while MQTT is connected over Ethernet the monitor only
  watches, and uploads may have no route (exempted in `RouteSettles`).

### Bounds

Every bound is a constant. They are small because the interesting cases are small:

- `upload_pipeline`: two data names and two meteo names (an old and a new file at every rotation), two callers
  (one in a critical section, one trying), one restart. One row is enough: rows meet in
  no guard, and a file whose row is lost is a file without it. The proof covers any number of rows, names,
  callers and restarts. With `DataName` exhausted no new log opens; the meteo name repeats only when
  `FreshNames` is FALSE. `upload_live`: one caller, one meteo file; two files compete for the uploader.
- `storage`: two files, one deletion, two failures: a cut-off copy needs one, and what it leads to another. Lists of up to two files, a partition and
  `config.txt`, in pages of one to three. The theorems have no bound.
- `logging`: one caller and two log tasks, the one that a wrong start would create next to the other; two GNSS names of a clock and one per
  boot, one change of each kind, one restart.
- `motor`: three positions of the magnet, three steps of a homing attempt, two attempts, a move of two steps, three commands and one
  measurement cycle. Three commands are a start, one that comes in its middle and one that comes in the middle of that. The theorems have no bound.
- `sensing`: two clients, two calibration tasks, two ADCs (the first, whose error is no error, and one whose error ends the reading; a third that is not asked is like a second that times out), two samples that count after one that does not; ROMs of four bits with one family bit
  and up to four devices for a table of three; masks of three bits with up to two sensors; integrals up to 5; three segments of a stream, chunks of up
  to four bytes, payloads of up to three with a preamble and a line start in them. Segments, payloads and sizes have no bound in the theorem.
- `configuration`: two values for each of two settings, two restarts (one during a save and one during the save
  after it); the real limits of SSID and password, with values at, below and above them.
- `network`: two retries, five changes (the cable or range goes, comes back, the settings change, and again).
- `s3_one`: two objects of two versions, `Limit = 1`, so that selection, cursor and retry matter; one object
  is malformed first and repaired later; MQTT, edits and a cancelled job. `s3_live`: three objects, one ignorable, one never repaired,
  `Limit = 2`. `s3_block` has `Limit = 1`. The set `Outside` chooses which external events a run includes.

Deadlock is checked everywhere but where the system may stop or the bound of the outside world stops the model: in `logging`
(a fault ends the behaviour: the firmware panics and reboots there), `storage`, `network` and the `s3` runs (names,
changes and uploads are used up).

### Fairness

- `UploadPipeline!FairSpec`. A task inside a critical section leaves it (FreeRTOS runs it; a download ends with
  its client or a send time-out). `UploaderStep` is weakly fair: the task's loop has no exit. Strong fairness of `Pick`,
  `Hash`, `PutAcked` and `Archive` says that the network, the card and the 200 ms wait do not fail at every
  attempt for ever. The last conjunct is an assumption about the environment: an uploader that comes to
  the archive again and again finds the mutex free again and again; back-to-back downloads could deny it.
- `LoggingSession!SessionFairness`. Every task takes its steps; the 2 s mutex time-out is the action that is always
  enabled, so a deleted owner blocks nobody for ever.
- `GnssLog!Fairness`. The task runs. Again and again a rename works, a record arrives, the uploader empties the queue, and an hour ends while the
  task waits at the top of its loop with no file of its name in the queue (an hour is long against an upload).
- `Motor!FairSpec`, `Calibration`: the tasks run, clients owe nothing.
- `Connectivity!Fairness`. Tasks are scheduled, timers expire and the drivers report. The strong fairness says that
  not every attempt to connect fails within 2 s of the one before.
- `Routes!Fairness`. The monitor runs and time passes; `Connected` is strongly fair, because the probes hold the route for 3 s of 15, so a
  client that goes on trying finds it at rest as well.
- `S3Sync!FairSpec`. Clocks advance, the cron job and the worker run, and no request or transaction fails for
  ever. `SoundIsImported` holds only while the import stays enabled (`<>[]enabled`).
- `RowCustody`, `ConfigStore`, `Settings`, `StorageSwitch`: no liveness is claimed.

## Proofs

TLAPS checks every obligation of the seven `*Proofs` modules and `NaturalSets` (Z3, Zenon, LS4).

| Theorem | Assumption | Argument |
|---|---|---|
| `TypeCorrect`, `FilesGoForward` | - | types plus: the files under upload, move and rotation are named (`Typed`); each action moves a name forward |
| `CustodyHolds` | `FreshNames` | `CustodyInv` is inductive |
| `RowsAreSafe`, `OpenLogStays`, `MeteoStays`, `PurgeIsSafe`, `UploadReadsOneFile` | `FreshNames` | conjuncts of `CustodyInv` |
| `PipelineKeepsCustody` | `FreshNames` | each step is a flush, a store, a discard or a stutter of `RowCustody` |
| `SessionHolds`, `OneTaskOnly`, `StopWorks` | `AtMostOneCaller` | `SessionInv` is inductive |
| `SwitchHolds`, `LogsAreKept`, `OpenLogIsKept` | `~LastWriteFails` | `SwitchInv` is inductive |
| `PagesAreComplete` | `PartitionAssumption` | `Listed` is inductive; the pages up to the k-th are the list up to its end, by induction over k, whether or not the flash was read |
| `HomingNamesADriver`, `CounterIsHonest` | - | `HomingInv` and `CounterInv` are inductive |
| `RowsAreInPlace`, `MotorTypeOK` | - | `RowsInv` is inductive |
| `CalHolds`, `OneTaskMeasures`, `OffsetsAreOfTheLoad` | - | `CalInv` is inductive |
| `HeaterRegulatesAsAsked` | - | the mask after a request and a reading, by cases |
| `HeaterUnwinds` | - | the integral falls until the sum is not positive, by induction over the rounds |
| `ScanFindsAll` | `Passes >= 4` | a pass follows the last ROM to its last branch: by induction over the bits, then over the passes |
| `FramesAreFound` | `SensingAssumption` | `StreamInv` is inductive: the parser never stands within a frame and waits only where it must |
| `ImportHolds`, `LedgerIsTrue` | - | `ImportInv` is inductive |
| `UnchangedIsSkipped`, `CounterIsExact` | `OneRun` | `RepeatInv`, and the rows a transaction adds |
| `StoreHolds`, `FilesAreWhole` | - | `StoreInv` is inductive |
| `AnswersLast`, `BootsGoForward` | `OneSaver` | `AnswerInv` is inductive; each action against what a boot would load |
| `FrontEndsAlike` | `SettingsAssumption` | one lemma per command: both bodies ask for the same, or, for the five of `ReadApart`, for the same exactly when it does not name the body |
| `CredentialsStayTogether`, `RestartsKeep` | `SettingsAssumption` | `SettingsSound` is inductive; field by field, what is written is loaded |

`NoRowLost` alone is not inductive. A purge is safe because `uploaded/` holds stored files only
(`ArchivedIsStored`). That needs the archived file to be the stored one (`Pointers`), hence a file under
upload that neither moves nor changes (`UploadIsStable`). Hence no writer in `to_upload`
(`OpenLogInRoot`, `ActiveMeteoNotSwept`), which rests on the lock (`Critical`). A second
upload must not overwrite more than it stores (`Objects`), and opening with `"w"` must not truncate
(`FreeNames`).

`FreshNames` is an assumption, not a fact: names carry one-second timestamps, and the clock can step back
after SNTP or the boot number wrap. It is a constant, so that the proofs say where it is used; the mutant `RepeatedName`
shows `NoRowLost` failing without it.

`SwitchInv`: `Kept` looks at one name on four places at once, and a purge, a transfer and an archive each destroy one of
them. A file of a root is the only one of its name, because a transfer copies from the queue. What is whole in
`uploaded/` is stored. The hard case is a cut-off copy that the uploader has sent (`SentOrCut`): the whole file is then in the other
queue, and each of the two names keeps the transfer from touching the other. `~LastWriteFails` says that a copy whose
`fclose` fails is not taken for a good one; the code does not look.

`CounterInv`: the published position differs from the shaft by the steps under way (`Pending`). After commands that came at rest one user at a time
has the motor (`OneUser`): `StepperTask` moves only while no driver is at work, and a driver that pulses has enabled it, set
its direction and `homing`. `HomingIsDriven` needs the stronger fact that a task that has not begun its homing has not set the flag.

`RowsInv`: while no client has moved the motor, nobody but the log task pulses it, on an enabled driver chip (`LogTaskAlone`), and wherever
the session is, whole turns lie between the shaft and the place its own counts say it has (`OnCourse`). A row's second average is
`LogSteps` away only because the way out began at the offset, which holds because a homing that ended well ended there, whatever the
sensor did: from the found edge on, the steps left are counted. A stop may come at any step; it ends the session with the steps it had
made, so the next session starts with a homing and not with a count.

`CalInv`: at most one task has the relay, from its flag to its switching off (`OneAtATime`): while it measures `calibrating` keeps the others off, and
after that the relay tells that it has not given it back, which is what `broken` looks at. `Fits` says of a task
that samples: an ADC that gave something out since holds a conversion of the load (`heard`), and one with a conversion of the sky in its sum has just that one, gave
nothing out before the samples that count, and holds one of the load now. `AdcTask` may start conversions as it likes, since they can only be of the load.

`AtMostOneCaller` says requests come one after the other, `OneRun` that no two S3 runs overlap, `OneSaver` that one task saves at a
time. Nothing in the repository enforces them (the 30-minute lease does, as long as no run outlives it); the hazards say what happens without.

`ImportInv` adds to `DoneIsImported` that a listed version is no newer than the downloaded one, and
neither is newer than the object. A payload that is newer than the listed ETag is then recorded under an older ETag, which
no longer equals the object's, so the next listing selects it again. No lease appears in it: the
table is right even when leases fail. Overlapping runs are covered by this theorem only, not by a run.

`StoreInv` adds to `WholeFiles` that whoever is between the flush and the rename owns the mutex and that
`config.tmp` holds its text. It needs no bound on savers or restarts. `AnswerInv` follows a meteo request from the change in RAM to the answer and says what
NVS and the two files hold at every step of the save and of the roll-back.

`Listed` says that finitely many names were ever created and that every file has one of them; with it a list is a sequence of its
directory without repetition. `PagesJoin`, the lemma under `PagesAreComplete`, is about any list and any page size, not the three of the
property. The theorem needs no assumption about failures. `PartitionAssumption`: the flash list tells partitions, `config.txt` and files by their type.

`ScanFindsAll`: let the ROMs above q be those that took 1 where q took 0 for the first time. A pass that starts from q meets
the least of them, and what is above that one is what was above q without it (`PassFinds`). The invariant of the 64 positions
(`Searched`) follows the pass along q to its last branch, over to the other side and then along the zeros; the last position with a way not taken
is the next last branch. `ScanEnumerates` says it for any bus with no more devices than passes; the property draws buses of four at most, hence
`Passes >= 4` (64 in the code).

`HeaterUnwinds`: above the setpoint, as long as the sum is positive, the clamped integral loses a unit per round (`RoundFalls`); when it
is 0 the sum cannot be positive, and a sum that is not positive stays so, although the integral is then held. `IntegralMax + 2` rounds suffice for
any gains.

`SettingsSound` is what any request and any restart leaves: intervals that the API accepts, a known network mode and priority, valid message types each once, a mask
within the sensors there can be, and an SSID with the password it was given with. Without it `RestartKeeps` is false: the loader drops
a type it has seen and an interval out of range. TLC checked it on the states of `configuration` first. The list of message types comes back by an induction over the list
(`TypesComeBack`). `FrontEndsAlike` needs no invariant but `Sound`, for both front ends end in the same `Action*Apply`; where they read a body
apart, the lemma of the command shows that what they ask for is not the same (`SettingsAssumption`: `Huge` is above the longest power cycle).

`FramesAreFound`: let the stream be laid out as bytes (`Laid`), with a payload for every frame up to each segment (`ToldBy`). The parser
stands before a byte p, behind segment j: at the beginning of the next segment or within it, but within a segment only if that is no frame
(`At`), and what it has found is what the first j segments hold. A pass keeps that (`PassMoves`): a byte that is dropped begins no
frame, because a frame at p would be accepted there (`FrameIsSeen`), and a frame that is accepted is one of the stream and begins at p
(`AcceptedIsFrame`: its last byte is a checksum, so it is the last of a frame, and a longer candidate that ends there has another checksum). Each pass
that does not wait goes on by a byte, so the passes of one read end with the parser stuck (`Stuck`): before no preamble, or before a
header whose frame has not come. Hence nothing is lost when `rx_buffer_` overflows: a header holds back at most `MaxPayload + 2` bytes, and
`MaxBuffer >= MaxPayload + 3 + MaxChunk` (8192 against 1023 and 1024), so what is cleared holds no preamble (`KeptStands`). It does
not matter where the reads cut the bytes, since `StreamInv` speaks of the bytes read so far only. When all is read, the silence at the end has disproved
the last header (`AllIsTold`).

The induction over rounds, passes, bits, bytes, pages and lists is done with `NaturalsByStep`: a set of naturals that
contains 0 and n + 1 with every n is all of them. That a recursive function exists is shown the same way.

Only model-checked:

- liveness (`QueuedIsArchived`, `SessionEnds`, `QueuedInTurn`, `MotionEnds`, `CalibrationEnds`, `SoundIsImported` and the four of
  `network`; `SessionEnds` for one request at a time): TLAPS does not do fairness and ENABLED;
- `RotatesAnyway` and the other properties of the configurations that are run by hand.

No module uses RECURSIVE operators.

## What is not modelled

- Data: averaging of samples, CSV columns, HTTP and JSON formatting, request signing,
  Modbus frames, NMEA, numerical queries, how a line of `config.txt` is split at `=`.
- Hardware: pulse timing, scaling of the ADCs, INA219, PWM, fan counters, the Wi-Fi and Ethernet drivers below their events.
- GNSS: the receiver's configuration and its retries, and the collection of several frames into one record. A record
  that cannot be started because its 100 ms mutex is busy leaves the previous frame in place, which is then filed a second time.
- MQTT: publications, and the joining of fragments; the error manager's table and the order of its publications; two
  power cycles at once (`motion_controller.cpp:115`).
- Meteo: the two schedules of `taskLoop`.
- The failure of `xTaskCreate`, and memory exhaustion.
- Uploading files to the device, formatting it, its partition table, and the static page `web_ui.cpp` (2336 lines of text).
- The backend's CRUD, soundings, history and filters, the front end and the operator scripts: single transactions or
  read-only queries without a protocol.
- A file's header line, and directory entries torn by a power loss (FatFs is taken as atomic per call).
- Which file `readdir` gives first: `Pick` takes any. The code tries one file per cycle and gives the others no
  turn (`upload_pipeline.cpp:789`), so a file that MinIO never accepts keeps them queued; the fairness of `upload_live` excludes it.

## Plan

What would add most from here:

1. `ErrorManager`: set and clear of two tasks, publication after the unlock; it refines a registry in which the last
   published event is the state, once the repository says that it should.
2. `MqttCommands`: fragments, reconnects and dispatch, with the client library's guarantees as an external module.
3. `MeteoScheduler`: the two schedules with changes of both intervals; the frames of a GNSS record (`RtcmStream` to `GnssLog`).
4. `SoundingJobs`: jobs that arq runs again after a restart (`soundings.py:232`).
5. Proofs: an invariant of the rotation of `GnssLog`.
