# Editmamei in TLA+

Editmamei is an MCP server that drives Adobe Photoshop and GIMP for a language
model.  This directory holds TLA+ specifications of the parts of it in which
the order of events matters, the TLC configurations that check them on small
instances, and theorems about eight of them with proofs for TLAPS.  Paths such as
`platform/connection.ts` are relative to `src/src/`; line numbers of every
definition are in `PROJECT.json` under `map`.

1. [The system](#1-the-system): components, state, operations, what is hard
2. [The modules](#2-the-modules): which module models what, and how
3. [The runs](#3-the-runs): what is checked, with which bounds and fairness
4. [Disagreements](#4-disagreements-between-the-code-and-what-it-says)
5. [The proofs](#5-the-proofs)
6. [What is not modelled](#6-what-is-not-modelled)
7. [The plan](#7-the-plan)

## 1. The system

One Node process serves one MCP client over stdio.  Several such processes may
run on one machine, one per client or window; they share Photoshop, the
telemetry directory, the module store and the license file, and know of one
another only through the file system and `process.kill(pid, 0)`.  Inside a
process JavaScript runs to completion between awaits; everything hard about it
is what happens across an await, between two processes, or after a timeout.

| Component | State it keeps | Operations | Talks to |
|---|---|---|---|
| Child runner (`platform/run-child.ts`, `windows-runner.ts`, `macos-runner.ts`) | kill timer, output cap, strongest signal, per run | run a script in a child, kill it, escalate | script queue (awaits it), the operating system |
| Script queue (`platform/script-queue.ts`) | waiting tasks, `isProcessing`, a watchdog per task | `enqueue`, `processQueue` | connection and launch probes above, child runner below |
| Photoshop connection (`platform/connection.ts`) | install found, detection in flight, running latch, `awaitingAnswerAfterTimeout` | `executeScript`, `ensureDetected`, `ensureRunning`, launch, settle, skip | tools above, script queue below, Photoshop |
| GIMP session (`backends/gimp/session.ts`) | session state, process, directory, generation, start attempt, sticky and unobserved failures, restart notice | `call`, start, send, process events, `shutdown` | tools above; the GIMP process and its bridge through files |
| GIMP backend (`backends/gimp/backend.ts`) | lazy session, detection and its one retry, closed flag | `call`, `shutdown` | GIMP session |
| GIMP checkpoints (`tools/gimp-checkpoint-tools.ts`) | a registry of copies stamped with image number and session generation, belief whether each image is open | create, list, restore, delete | GIMP session |
| Tool sequences (`tools/sequence-tools.ts`) | per call: entries, first failure, captured history state | `ps_sequence` with its three modes, rollback and verification | dispatcher, Photoshop's history |
| Scene model and saved regions (`perception/scene-model.ts`, `region-precompute.ts`, `select-recipes.ts`, `pixel-identity.ts`, `tools/scene-tools.ts`) | one cached scene model, the state its channels belong to, the last menu; `scene:*` channels inside the documents | `ps_read_scene`, `ps_select_by_reference`, the purge of `ps_save_psd` | connection; the documents, which the user edits too |
| Tool budget (`utils/tool-budget-context.ts`, `run-script.ts`) | deadline of the current dispatch | nest, remaining | script queue timeouts |
| Telemetry client (`telemetry/client.ts`) | event queue, batches on the network, counters, session counts | record, flush, startup drain, shutdown | outbox, HTTP transport |
| Telemetry outbox (`telemetry/outbox.ts`) | one NDJSON file, claims on it, session snapshots | append, compact, claim and release, recover sessions | sibling processes, through renames |
| License (`license/*.ts`) | cached record, check state with a back-off marker | activate, refresh, reactivate, deactivate, evaluate | the license service, siblings through files |
| Module store and provisioning (`delivery/store.ts`, `provision.ts`) | version directories, pointer file | install, repair, prune, regenerate on load | lifecycle, siblings through renames |
| Module lifecycle (`kernel/module-lifecycle.ts`) | loaded and skipped modules | resolve, load, cure, freshen | store, license |
| Server (`core/server.ts`, `index.ts`) | boot and shutdown progress | start, stop, tool dispatch without a mutex | all of the above |

The other components (the remaining tools, ExtendScript library, detection
models, pixel statistics, Go core, command line, static specifications)
transform data and keep no state that several actors share; `PROJECT.json`
lists every one.

**How they interact.**  A tool call is a promise chain: the dispatcher starts
it at once, without a lock, so several calls interleave at their awaits.  A
Photoshop call goes through the connection, which serialises *scripts* through
the one queue but not *calls*.  A GIMP call goes through the session, which has
a chain of its own and serialises calls.  Every call is recorded by telemetry
when it ends, also during and after shutdown.

**What is hard**, and so what the properties are for (the complete list with
line numbers is under `hazards`):

- *Timeouts that stop the wait and not the work.*  A script given up on is
  still executed by Photoshop; a GIMP that did not answer may still write its
  answer; a child that was told to die may exit normally.
- *State read before an await and used after it.*  The settle flag, the latch,
  the generation a call was issued in, `isProcessing`.
- *Late events.*  The exit event of a process already replaced; a watchdog
  after the run, a run after the watchdog.
- *Who takes over whose work.*  A start attempt that every caller has stopped
  waiting for; a claim whose owner died; a process spawned while shutdown began.
- *Kills between two file operations* of processes that share a directory.
- *State that lives elsewhere.*  Photoshop's history, selection and channels,
  GIMP's image numbers and the seats of the license service change while the
  server believes something of them: undo by index in a history that drops its
  oldest states, close by a number that now means another image, a mask loaded
  by name after the pixels under it changed.

**What makes each component correct.**  Queue: one script at a time, in order,
one honest verdict per caller, and always a verdict.  Connection: after a
timeout no script is stacked on a busy Photoshop, and every call returns.  GIMP
session: no process is left unmanaged, no call runs against a process other than
the one its image ids mean, answers are not mixed up, failures reach someone,
shutdown is final and completes.  Telemetry: what was written is neither lost
nor sent twice without a reason, and a session leaves one summary.  Module
store: the pointer leads to a complete tree whatever crashes, what is imported
is whole and fits the host, and damage heals.  License: a record another process
has removed is not written back, no seat is lost without a reason, a good key
unlocks again and a revoked one does not stay.  Checkpoints: a restore closes no
image but the one its checkpoint was taken of.  Sequences: a rollback that is
reported has happened. Scene: after a read no mask older than the pixels can be
loaded by name.

## 2. The modules

| Module | Models | Extends or instantiates |
|---|---|---|
| `SerialLine` | abstract: a line of callers served one at a time | |
| `RunChild` | one child process under a kill timer and an output cap | |
| `ScriptQueue` | the queue, its loop and watchdogs, over its runs | extends `RunChild`; refines `SerialLine` |
| `PhotoshopConnection` | calls, latch, launch, settle wait, Photoshop itself | instantiates `SerialLine` as its queue |
| `PhotoshopConnectionProofs` | the queue: invariant, safety theorems, refinement; the connection: invariant and theorems about timeouts | extends `ScriptQueue` and `PhotoshopConnection` |
| `SessionContract` | abstract: what a caller of the GIMP session relies on | |
| `GimpSession` | the session, its start attempts, processes and files | refines `SessionContract` |
| `GimpBackend` | the backend the tools call: boot search, lazy session, shutdown | extends `GimpSession` |
| `GimpSessionProofs` | invariant, safety theorems and refinement of the session; the backend over it | extends `GimpBackend` |
| `SessionRecovery` | session snapshots of several processes | |
| `TelemetryOutbox` | the outbox file, claims, drain, compaction, delivery | |
| `TelemetryProofs` | invariants and theorems about the snapshots and about the outbox | extends `SessionRecovery` and `TelemetryOutbox` |
| `ModuleStore` | the module directory of several processes, from boot to prune | |
| `ModuleStoreProofs` | invariant and theorems about the pointer, the gate and the import | extends `ModuleStore` |
| `License` | the record of one device, its tasks, and the service's seats | |
| `LicenseProofs` | invariant and theorems about seats and records | extends `License` |
| `GimpCheckpoints` | the checkpoint registry over a session in order of issue | |
| `GimpCheckpointsProofs` | invariant and theorems about the registry and the restore | extends `GimpCheckpoints` |
| `Sequence` | one `ps_sequence` over the histories of documents | |
| `SequenceProofs` | invariant and theorems about rollback, undo and report | extends `Sequence` |
| `SceneRegions` | cached scene model and saved regions, calls and the user | |
| `SceneRegionsProofs` | invariant and theorems about the cache, the reads and the answers | extends `SceneRegions` |
| `MC...` | the values of constants and the symmetry for TLC | extend the module they name |

The layers are joined by the abstract specification: `ScriptQueue` (with its
children) is proved to implement `SerialLine`, and `PhotoshopConnection` is
built on `SerialLine`, so that its state space has no kill timers in it.

A definition whose comment begins with `Mutant:` is not part of a
specification: it is the definition it precedes or follows with a mistake in
it, kept to confirm that the properties notice the mistake.

**Atomicity.**  In the modules of one process (`ScriptQueue`,
`PhotoshopConnection`, `GimpSession`) an action is the code from one await to
the next.  Continuations of settled promises run before any timer, child exit
or new call: `Quiet` guards every other action, and the calls that may continue
are `Runnable` (connection) or at the head of the chain (session).  In the
modules of several processes (`SessionRecovery`, `TelemetryOutbox`) synchronous
code is not atomic, because a sibling runs beside it and a kill can cut it
short: there an action is one access to the file system.  In `License`,
`GimpCheckpoints`, `Sequence` and `SceneRegions` the interleaving is that of
requests, bridge calls and scripts: an action is what is done with one answer,
up to the next request.

### RunChild and ScriptQueue

`child[t]` is the run of task `t`: `preparing` (files are being written),
`alive` (the child exists), `cleaning` (it has exited, the directory is being
removed), `settled`.  `signal`, `timedOut`, `overflowed` are the variables of
`runChildWithTimeout`.  `KillTimer` and `Overflow` mark and send SIGTERM,
`Escalate` sends SIGKILL, `Exit` picks the outcome from what is marked, timeout
before overflow before the output.  `queue`, `isProcessing` and the settled
state of each promise are those of `script-queue.ts`; `Enqueue` includes the
synchronous start of the loop, and `RunSettles` the way round it: settle the
task, shift the next or end.  `Watchdog` rejects the promise and leaves the loop
where it is.

`SerialLine` has three actions (arrive, answer the head, leave).  The mapping:
the line is the task in service followed by `queue`, a task has come when it
was enqueued, its answers are its verdict.

### PhotoshopConnection

`pc[c]` is the await a call of `executeScript` is in: `detecting`, `probing`
(`isRunning`), `launching` (the readiness poll), `settling` (the `'ready';`
probe of `settleAfterTimeout`), `running`, and `checking` for the tools that
look after a timeout whether the work was done after all
(`skipSettleAfterTimeout`).  `latch`, `awaiting`, `found`, `detections` are
`runningLatchUntil`, `awaitingAnswerAfterTimeout`, `photoshopInfo` and
`detectInFlight`.  Photoshop is an environment: it starts, quits, executes the
script in service, and finishes a script whether or not its child is still
there; `executing` survives the timeout that took the script off the line.
The poll of a launch is one probe where the code polls for five seconds: each
goes through the same queue with the same outcomes.

### GimpSession

Attempts are numbered; attempt `n` has process `n` and directory `n`.
`Refuse`, `Join`, `Start`, `GiveUp` are the branches of `#dispatch` and
`#joinOrStart`; `StaleGone`, `BootFails`, `BootSucceeds`, `PingFails`,
`PingAnswered` the stretches of `#startFresh` between its awaits; `Send`,
`Answered`, `Lost`, `TimesOut` those of `#send` and `#readResponse`; `ExitEvent`
and `ErrorEvent` the two listeners; `Shutdown`, `GraceEnds`, `KillConfirmed`
those of `#shutdownOnce` and `#killAndConfirmExit`.  `Boots`, `Serves`, `Ends`
are GIMP and the bridge: requests and responses are records with the directory
and id that the code puts into the file name, and `by`, the sender, which only
the properties look at.

`SessionContract` keeps five variables: the generation, whether the session is
open, the line of calls, what has become of each, and the generation each was
issued in.  The mapping sends `deadGeneration`, `~ShuttingDown`, `queue`,
`Fate(c)` and `generation` to them.

### GimpBackend

The composition of `backend.ts` with the session it makes.  `installInfo`,
`redetectPending`, `made` and `closed` are the fields of the class; `there` and
`pathGiven` the machine and the configuration.  `Ask` is `maybeRedetect`,
`SearchEnds` the end of its search; both go on with `Proceeds`, which is the
rest of `call`, up to and including `Issue` of the session.  `BackendShutdown`
contains the `Shutdown` of the session, if one was made.  `BackendInit` is what
the boot (`detect-editors.ts`) may hand over.  Every step is a step of
`GimpSession` or leaves its variables alone, so what is proved of the session
holds here too.  `overtaken` is history: the calls that came during a search.

### SessionRecovery

A snapshot is a file under `telemetry-session.<pid>.json`, here the name
`<<Unclaimed, q>>`, or under the name `<<p, q>>` once process `p` has claimed
it.  `List`, `Take`, `AllTaken`, `Report`, `Release` are the startup;
`RecordCall` writes the snapshot (and is possible after shutdown, as in the
code); `Shutdown`, `Summarise`, `Clear` are the clean end; `Die` is a kill
anywhere.  `persisted`, `clean`, `rebuilt`, `withdrawn`, `exposed` are history:
who wrote a snapshot, whose summary was written by itself or by another, whose
consent was gone, whose summary and snapshot a kill or a late call left both.

### TelemetryOutbox

A file has an identity (an inode), so that a writer that opened the outbox
before it was renamed still writes to what is now a claim, or to a file that is
gone.  `mem[p].op` is the file operation that the synchronous code of a process
has come to: of an append (`stat`, `open`, `write`), of the compaction inside it
(`seize`, `inspect`, `tail`, `reopen`, `restore`, `drop`), and of the startup
drain (`list`, `take`, `read`, `tails`, `remove`), which hands what it could not
deliver to an append and goes on to delete its claims when that is over.  A
drain reads its claims one file after the other, a step of a sibling or a kill
between any two.  What awaits the network (`DrainSends`, `FlushEnds`) and what
the event loop starts (`Record`, `Flush`, `ShutsDown`, `Leaves`) happens when
`op` is "none".  A claim of the drain moves from `claimed` through `consumed`,
with the mark up to which it was read, to `carried`, read to its end.  Sizes are
counted in lines, and `Cap` stands for the cap in bytes.  History: `written`,
`forgone`, `sent`, `doubtful`, `strayed`, what became of each event.

### ModuleStore

`tree[v]` is what the directory of version `v` holds: nothing, a whole tree, one
whose bytes do not match the manifest, one that cannot be read, or a bare
directory; `pointer` is `installed.json`.  `fs[p]` is the next file operation of
the synchronous code process `p` is in: the compare, move, swap, put-back and
prune of `installModule` and `loadVerifiedModule`.  Each of them may fail, with
the branch of the code that follows: `Clear` is the removal of the old tree
inside the try of an installation (`store.ts:328`), whose failure leads to the
same catch (`RenameFailed`) as that of the rename, and `Restore` the put-back,
which may throw itself (`:338`, `:700`) or find nothing to put back.  In the
catch a tree that stands in the place is adopted; the put-back follows a failed
`Clear` only if a sibling has moved the new tree away meanwhile.  `at[p]` is the boot
(`resolveProModule`, the abi gate on a second read of the pointer, the import),
`job[p]` the two background tasks, the cure of a skipped module and the
freshness check.  A crash is possible between any two operations.  `aside[p]` is
the tree `p` has renamed away, to a staging directory with its pid.  The prune of
any process removes staging directories whose mtime is five minutes past
(`store.ts:402`), and a tree set aside keeps the mtime it was installed with:
`Reap` may take it from under the swap of a sibling.  A directory that is being
filled is young and not modelled.  History: `strays`, the versions that a crash
or a prune took away or a failed swap did not put back, and `returned`, those
that one put back.

### License

A task is one run of `activate`, `refresh` or `deactivate` of a server or of the
command line; `pc[t]` is the request it awaits, and what it does between two
requests is one action, because it is synchronous.  `rec` is `license.json` with
its age (fresh, stale, expired) in place of the clock, `marker` the back-off of
`validate_retry_after`.  The service is `status` and `live`, the activations
that hold a seat; a request or its answer may be lost.  `excused` is history: the
seats whose loss has a reason.

### GimpCheckpoints

`record[i]` is a record of the registry: image number, belief whether that image
is open, generation, `pending` while the export is under way.  `line` and
`issuedIn` are what `SessionContract` promises of bridge calls: in order of
issue, and only in the generation of issue.  A death empties `doc` and starts the
numbering again.  `Reserve` is the stretch from the refresh to the reservation,
which has no await; `AfterOpen` and `Close` are the restore with its siblings.
A create takes any number its caller names, one of an earlier process or a
mistaken one included (`gimp-checkpoint-tools.ts:506`).  In a record, `shows` and
`early` are history: the document the checkpoint was taken of, and that its
number had not been given out yet when it was reserved.

### Sequence

`history[d]` is Photoshop's history of document `d`: a list of states with names,
at most `MaxStates` long, the oldest dropped first; a new state removes those
after the cursor.  A step may edit, move the cursor, switch documents, succeed
or fail, and may still be running when it failed by timeout (`pending`,
`LateEdit`).  `Capture`, `ReadBefore`, `Undo` and `Verify` are the scripts of the
rollback.  `again` is history: a state with the captured name was made after the
capture in the document of the start, or could be redone there, wherever it
stands.

### SceneRegions

`doc[d]` holds the pixels (a version), the selection and the `scene:*` channels
of a document; `scene`, `recorded` and `menu` are `cache`, `channelsDocState`,
and `lastPrecomputedKey` with `cachedMenu`.  The channels are a set of masks, not
one for each name: the scripts that delete channels pass over one whose
`remove()` throws and answer as if it had gone (`region-precompute.ts:307`, `:343`;
`Remains`), so a document may have two of one name, of which a load takes either.
A document may come with channels of an earlier session (`Leftover`).

A call is a series of scripts: `Load`, `Export`, `Histogram`, then for a read
`Purge` or `Exists`, `Wipe`, `Derive`, `Save`, `Deselect`, for a select `Derive`,
`Save`, for a save of the document `Drop`.  Every script runs on the document that
is active then, and may fail with or without having run.  The key of an export
names its document (`KeyOf`), or has only its pixels when the context is degraded
(`PixelsOf`: `null:...`, a string that two documents may share), or is one that
never comes again (`NoKey`); the scene cache refuses the second
(`SameIdentity`), the comparisons of `cache_key` do not (`Same`).

`fit`, `offRecord`, `stuck`, `recordedFit`, `calm`, `covered` and `disturbed` are
history: who was interfered with between two of its scripts, which mask was saved
at other pixels than those on record, which would not go.

## 3. The runs

Every module has one type invariant, part of the first run of the module;
below are the properties that say more.  Sizes are distinct states.

| Run | Instance | Shows |
|---|---|---|
| `script_queue` | 3 tasks; 36 thousand | one run at a time; waiting tasks have a loop; verdicts are honest; the queue refines `SerialLine`; every task is answered |
| `connection` | 2 calls in flight, probes and launches may fail; 59 thousand | a timeout is remembered; every call returns |
| `connection_sequential` | 2 calls one after the other, one checks for late success; 510 thousand | no script is handed over while Photoshop executes one given up on |
| `gimp_session` | 3 calls, one of them `open`; 903 thousand (symmetry) | no process unmanaged, ends are true, answers are own, and the rest; the refinement of `SessionContract` |
| `gimp_backend` | 2 calls, every outcome of the boot; 158 thousand | nobody is told in error that there is no GIMP; nothing is behind a closed backend; every call returns and shutdown completes |
| `session_recovery` | 3 processes, 3 kills; 556 thousand | only the dead are recovered; none is forgotten; none is reported twice without a reason |
| `telemetry_outbox` | 2 running processes and 3 events a third has left, 1 recorded event, batches of 2, 3 mishaps; 440 thousand (symmetry) | nothing written is lost; nothing is sent twice without a reason |
| `module_store` | an old host and a new one, 2 versions of different abi, 1 mishap (a crash, bad bytes, a failed fetch or a failed file operation); 564 thousand | the pointer resolves; what is loaded is whole and fits; the store heals |
| `license` | 2 servers and a command, 2 seats, 1 trouble; 479 thousand | no seat is lost without a reason; no record revived; a good key unlocks again; a revocation lands |
| `gimp_checkpoints` | 2 calls, caps 1 and 2, 2 documents, 2 images per process, 2 troubles; 1.50 million (symmetry) | no stranger is closed; answers are live; a gone image is gone; the cap holds |
| `sequence` | 2 documents, histories of 3 states, 2 steps, 4 edits, 1 act of others; 2.95 million | a reported rollback has happened; the undo hits only its own; the report is true |
| `scene_regions` | 2 documents, 2 versions, 3 calls of which 2 at a time, 1 act of the user, 1 failure; 2.30 million (symmetry) | the cached model is true; reads leave nothing stale; a region answers what was asked |

### Why the bounds are enough

- *Queue.*  The loop looks at one task and the head of the queue.  Three tasks
  give one in service, one shifted next and one behind it, enqueued at any
  moment; the theorems of section 5 remove the bound.
- *Connection.*  Two calls are enough for every race of the flag, the latch and
  the detection, which are shared by all calls; each call brings three scripts,
  and one that checks for late success six.  With one call in flight at a time
  its second attempt and the call that follows it are the interesting case.
- *GIMP session.*  A call begins at most one attempt, so three calls give three
  processes: one stale, one current and one to come, with the callers of each.
  Two calls are enough for the backend: one that searches and one that comes
  meanwhile or after; and for liveness, where each waits for itself or for the
  one before it.  The `open` call is the one that brings an image back.
- *Telemetry.*  Two siblings that start together and run, and what a third has
  left behind, in the outbox or in a claim (`Left`).  `Cap = 0` makes an append
  compact whenever the outbox has a line in it; with three events left
  behind, `BatchSize = 2` gives a drain two batches, of which the second may fail
  when the first has landed, and `MaxEvents = 3` a drain that finds a recorded
  event beside them more than the bound.  One recorded event is enough for the
  races over files, which are between two appends of either process; what several
  events in one memory do to each other is left to the proof.  `MaxMishaps` bounds
  kills, lost answers and failed writes together.  `Files` is large enough that
  a new one is always available.  `SlowWriters` lets a sibling act between the
  open and the write of an append.
- *Module store.*  Two processes, because the code treats all siblings alike and
  every race it handles is between two; an old and a new host, so that the
    published version fits one and not the other; one mishap at any of the
  operations of either, which is every single crash point and every single
  failure of an operation.  A put-back that fails costs no mishap of its own: it
  fails for the reason the rename before it did.  The theorems of
  section 5 hold for any number of processes, versions, abis and mishaps.
- *License.*  One seat is the device's own and the second is the one a race or a
  lost answer may waste.  A third task is needed for a record that is replaced
  while two others await answers.  Nine ids are more than the seats and what
  three tasks can have read or been given, so a new one is always left; this is
  `LicenseAssumption`, and section 5 removes the other bounds.
- *Checkpoints.*  Two image numbers per process: the original and the one a
  restore opens; after a death both are given out again, to strangers.  Two
  documents tell a stranger from one's own; two deaths or failures are what the
  exception `early` takes.
  Caps of 1 and 2 are reached by two calls.  The theorems remove these bounds.
- *Sequence.*  A history of three states is dropped from after two edits; two
  names and two documents are what the verification compares.  Two steps: one
  before and one after a failure, for each of the modes.
- *Scene.*  Two calls at a time meet between any two scripts of each; a third
  comes after both.  The selects that are narrowed are the ones told to refresh,
  and no others: to refresh skips the kept channel, the kept model and the kept
  menu, which narrowing and a changed key do as well, and the theorems take every
  request.  One act of the user and one failure at any point, a channel
  that would not go being one; pixels may also change, and change back, through a
  failed derivation that leaves its layer.  One target: a second one multiplies
  the states beyond what a run can take.  It adds the case in which the methods
  of one target cover the image after the region of another was saved (section
  4).  Of the exceptions of `ReadsLeaveNothingStale`, `stuck` and `offRecord` are
  reached within these bounds, which is to say that the property fails without
  them; `recordedFit` takes two acts of the user, the degraded key two acts and
  two failures, the layer over the image two targets, and the menu that is put in
  place during the check of its predecessor an eager read told to refresh (with
  such requests TLC finds it).
  The theorems of section 5 take any number of targets, calls, acts and failures.
- *Host failures.*  `HostFailures` names what may go wrong for reasons of the
  host.  The value of each run is part of what its property says: with
  `"script"` failures the settle probe itself may fail and the flag is cleared
  (section 4), so the runs for `TimeoutRemembered` leave them out.

### Fairness

- *Queue* (`QueueFairness`): files are written or fail, the kill timer and the
  escalation fire, a child that was sent SIGKILL exits, and a settled run is
  noticed.  Nothing is assumed of a child left alone: a modal dialog in
  Photoshop keeps it for ever, and the timer is what ends it.
- *Connection*: a detection ends and a process probe answers: this is assumed of
  them, by the timeouts they have of their own, and a detection that does not
  end is outside what `EveryCallReturns` says; a call whose await is over goes
  on, and a run that does not end is ended at its timeout - what the fairness of
  the queue gives. Photoshop owes nothing.
- *GIMP session*: the driver's own polls and timers go on (a call's, an
  attempt's, the shutdown's).  GIMP owes nothing, not even its end when killed:
  the code confirms a kill only for a bounded time.  The search that a call
  makes again has no time box, so that it ends is assumed of the file system.
- *License*: a task that awaits something goes on, time passes for a record and
  for the back-off marker, and a server pings again and again: the dispatcher
  calls `refreshIfStale` on every ping.  Strong fairness is assumed of the
  reactivation at boot, which competes with other tasks for the record: a device
  is started again and again, at times when nothing else is under way.
- *Module store*: each process goes on (weak fairness per process), which
  includes that sessions come and go.
- *Telemetry, checkpoints, sequences, scene*: safety only.  Delivery is best
  effort, and what GIMP, Photoshop and their users do is not ours to assume.

Deadlock is checked in `license`, whose tasks can always begin again.  The other
systems may stop: all scripts are answered, all calls have returned and
Photoshop is idle, all processes have ended, or a bound is used up.

### What the properties say

`OneRunAtATime`, `QueueSound` (with `WaitersHaveALoop`), `VerdictsAreHonest`,
`ServesInOrder`, `EveryTaskAnswered` (queue).  The second is the wake-up
argument: a queued task has no watchdog of its own and depends on the loop that
awaits somebody else's run.  The third speaks of the child that exits normally
after it was told to die.

`ConnectionInv` (with `TimeoutRemembered`), `AnswersAreAwaited`,
`EveryCallReturns` (connection).  The first two relate the flag to what
Photoshop really executes, which no variable of the code knows.

`SessionInv`, `NoUnmanagedProcess`, `EndsAreTrue`,
`GenerationsTellProcessesApart`, `FailuresReachSomeone`, `RestartIsTold`,
`KeepsContract` (GIMP session); `BackendInv`, `RefusalsAreReal`,
`BackendAnswers` (backend).
`GenerationsTellProcessesApart` is what the checkpoints rely on before they
close an image by its id: equal generations mean the same process.
`RefusalsAreReal` excepts the calls that came while a search was under way
(section 4); `BackendInv` says that whatever the moment of a shutdown - before
the first call, or during its search - no session is made behind it.

`RecoveredAreDead`, `NoSessionForgotten`, `SummaryInv` (recovery) and
`NothingWrittenIsLost`, `OutboxInv` (outbox).  The exceptions they make
(`exposed`, `doubtful`, `strayed`) are history variables that say exactly when the code
gives no guarantee: a kill between a summary and the removal of its snapshot, a
lost answer, a process that ended while it held a claim, a write through a
handle opened before the file was claimed and used after its claimant had read
it for the last time.

`StoreInv`, `PointerResolves`, `LocatedIsWholeOrPutBack`, `Heals` (module
store). `StoreInv` holds the gate: no session runs a module built for a newer
host, by whatever path it was loaded.  `PointerResolves` says that the version
in the pointer has a tree, or one that a process has just renamed away and is
about to replace or put back; or was taken by a crash or a prune, or by a failed
swap that could not put it back because the rename failed again or a sibling's
prune had reaped the tree set aside (`strays`); or stands where a failed swap
put back what it had set aside (`returned`).  The code promises no more: in
these cases the next boot repairs, which is what `Heals` says.  `Heals` excludes
two processes whose swaps collide for ever.

`LicenseInv`, `NeverRevived`, `VerdictsLand` (license).
`LicenseInv` says that each seat the record does not name was lost for a reason
the history knows, and that a record that calls its activation removed is right.

`CheckpointInv`, `NoStrangerClosed`, `AnswersAreLive` (checkpoints): what the
comments of the restore promise, against a process that numbers its images anew.

`SequenceInv`, `RollbackIsTrue`, `UndoesOnlyItsOwn` (sequences).  `SequenceInv`
has the report: which step is named, how many are said to have run, except for
the message of an exceeded budget (section 4).  `RollbackIsTrue` excepts every
sequence in which a later state got the captured name (`again`), which is more
than those in which it stands at the captured place; and documents are told
apart by their titles, which the run takes to differ.

`SceneInv`, `ReadsLeaveNothingStale`, `AnswersFitTheQuestion` (scene), all for
calls that were not disturbed between their scripts; section 4 lists what
happens to the others, and to those whose own methods disturb the image.
`ReadsLeaveNothingStale` is about every channel of the active document, whoever
saved it and when: one of an earlier session, for which no state is on record,
must be gone after the first read, and so must one that a select saved before any
read.  That an unknown state must not pass for the present one is what its mutant
(`RecordedOrUnknown`) gets wrong.  Its exceptions are listed with it; each is a
way in which the code does answer over a stale channel.  `AnswersFitTheQuestion`
is about calls nobody disturbed between derive and save (`fit`): a call that was,
saves whatever the other has selected.

## 4. Disagreements between the code and what it says

Each can be seen by dropping one exception of a property or changing one
constant; no run of its own is spent on them.

*Connection and session*

- `connection.ts:92` says the next script waits for Photoshop to answer after a
  timeout.  `settleAfterTimeout` reads the flag once, before the script is
  queued (`connection.ts:177`): a second call that passed it before the first
  timed out is handed over without waiting.  With one call at a time the
  sentence holds (`connection_sequential`).
- With `"script" \in HostFailures` the settle probe can fail for a reason that
  says nothing of Photoshop, and `connection.ts:242` clears the flag:
  `TimeoutRemembered` fails.  A failing launch under a check for late success,
  which has cleared the flag itself, does the same.
- `session.ts:383` reserves the generic "session restarted" for a session that
  was ready.  A call queued behind a first start whose ping fails hears it too,
  because `#send` marks the session dead without a cause (`session.ts:1035`)
  before `#startFresh` can name one.
- `backend.ts:49` lets "not installed" be reported once the search that was owed
  has been attempted and missed, and `backend.ts:116` has it "already attempted
  by the time `call()` reaches here".  The flag is dropped when the search
  begins (`backend.ts:148`): a call that comes while it is under way, `prepare`
  included, is told that there is no GIMP, which the search may then find
  (`overtaken`).

*Telemetry*

- `outbox.ts:18` says a reconstructed summary and a clean one can never both be
  sent.  A call that ends after shutdown is still recorded (`client.ts:334`) and
  writes the snapshot again.
- `client.ts:204` says the drop counters are exhaustive.  A batch that a flush is
  awaiting when the process exits after shutdown (`client.ts:603`) is in no
  queue, no file and no counter.
- With `Recycled = TRUE` a startup whose process was given the pid of a dead one
  overwrites or clears that one's snapshot when a name clash (`outbox.ts:609`)
  has left it in place: `NoSessionForgotten` fails.
- Without `strayed`, `NothingWrittenIsLost` fails: an append through a handle
  that was opened before a claim, and written after its tail was read, goes to
  a file about to be deleted (`outbox.ts:394`).  Without the claims in
  `doubtful` (`LeftHalfDone`), `OutboxInv` fails: a process that exits while its
  drain is sending leaves a claim whose first batches landed.

*Module store*

- The prune (`store.ts:360`) removes the directory of a version a running session
  still uses, and one a sibling has just made the pointer name (`strays`).
- A tree that a sibling's failed swap has put back damaged can be adopted as
  regenerated (`store.ts:694`; `returned`).
- The prune tells a leftover of a crash by its age (`store.ts:402`), but the tree a
  sibling has just set aside is as old as its installation.  If that sibling's
  rename then fails there is nothing to put back, and the pointer names a version
  that is not there (`strays`); so it does if the put-back fails (`:338`, `:700`).
- The downgrade guard is evaluated before the download (`provision.ts:200`), and
  the pointer is read twice during a boot (`module-lifecycle.ts:239`); the abi
  gate holds even so.

*Checkpoints*

- A create whose ping fails because the process has died reserves with the new
  generation (`gimp-checkpoint-tools.ts:545`): it may export an unrelated image
  that has been given the same number;
  and if the new process gives the number out only after a list has looked, the
  record is marked gone although its image is open, and is left out of the
  scoped list and of the cap (`early`).
- The cap per image can be exceeded when a restore re-points siblings to the
  image it opened; only the total cap is an invariant.
- Two restores of one record at once both open an image; one of them stays open.

*Sequences*

- `sequence-tools.ts:87` says the rollback verifies that the document landed
  where it began ("index, state name, and active document all re-checked").
  When the history drops its oldest state all states shift by one, so a later
  state of the same name can stand at the captured place (`again`): the document
  is reported as restored although an edit of the sequence is still in it.
- A switch of the active document by another call between the read of the history
  and `ps_undo` makes the undo hit another document, and two documents with one
  title defeat the comparison of titles.
- With `on_error=continue`, an earlier failure and the time budget used up, the
  message names the failed step as the one that could not run, though it ran.

*Scene and saved regions*

- `scene-model.ts:182` says the one-slot cache "always stays correct - never
  stale".  The histogram is read by a later script than the export the key is
  made from; documents or pixels that change in between leave a model under a
  key it does not belong to (`calm`).
- The comment of `invalidateSceneChannelsIfStale` says that the state is recorded
  "only after the purge actually lands" (`region-precompute.ts:119`).  The script
  of the purge passes over a channel whose `remove()` throws and answers all the
  same (`:307`), and the count it returns is not looked at: the state is recorded
  with the old channel in place, and every later read trusts it (`stuck`).
- A save that could not remove the old channel of its name leaves two
  (`region-precompute.ts:343`), and a load takes the first of them.
- A read that finds the pixels it has on record does not purge.  A mask saved at
  other pixels while that record stood - the user edits, selects, and brings the
  pixels back - is served again with confidence 1 (`offRecord`).
- An eager read at pixels whose menu is kept returns after a look at whether its
  channels exist, or without a script if it has none (`region-precompute.ts:386`,
  `:525`).  It does not compare the state on record: if another read has recorded
  another state since, masks saved meanwhile at other pixels survive it
  (`unsure`, by `OnTrust`).
- The key of an export whose context is degraded names no document
  (`pixel-identity.ts:59`, `:99`).  `samePixelIdentity` never accepts it, but
  `channelsDocState` and `lastPrecomputedKey` are compared as strings: two such
  reads of two documents with the same pixels take the channels of one for those
  of the other (`unsure`).
- The purge, the save and the load work on the document active at that moment,
  the record on the one that was exported (`recordedFit`).
- `precomputeRegions` checks the channels of the menu it finds
  (`region-precompute.ts:520`) and returns the menu that is kept when the check
  has been answered (`:525`).  That may be the menu another call has kept
  meanwhile, for another document, whose channels nobody has looked for here.
- `thresholdSkyScript` is described as non-destructive; when its wand fails the
  adjustment layer stays (`select-recipes.ts:397`), and later methods and reads
  see the image through it.  An eager read to which this happens has saved some
  regions before the layer came and derives the others from what is seen
  through it, and keeps one menu for both under the key of the pixels it began
    with (`region-precompute.ts:586`; `covered`).  This and the preceding point came
  up in the proof of `NothingStaleIsLeft`; both take two targets, which the run
  does not have.
- A save with nothing selected fails after it has added a channel
  (`region-precompute.ts:345`), which keeps its default name.

## 5. The proofs

The first part of `PhotoshopConnectionProofs` is about the queue, and assumes
nothing of `Tasks`: any set, infinite ones included.

The safety invariants are not inductive.  To show that a task shifted from the
queue starts a first run one must know that a queued task is idle and queued
once; to show that an answer is honest one must know where verdicts come from.
`QueueInv` therefore adds to `QueueTypeOK`, `OneRunAtATime` and
`WaitersHaveALoop`:

- `QueuedOnce`, `QueuedArePending`: no task is twice in the queue, and each has
  an idle run and a pending promise;
- `UnsentAreIdle`: what was not enqueued has no run;
- `OutcomesAreHonest`: a run has an outcome when its child is gone, and "ok"
  only if nobody asked for its end;
- `VerdictsAreOutcomes`: a verdict other than the watchdog's is the outcome of a
  settled run.

There is one lemma per action (`EnqueueKeepsInv`, `WatchdogKeepsInv`,
`ChildStepKeepsInv`, `RunSettlesKeepsInv`); `RunStepEffect` says once what all
steps of a child have in common.  From `QueueSafety == QueueSpec => []QueueInv`
follow `QueueTypes`, `ScriptsAreSerial`, `NoLostWakeUp`, `QueueIsSound`, `HonestVerdicts`,
`FinalVerdicts` (what a caller has been told never changes), and the refinement
`QueueServesInOrder == QueueSpec =>
ServesInOrder`: `LineNow` and `LineNext` say what the mapped line is (the task
in service is unique, so the `CHOOSE` of the mapping is determined), and
`StepOfTheLine` that every step arrives, answers the head, leaves, or stutters.

The first part of `TelemetryProofs` assumes `SessionAssumption`: a finite
set of pids (summaries are counted with `Cardinality`), any bounds.

- `RecoverySafety`: `Types`, `Numbered` (sessions are numbered apart) and
  `RunningAtHome` (the snapshot of a running session is under its own name)
  always hold, and give `LiveSessionsAreLeftAlone`, that is `RecoveredAreDead`,
  recycled pids included: what is taken belongs to a process seen not running.
- `NoSessionIsForgotten`, assuming `~Recycled`.  `MemoryInv` adds that a name
  holds no other process's snapshot (`OwnName`), that a snapshot at home is of a
  session that recorded a call (`CalledFirst`), that whoever clears its name has
  written its summary or has nothing there (`ClearsSummarised`), and that what a
  startup is about to delete has been reported (`ClaimsAreOwn`,
  `DeletesReported`).  The assumption is needed: see section 4.
- `NoSessionIsReportedTwice` (`SummaryInv`), recycled pids included.  `ReportInv`
  adds that a session has one snapshot, whoever claims it (`OneCopy`); that what
  a startup has reported is a session of a process that is gone
  (`RebuiltAreGone`), whose snapshot, unless a kill came in between, is in the
  hands of a startup that is about to delete it (`RebuiltAreReleased`); and that
  a process that has sent its own summary is about to clear the snapshot
  (`CleanAreCleared`).  Between the report and the removal a summary is out and
  its snapshot still there; the last two say who will remove it.

The second part, about the outbox, assumes `OutboxAssumption`: any processes,
events and files, infinite ones included, any batch size, caps and number of
mishaps, and any events left behind, none of them twice.  Both properties of the
run are proved, `NothingIsLost` (`NothingWrittenIsLost`) and
`NothingIsSentTwice` (`OutboxInv`), in three layers, each inductive given the
one below:

- `Shape` (theorem `OutboxShape`): the types; what the memory of a process holds
  at each point of its code (`Phase`); one outbox and empty deleted files
  (`Disk`); and `Holds`: the claims a process works on carry its name, the one it
  compacts is none of those it drains, each is in one of the stages `claimed`,
  `consumed`, `carried`, no mark is beyond the end of its file, and a file opened
  to be written to is not its own claim.
- `LossInv`: every written event is settled (sent, forgone or strayed), or in a
  file that nobody is about to delete (`Shows`), or about to be dropped and
  counted (`Dropping`).  For this to survive the deletion of a claim one must know
  what its owner carries of it (`Carries`): up to the mark, what was read is in
  `unsent` or settled; while what is left is handed back, all of a claim read to
  its end is in the batch of the append under way or settled; and of the file a
  compaction has seized, all behind the mark is kept or strayed.  A sibling may
  append to a claim at any time, but before its last reading that is behind the
  mark, and after it the append strays: the frame `LossFrame` is what all steps
  leave to the others.
- `OnceInv`: an event not in doubt is in one file and one memory at most, once in
  each (`OnceOnDisk`, `OnceInMemory`), where files about to be deleted do not
  count, since their lines have been written again; it is in both only while an
  append writes back what was read of that file (`Apart`); and once it was sent it
  is in no memory, and in no file but a claim whose drain has sent it and will
  not read it again (`SentOnce`, `SentFrom`).  The converse of `Carries` is part
  of it (`Reads`): what a drain has not delivered is in its claims, which is how
  one process's memory excludes another's, because a file has one holder.  A
  process that ends takes its memory of what was sent with it, and at that moment
  the events of its claims come into doubt; that is the exception of the property,
  and the proof needs no other.

Each layer has one lemma for each action, over what the action does to the
memory of its process (the lemmas `...Effect`); `ShapeFromStep`, `LossFromStep`
and `OnceFromStep` say what a step of one process must show for the whole to
hold.  The sequences are cut and joined by lemmas of their own (`CutOfJoin`: a
mark is a mark still when the file has grown).

`LicenseProofs` assumes `LicenseAssumption`: finitely many tasks, and more names
for activations than the seats and two for each task.  Any number of seats and
of lost requests and answers.  `SeatsAreAccountedFor` (that is `LicenseInv`) and
`VerdictsReviveNothing` (`NeverRevived`) follow from an invariant that says of
each task

- `Fits`: what it knows belongs to where it stands - a verdict is there until it
  has been judged, a new activation until it is recorded;
- `IsNews`: an activation on its way to it is known to no other task and is not
  in the record, so recording it cannot name a seat someone else gave up;
- `LeavesNone`: if it was told that its activation is gone, that is so; and if it
  is about to replace or remove the record, the seat it has read is free, or lost
  for a known reason, or the record is no longer the one it has read.  Without
  this, `OrphansHaveACause` says nothing of the moment the record is overwritten.

`NewIdFacts` counts: a fresh name is left whenever the service has a free seat.
`OthersStay` carries the invariant of the tasks that a step does not move.

`ModuleStoreProofs` assumes `StoreAssumption`, which bounds neither processes,
versions, abis nor mishaps.  `StoreIsRight` (`StoreInv`), `PointerHolds`
(`PointerResolves`) and `LocatedIsGood` (`LocatedIsWholeOrPutBack`) follow from

- `Busy`, `Aims`: synchronous code runs for an installation or for a boot and
  never for both, on a known version, and a boot that loads found a pointer;
- `GateHolds`: a session with nothing skipped runs what fits its host;
- `BareIsKnown`: a tree without a manifest was left by a prune or put back, by a
  swap whose tree a sibling had begun to reap, for example;
- `PointerLeads`, `FlipLeads`: the version the pointer names, or that an
  installation is about to make it name, leads to a tree, or its history
  says why not.  The second is what the order of the code (rename first, pointer
  last) is for, and covers the removal of the old tree between the two;
- `SwapsGood`: what a boot finds in the place of the tree it has set aside is
  good, or its history says why not.

`ProcessStep` reduces each action to the process that takes it, `StillSwapping`
and `DiskStays` say what a step leaves to the others.

`GimpCheckpointsProofs` assumes `CheckpointAssumption`: finitely many calls and
ids, and enough ids that a fresh one is left while the registry is not full.
`RegistryIsRight` (that is `CheckpointInv`), `ClosesNoStranger`
(`NoStrangerClosed`) and `AnswersLive` (`AnswersAreLive`) follow from `IInv`:

- `Shows`: a settled record of this process names an image that shows, if it is
  open, the document the checkpoint was taken of.  This is what makes a close by
  number safe, and what the re-pointing of siblings must keep;
- `Closes`: the same of the image a restore is about to close and of the one it
  has opened, which the record does not name yet;
- `Exports`: while a create awaits its export its record may be re-pointed, but
  only once the image to be exported has been closed, so that the export fails;
- `Holds`, `Apart`: a restore or delete works on a settled record, a create on a
  pending one of its own; so the end of one call cannot settle another's record;
- `Names`, `Unopened`: registered images were given out, but for the `early`
  ones, and numbers still to come show nothing;
- `Lined`: no call is twice in the line.

`CallStep`, `RecordStep` and `KnownStep` say once what a step leaves as it is;
each action then needs an argument only for the record and the call it changes.
`Sound` is what a restore asks of the records it has re-pointed or marked, and
`DescribeStep` the end of every restore that succeeds.

`SequenceProofs` assumes `SequenceAssumption` (a history may be as long as edits
are numbered) and, for two of its three theorems, `TitlesDiffer`: no two open
documents have the same title.  Any documents, names, lengths of histories,
steps, edits and acts of others.  `ReportsHold` (`SequenceInv`),
`RollbacksHappen` (`RollbackIsTrue`) and `UndosStayInside` (`UndoesOnlyItsOwn`)
follow from

- `Numbered`: in a history a later state was made by a later edit, whatever has
  been undone, rewritten or dropped;
- `NotOlder`: in the document of the start nothing at the captured place or later
  is older than the captured state - a history drops its oldest states, so states
  move towards the front and never the other way;
- `NameTells`: unless the captured name came again, nothing newer has it.  With
  `NotOlder` this is why index and name together tell the captured state;
- `UndoAims`: when an undisturbed undo is about to be executed the cursor is as
  far from the captured place as was computed, because nothing is pending then;
- `FailsFirst`, `SkipsLast`, `EndsRight`: what the entries look like in the loop
  and after it.

The second part of `PhotoshopConnectionProofs` assumes `CallsAssumption`
(finitely many calls; counted when one at a time may be in flight) and
`HostIsKind`: no script is lost before Photoshop sees it, and a launch does not
fail where a tool checks for late success.  Without it the statements are false,
in the code as in the model: a probe whose child could not be spawned drops the
flag (`connection.ts:233` takes only a timeout for silence), and a check that
fails to launch leaves it dropped.  `TimeoutsAreRemembered` (`ConnectionInv`,
any number of calls at once) and `ScriptsWaitTheirTurn` (`AnswersAreAwaited`,
one call at a time) follow from

- `LineOK`: no script is in the line twice, and only the one in service may have
  been answered;
- `OwnAwaited`: a script that has come and has no answer is awaited by its call;
- `AnswersTell`: whoever is told anything but a timeout, and has not gone on yet,
  finds Photoshop idle and no killed child in the line.  It holds because such an
  answer takes Photoshop's reply, or its absence, and because the microtasks run
  before anything else may happen; it is why dropping the flag is safe;
- `Remembered`: while a script may go on after its answer, the flag is set, or
  its call is about to set it, or a check for late success is under way, whose own
  end will.  `TimeoutRemembered` alone is not inductive: it says nothing while
  calls are in flight;
- `OneCall`, `OneLive`: with one call at a time one own script at most is in the
  line and in Photoshop together.

`GoesOn` is what six actions have in common, `EndingKeeps` the ends of a call.

`GimpSessionProofs` assumes `CallsAssumption` (finitely many
calls; start attempts are counted against them) and `PingAssumption` (the ping
of a start is not one of the calls).  All safety properties of the run
`gimp_session` are proved of it for any number of calls, and so of starts,
processes and directories: `AnswersGoHome` (`SessionInv`),
`EveryProcessIsManaged` (`NoUnmanagedProcess`), `AGenerationIsAProcess`
(`GenerationsTellProcessesApart`), `NoFailureIsLost` (`FailuresReachSomeone`),
`LostImagesAreAnnounced` (`RestartIsTold`), `DeathsAreReal` (`EndsAreTrue`), and
the refinement `ContractIsKept` (`KeepsContract`).  They follow from one
invariant, whose parts need one another:

- `QueueOK`, `TurnOK`: no call is twice in the queue and only the first has got
  further than waiting for its turn; a call that is sending does so to the
  process that is current, and no attempt is under way;
- `PhaseOK`, `CountOK`: which session states go with which stage of an attempt and
  of the shutdown; a death is that of an attempt, an attempt that of a call, so
  the numbers of the model do not run out;
- `ProcOK`: processes are spawned in order, and one that must be killed has been.
  `NoUnmanagedProcess` alone does not tell that a process about to be replaced
  was killed before the next attempt overwrites the reference to it;
- `FileOK`: requests and responses lie in the current directory, and a process
  that could not be spawned has written none, so an attempt that died of that
  finds no ready file and cannot succeed;
- `TicketOK`: a request or response with the ticket of a sender is from that
  sender: within a directory ids go up, and a new process has a new directory;
- `GenOK`: the queue is in the order of generations, and while a session comes up
  or is in use all that wait are of its generation (`AllNow`).  This is why a call
  issued before a death is refused before a call of the next generation can
  start a process, and so why equal generations mean one process;
- `FailOK`: while an attempt is under way nothing unobserved is kept, so the next
  failure overwrites none;
- `NoticeOK`: the restart notice is kept until a call of the current process was
  told, and what is kept for later is never a plain "no open image".

`ReturnKeeps` says once what every way a call returns has in common; the step of
each action then needs an argument only for the notice and the message.

The backend rests on this: every step of it is a step of the session or leaves
the session alone, so `BackendUsesTheSession` carries the invariant over, and
all theorems about the session hold behind the backend.  `NoRushedAnswer`
(`RefusalsAreReal`) and `ClosedIsClosed` (`BackendInv`) need two parts more:

- `LinkOK`: a session that was not made has done nothing, it is being shut down
  if and only if the backend is closed and has made it, and it has been given
  exactly the calls the backend has passed on;
- `SearchOK`: while a search is owed nobody searches; when none is owed any more
  and there is a GIMP that is not known, somebody is searching.

`SceneRegionsProofs` assumes `SceneAssumption` and `RequestAssumption`: any
documents, targets, calls, acts of the user and failures.  `TheCacheIsTrue`
(`SceneInv`), `RegionsAreWhatTheyAreNamed` (`AnswersFitTheQuestion`) and, for
documents of different names or sizes (`NamesDiffer`), `NothingStaleIsLeft`
(`ReadsLeaveNothingStale`) follow from `CallsKnow`, which says what a call that
nobody has disturbed may rely on after the answer it had from Photoshop has
become old:

- `KeyFits`: until the call begins to change the document, its key is of the very
  state of the active one - by name, or by its pixels alone - if it has one at all;
- `SaveFits`: when it is about to save, what is selected is the region it has
  derived for the name it will save it under, in the pixels the document has;
- `WipeFits`: once an eager read has wiped the channels, those it has saved are
  there, and any other than of the document's pixels would not go or was left
  behind by its own methods.

`OthersKnow` says once that a step which touches nothing leaves all others what
they know, and one that touches something leaves nobody undisturbed;
`DeletionTouches` and `ChannelSaved` what becomes of the channels when some of
them stay.
`NothingStaleIsLeft` needs `RecordOK` besides: while a state is on record that was
recorded with its own document active, every channel in the document of that name
is of the recorded pixels, or was saved off the record, or would not go
(`OnRecord`).  It begins when the channels are deleted (`RecordedAfresh`) and
holds for those of earlier sessions too, since these are there only until then.
This is what `NamesDiffer` is for: with two documents of one name the record of
one passes for that of the other.

Only model-checked is liveness: `EveryTaskAnswered`, `EveryCallReturns`,
`BackendAnswers`, `Heals` and `VerdictsLand`.  The prover at hand has no rule for
fairness and none for `ENABLED`.
All invariants and action properties of the runs are proved.

## 6. What is not modelled

Every component is in `PROJECT.json` with its status and the reason.  Within
the modelled ones the following is abstracted or left out:

- contents of scripts, events, summaries and responses; paths, names and
  wording, except where a message decides what the code does next (a timeout
  message sets the flag, a sticky failure forbids new starts);
- the macOS runner's transport: it uses the same queue and child runner;
- `everReachedPhotoshop` of the connection, a sticky flag that only the version
  probe reads; `getVersion`, `isCurrentlyRunning` and the macOS permission
  check, which change no state the calls share;
- clocks: a timer may fire at any time after it was armed.  What depends on how
  long something takes relative to something else is left to the tool budget;
- corrupt files, unreadable claims and the snapshot file of old versions in the
  outbox; the in-memory bound of the event queue, which a full batch never
  reaches; the content filter and its count;
- in the module store: network and cryptography (a download is good, bad or
  fails), staging directories that are being filled, entitlement (every process
  is entitled);
- in the license: retries inside one request, the end date of a subscription
  (a revocation), the high-water mark against a clock set back, other keys;
- of checkpoints: the directory of files and its sweep at exit; of sequences:
  snapshots in the history, closed documents, the clock (the budget may run out
  before any step);
- of the scene: what the methods compute from pixels, the Pro methods and the
  advertised face menu, collisions of hashes, annotations; the scripts of one
  derivation are one step.

Not modelled at all, and why: the update check and the settings (small files
read at boot), the session log and templates (append-only output), the tool
registry (static tables), the server's boot order and the tool budget
(planned below); the tools, the ExtendScript library, the GIMP operations,
detection and the Go core are validation of arguments and transformation of
data, without state that two actors share.

## 7. The plan

Done are the parts above.  Next, in order of importance:

1. **Tool budget** (`ToolBudget`): a discrete clock over the script queue.  The
   remaining time is computed when a script is requested and the queue's timers
   start when it executes; how far can a call outlive its deadline?
2. **Server**: boot order, probe latches and the two shutdown paths over the
   parts; the session log, whose appends may overtake one another.
