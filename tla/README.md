# Inspector Hook: a verification project

TLA+ modules, TLC configurations and TLAPS proofs about Inspector Hook: a local
Node process (`src/packages/core`) that receives the hook events of Claude Code,
keeps records of sessions, tool executions and file changes in JSON files, and
serves a VS Code extension (`src/packages/vscode`) over JSON-RPC. Paths below are
relative to `src/packages/core/src/` unless they start otherwise.

To repeat everything:

    tlc -workers 2 -config SessionStore.cfg MCSessionStore.tla   # likewise the others
    tlc -workers 2 -config Parts.cfg MCParts.tla                 # ten modules in one run
    tlapm SessionStoreProofs.tla                                 # likewise *Proofs.tla

## 1. The system

One core is one JavaScript thread: a handler runs without interruption up to its
next `await`. What is hard here is therefore not shared memory but what happens
*across* an await (a file operation, a health probe), between two transports that
deliver the same hook, between several core processes on one machine, and at a
crash between two writes.

| Component (files) | State | Operations | Talks to | What makes it hard | What makes it correct |
|---|---|---|---|---|---|
| Session store (`managers/session-manager.ts`, `persistence/store.ts`) | resident records, known ids, dirty ids, debounce timer, write chain, session files | track, amend, sweep, lookup, delete, clear, flush, load, eviction | HTTP server, IPC, file system | write-behind: marks cleared before writes, awaited lookups, deletes racing saves, failed writes | no accepted event is lost, deletions are final, flush saves all, everything dirty gets written |
| Tool executions and session life cycle (`managers/tool-executions.ts`, `session-manager.ts`) | a session's status, end time, executions | start, complete, reap, idle and completed sweeps, terminate | fed by every hook delivery | duplicated, reordered, lost deliveries; late completions after the reaper | outcomes are final, belong to their own call, nothing stays running |
| Port discovery (`server/http-server.ts` start/stop, `cli.ts`) | sockets per process, the port file, the reclaim interval | scan, claim, probe, reclaim, release, kill | other cores, hook scripts, the OS | several processes, check-then-act on a file, stale probes | hooks always find a running core; nobody destroys another's claim |
| File changes and archive (`managers/file-tracker.ts`) | captures, changes, archive, newest version, their files; the workspace file itself | capture, track, keep, revert, hunk keep/revert, edit, delete, restore, load | hooks, panel, the agent's edits | each handler awaits file operations; double delivery; partial failure; crash | no change is lost, statuses tell the truth, history ends with the file |
| Version history (`file-tracker.ts` addVersion, version files) | numbered versions per file, the history file, one content file per version | add with dedupe and trim, delete one, delete all, read by number | file changes | awaits between the history and its contents; contents that outlive their entry; a history begun anew | a number names one content for as long as the history lives |
| Log store (`managers/log-manager.ts`, log files of `store.ts`) | log in memory, delivery table, live and rotated files | add with dedupe, load, clear, filter, rotate | HTTP server, IPC | bounded window and table; files rewritten between two awaits; torn lines | one record per firing; nothing appended is lost; what was cleared stays away |
| Hook ingestion (`server/http-server.ts`, `hook-payload.ts`, `redaction.ts`, `rate-limiter.ts`) | counters | parse, redact, rate-limit, dispatch | all managers | two payload formats | a firing means the same by both transports |
| Retention and digests (`store.ts` cleanup, `core.ts` collapseSession, `memory/session-digest.ts`) | digest and session files | prune, collapse, delete by age | log store, session store, archive | one long asynchronous call beside everything else | a digest exists before its session is deleted; active sessions stay |
| VS Code bridge (`vscode/src/core-bridge.ts`) | child process, request table, timers, output buffer | start, call, timeout, stop, exit | core over stdio | timers that outlive a process, table cleared under waiters | every request settles; a timer never stops another process |
| Context stores (`context/*.ts`, `memory/staged-context.ts`) and the hooks that read them | tray, armed, pinned and staged files | read-modify-write with rename; read, remove, print | panel, IPC, hook scripts | one temporary name, no lock; several hook processes | serial requests are all kept; a one-shot payload is spent once printed |
| Research index (`research/*.ts`) | items, postings, vectors, dirty flag, snapshot file | ingest, trim, embed, search, save, load, backfill | log store | marks taken after an await; two derived structures | postings are those of the items; clean means saved |
| Agent tracker (`managers/agent-tracker.ts`, `agent-parentage.ts`) | agents, links from ids to records | spawn, acknowledge, start, tool, stop, evict, replay, tree | log store | two halves without a common key, in any order | one record per agent; a stop is final; nobody is missing from a tree |
| Activity feed (`ipc/ipc-server.ts` getActivity, `media/scripts/shared/activity-merge.js`) | none; the webview's items and cursor | assemble the newest logs, cut by a cursor, merge | log store, webview | instants shared by events; completions of old items | increments add up to the full answer |
| Session pane (`media/scripts/views/sessions*`) | selection, tab, four slices, what is drawn | select, switch, poll, receive | panel | answers that name no session | what is drawn is of the session selected |
| Panel link (`vscode/src/panel.ts`, `api/inbound-*.js`) | message queue, fetch, the webview's list | open, ready, refresh, notify, dispose | bridge, webview | queued notifications against a fetch that contains them or not | the list settles on the core's |
| Diff engine, quality scanner, skills, project identity, migrations, MCP server, transcript reader, native memory | none or read-only | pure functions, listings, parsers | | | |

### Interactions

    hook scripts / native HTTP hook --(port file, canonical port)--> HttpServer
    HttpServer --addLog--> LogManager, then trackActivity --> SessionManager
               --capture / track--> FileTracker --> workspace file, versions, archive
    SessionManager, FileTracker --> PersistenceStore (temporary file, rename)
               --log entries--> AgentTracker, ResearchIndex
    a timer and load() --> enforceRetention --> logs, cleanup (collapse, delete, archive)
    IPC server --> tray; armed, pinned and staged files --> context hooks --> prompt
    VS Code panel --CoreBridge (JSON-RPC, stdio)--> IPC server --> managers
    managers --notifications--> CoreBridge --> panel (queue) --> webview

## 2. Modules

| Module | Models | Composes |
|---|---|---|
| `SessionStore` | the write-behind cache over the session files | `DurableLedger` (refined) |
| `DurableLedger` | abstract: events recorded, a growing part of them durable | |
| `ToolLifecycle` | one session: status and tool executions under two transports | |
| `HookPort` | several cores: ports, port file, claim, reclaim, release | |
| `FileChanges` | one workspace file: changes, archive, captures, newest version | |
| `CoreBridge` | the extension's end of the pipe: processes, requests, timers | |
| `LogStore` | one log: memory, delivery table, live and rotated files, clears | |
| `VersionHistory` | the numbered versions of one file | |
| `AgentTracker` | the agents of one session, linked from two halves, and replayed | |
| `Retention` | the sweep against events, saves, failures and crashes | |
| `ContextTray` | the tray file under several requests | |
| `ContextDelivery` | staged, armed and pinned payloads, and hook processes | |
| `ResearchIndex` | items, postings, background embedding, snapshot file | |
| `ActivityFeed` | hooks, log, `sessions.getActivity`, and the webview's merge | |
| `SessionPane` | the detail pane and the answers it is drawn from | |
| `PanelLink` | the list of pending changes from the core to the webview | |
| `Parts` | one instance of each of the ten modules above | all ten |
| `Arrays` | `Array.prototype.filter`, as a recursive function that can be proved about | used by `LogStore`, `VersionHistory`, `ContextTray` |
| `MC*` | constants and symmetry for TLC (`CoreBridge` has numbers only and needs none) | each extends one module |
| `*Proofs` | theorems; `PartsRecordProofs` (logs, versions, tray), `PartsContextProofs` (retention, deliveries, index, agents, pane) and `PartsPanelProofs` (feed, list) are about `Parts` | each extends one module and TLAPS |

`Parts` chooses one of its ten instances at the start (`part`) and keeps to it.
The instances share nothing but the variable slots `v1` to `v15` (variables of one
name and kind in two modules have the same slot), so its state space is the sum of the ten, not their product, and a property
`part = "X" => X!P` says of instance X what `P` says of the module.

### SessionStore

`sessions`, `knownSessionIds`, `dirtySessionIds`, `persistTimer` and `writeChain`
are the fields of `SessionManager`; `saving`/`payload` is the one `saveJSON` in
flight, `loads` the `loadJSON` a `getSession` awaits, `unlinking` the `deleteJSON`
of a delete or clear, `clearing` the rest of a clear's loop, `phase`/`awaited` the
two awaits of `flush`. A record is the set of events it holds and the newest that
set its activity time; events are numbered in arrival order. `saveJSON` writes a
temporary file and renames it, so it takes effect in one step (`SaveLands`) or not
at all (`SaveFails`, which drops the rest of the batch as the `for` loop's throw
does). An action is one synchronous stretch: `TrackActivity` includes the read-back
of an evicted record, the mark, the timer and the registration; `LookupInstall`
includes the eviction that follows it.

Four windows in which the code can lose a change are known and named; the history
variable `exposed` collects the sessions that went through one: a failed save
(with what stood behind it in its batch), an eviction of a record whose write is
still queued, a lookup that installs an outdated document, and a deletion that a
write in flight overtakes. The invariants say that there are no others. Two of
the windows contradict the code's own comments (see section 5).

### ToolLifecycle

`Track(f)` is `trackActivity` for one delivery: it finds or reactivates the
session, matches the completion as `findRunningExecution` does (exact among
running, exact among given-up ones, then the first running one of the tool), and
sets the activity time. Firings and deliveries are separate: a firing puts one
delivery per transport on `wire`, taken off in any order and at any later time. A
lost delivery is one that stays. The sweep is two steps (`SweepBegins`,
`SweepAges`), because `checkStaleSessions` awaits between taking the clock and
judging the status. The record is taken as durable here; what survives is the
subject of `SessionStore`. The history variable `stray` holds calls whose completion
was tracked a second time or before its start.

The sessions map holds a part of the stored sessions only. `resident` says whether
this one is in it: `load` takes the newest within 32 MB and 200 records and reconciles
only those (`Restart`, which reaps with age zero), a lookup of another session may
evict it (`Evicts`; in the code the one that was quiet for longest, here any), a
delivery or a lookup of its own reads it back (`Track`, `LooksUp`). Both halves of the
sweep visit what is resident, and `terminateSession` finds nothing else. What the
sweeps promise, they promise of a session that stays resident: a call that ran, or a
session that was live, when its record left the map stays so in its file until
something reads it back, which nothing promises.

### HookPort

Each core process runs `main`: scan for a port, claim the file (forced, or after a
300 ms probe of whoever it names), capture the port, arm the reclaim interval, and
at shutdown close, then release. `listen()` on an address literal completes within
the turn of the event loop that called it, so bind and the close that follows it
in `tryReclaim` are not interleaved with the same process, only with others;
`ReclaimBinds` and `ReclaimCloses` are separate because others see the moment
between. The reclaim interval is 5 s and the probe 300 ms, so a reclaim comes after
the startup claim. The pointer file may initially be left by an earlier process,
and a foreign program may hold the canonical port.

A process run with `--mcp` (`Mcp`) starts a core like any other: it binds a port,
answers probes, arms the reclaim and moves. But `main` returns before the claim, the
callback for a move and the signal handlers (`ServesMcp`), so that it never writes the
file and a signal ends it at once (`Signalled`).

Any other core is stopped in one of two ways. A signal (`stopping`) closes the sockets
and then releases the pointer; `core.shutdown` over the pipe (`draining`), which is how
the extension stops its core, only closes them, and unless the bridge's signal comes
in time the process ends by itself when nothing keeps it alive (`drained`), without a
look at the pointer file. A core that is killed (`Crash`) does neither. Whoever ends
forgets what it held in memory (`Forgets`); the file keeps what was written.

A core that moved to the canonical port compares the file with the port it
*started* on when it releases (`cli.ts:210`), so after a move it leaves a pointer
to a closed port, contrary to the aim stated at `cli.ts:209`.
`PointerGoesWithItsCore` exempts `moved` cores for this reason; the next core to
start probes the dead pointer and replaces it. A claim that finds an `--mcp` core
alive at the port in the file (an earlier process left it there) lets the file be, and
when that core moves nobody corrects it: `StartsLeaveLivePointer` exempts `--mcp` cores
that moved. It says nothing while only `--mcp` cores run, who claim nothing.

### FileChanges

One workspace file in one session. A content is the set of regions in which the
file differs from its first form; a hunk of a diff is then one region. A task is a
handler under way with the await it stands at (`read`, `check`, `write`,
`version`, `save`, `archive`, `unlink`). File operations take effect in the step
that waits for them; a failing one (`Fails`) leaves the file as it was and throws,
except that a version that could not be stored does not stop a revert or a
restore. `TrackReads` reads the file at its completing step. `addVersion` changes
the history in memory at once and awaits two files; the history file holds the
newest version at the time it lands. `CheckReads` is the guard of `resolveHunk`:
the hunk's lines were computed before the await, so if the change's content moved
meanwhile the splice may yield any content. A delivery may be repeated by the
second transport (`MaxRepeats`), may be late, or stays on the wire for ever.

Three history variables name what excuses a property: `torn` (handlers of one
change overlapped, or one of its file operations failed), `stale` (a delivery was
tracked against a capture or version that was outdated when the file had been
read) and `crashed`. `NothingLost` and `RevertedMeansRewritten` have no excuse.

### CoreBridge

One `CoreBridge` object of the extension and the processes it spawns. The n-th
`start()` spawns process n; `process`, `reader`, `running`, `requestId`, `pending`
are the object's fields, `startTimers` and `promise` belong to the calls of
`start()`, `inbox` and `output` are the two directions of each pipe, `exits` the
exit events not yet delivered. Time is abstract: a timer may fire at any moment
after it was armed, and timers of one duration fire in the order in which they
were armed. `Request` is `sendRequest`, used by `Send` (any public method) and by
`Deactivate` (the `core.shutdown` of `stop()`); `TearDown` is what `stop()` does
once it has waited for that answer, and what the ten second timer does at once.
Nothing in the bridge asks *which* process an event belongs to, so the model lets
exit events and lines of earlier processes arrive at any later time.

`deactivate()` starts `stop()` and returns nothing that the host could wait for. So
the host may end at any moment after it (`HostEnds`), and with it the suspended
`stop()`, the timers and the readers of the pipes. A core that was not signalled by
then is `LeftBehind`: it may go on, or end when it next writes to the broken pipe
(`CoreUnheard`). What the liveness properties say of callers and cores holds for a
host that lives for as long as they need.

The request table survives this because ids are never used twice (`AnswersMatch`).
Not asserted, since the code does not provide it: that `isRunning()` is right (the
exit event of an earlier process clears `running`, and a ready line that is read
after its process has exited sets it); that the timer of one `start()` leaves the
core of a later one alone; that a call which `stop()` dropped from the table is
ever settled (its timeout looks its id up in the cleared table, so `fate` stays
`dropped`); that each of two overlapping `start()` calls is settled (`crowded`).

### LogStore

One log. `entryOf` numbers the records in the order in which `addLog` accepted
them; `logs` is the array in memory, `live` and `rotated` the files, a file being
the sequence of the records on its lines (0 for a torn line, which makes
`loadLogs` give up the file). An append is a call under way with the await it
stands at: the size check (`AppendChecks`), the listing of the directory (`Lists`),
the unlink of each file too many (`Unlinks`), the rename (`Renames`) and `appendFile`
(`Appends`); so is a clear or a retention round (`sweep`: read, then replace, or
truncate). Two rotations overlap like any two appends: they list the same files, the
one finds unlinked what it was to unlink (`rotateLog` throws, and the append goes on),
or the live file gone which the other renamed; and since each makes room for its own
file only, more files than `maxLogFiles` may be left until the next rotation. `near`
marks an append during whose rotation another one renamed. `IsRepeat` is `isDuplicateDelivery`
together with the lookup of the record it stands for. The key of a firing is
modelled as the code computes it: events of kind "session" share one key,
"bare" ones have none. `exposed`, `lingering` and `forgotten` name the windows the
code leaves open: a file replaced from what was read before the await, two
rotations in one millisecond, a torn line, files a clear does not open, and keys
that left the window, the table or memory.

### VersionHistory

The versions of one file. `addVersion`, `deleteVersion` and `deleteFileHistory` are
split at every await; a handler keeps the history object it began with (`era`), so
one that is still at work after the history was deleted writes the files of a
history that is gone. The numbers of a history begun anew start at one again, and
content files have no era: that, and a crash before a content was written, is what
`mixed` excuses. A trimmed version keeps its content file and can be read by its
number. The empty content is there because `getVersionContent` treats it as absent.

### AgentTracker

`ingest` for the spawn call, its acknowledgement or report, and the start, tool
and stop events of an agent, with the guesses that link them: by a name in the
agent's id, else by the turn, and for a result the newest running record that
matches. Records are evicted in the order of insertion. `backfill` replays the log
sorted by timestamp, which differs from the order of arrival (`MaxLate`). Parents
come from the nesting of transcript directories, read once at a start; `getTree`
builds the tree of a page.

### Retention

`enforceRetention` and `cleanup`: prune the logs in memory, then their lines, read
all the sessions, and for each expired one save a summary, then delete; last the
archive. Between any two steps there may be events, saves, days and a kill; a
summary may fail. `load()` ends with a sweep, during which no hook arrives
(`starting`). A summary is reduced to the acts and prompts it was built from.
`overtaken` names the window in which a session was saved anew after the sweep had
read it. Sweeps of one core do not overlap in the model (they are a minute apart).

### ContextTray and ContextDelivery

A tray request is synchronous up to `writeFile`; then it opens the temporary file,
writes and renames, and the requests of one process share that file's name, so
inodes are modelled. The result of a `writeFile` over another's is either tray or
no JSON at all. `ContextDelivery` has a file per staged, armed or pinned payload,
and hook processes that read it, remove it when it is one-shot, and print it. A
hook may be killed at any step, and the payload replaced under it.

### ResearchIndex

Items, the postings and lengths of BM25, and the ids that have a vector. `embed`
and `flush` are split at their awaits. A snapshot that does not fit its items is
indexed anew at load, an empty index is filled from the log. Scores are left out:
search is the set of hits of a term.

### ActivityFeed, SessionPane and PanelLink

`ActivityFeed` follows an event from the hook that stamps it through `getLogs`
(sort, page, reverse), the pairing of a completion with its running item, the
inclusive cursor over the time an item last changed, and `mergeActivity`.

`SessionPane` keeps of every slice only which session its content is of; requests
that the core answers from memory are answered in order, those it reads from disk
for in any order. An answer with activity does not draw the tab but updates the feed
(`UpdateActivityFeed`): it adds the rows that are not drawn yet, or draws anew if there
are fewer items or other turns than before, which the model leaves open. `strayed`
holds the sessions whose activity arrived while the present one was selected.

`PanelLink` has one pipe for notifications and replies, the queue that waits for
`webview-ready`, the initial fetch followed by the queue, refreshes, disposal and
exits of the core. Its handlers are under way (`work`) while they await: an edit saves
the change and then announces it again (`Edit`, `Edited`), a resolution takes it out of
the map, awaits the archive and then tells (`Resolve`, `Resolved`); either may fail
(`Fails`), and then nothing is sent. `Delete` sends nothing at all, since
`change:deleted` is not forwarded. One fetch runs at a time, and a core is not started
again before its predecessor's output has been read; it finds the changes its
predecessor held, and what a failed archive leaves on disk is the matter of
`FileChanges`.

## 3. Runs

| Run | Shows | Bounds, and why they are enough |
|---|---|---|
| `session_store` | nothing is lost outside the windows, deletions last, flush saves all | 2 sessions over a cap of 1 (so eviction happens), 3 events, 1 failed write or restart: each window needs at most two sessions and three events |
| `session_live` | the cache implements `DurableLedger`; every accepted event reaches its file | 2 events |
| `tool_lifecycle` | outcomes are final, cross-pairing only after stray deliveries; in a session that stays resident nothing runs for ever, and it ends when it is quiet | 2 calls of one tool (the fallback matches by tool), 2 transports, a clock of 2 with timeouts of 1, so each is reached; evictions, lookups and restarts without a bound |
| `tool_pairing` (violation) | a repeated or overtaking completion closes another call's execution | as above, two verdicts |
| `hook_port` | a core is never deaf, starts leave a live pointer, a pointer goes with its core, no live claim overwritten without reason, the canonical port is taken back | any 3 of 4 cores (two ordinary ones, one forcing, one `--mcp`) for 3 ports, 1 kill, 1 late answer: two to race and one to interfere |
| `file_changes` | no change lost, memory and disk agree, newest version is the file, no phantom change | 2 regions (two hunks), 2 changes, 2 handlers together, 3 edits and requests, 1 repeated delivery, 1 failed operation or crash |
| `file_ghost` (violation) | a change resolved before it was first stored comes back after a restart | 1 region, 1 change |
| `core_bridge` | answers reach the call they answer, calls and starts come to an end, deactivation leaves no core but one that the end of the host left unsignalled | 2 starts, 2 requests and a shutdown, 2 failing processes: one process to go and one to come, a late answer and a newer request |
| `parts` | the type invariant and the 17 properties of the ten modules that `Parts` instantiates | below |
| `retention_digest` (violation) | the summary of an expired session has none of its prompts | 2 sessions, 3 days |
| `activity_twice` (violation) | events of one millisecond are assembled in the wrong order and their call is listed twice | 2 calls, 3 instants |
| `panel_count` (violation) | the version announced with a change counts as another pending change | 1 change, 1 panel |

The instances of `parts`, and larger ones on which the same properties were
checked by running the module alone:

| Module | In `parts` | Also checked |
|---|---|---|
| `LogStore` | 2 firings, 2 records in memory, 1 line per file, 2 files, 1 key, 3 records, 1 clear, 1 restart: trim, rotation, file limit and full table all happen | 4 records and 3 files; 2 lines per file and 2 clears |
| `VersionHistory` | 3 numbers over 2 retained, 2 contents, 1 deletion, 1 restart | 4 numbers; 2 deletions and 2 restarts |
| `AgentTracker` | 2 spawn calls and 2 agents of one turn, 2 records held, 4 events of which 1 late, 1 replay | 6 events |
| `Retention` | 1 session, 5 days with a window of 1, 3 acts, 1 crash: it can expire, come back and expire again | 2 sessions, 4 days, 2 acts |
| `ContextTray` | 2 items, 3 requests, 1 crash | 4 requests, 2 crashes |
| `ContextDelivery` | 2 sessions, 3 payloads, 2 hooks, 2 instants | 1 session, 4 payloads, 3 hooks, 3 instants |
| `ResearchIndex` | 3 documents over 2 items, 2 terms, 2 runs | 3 runs |
| `ActivityFeed` | 2 calls (one without an id) and a prompt, window of 3, 2 instants, 2 requests | 3 instants, 3 requests |
| `SessionPane` | 2 sessions, 4 clicks, 1 refusal | |
| `PanelLink` | 1 change, 3 opens, refreshes or edits, 2 exits | 2 changes, 2 opens, 1 exit |

Symmetry is used in safety runs over interchangeable model values only, never
where a liveness property is checked. No run checks deadlock: every system here
may rest when no request, hook or fault arrives within the bounds.

Constants named `Max...`, and `LastSend` and `LastPort`, that a module's comments
call bounds are guards of the actions they count; the others (`MaxSessionsInMemory`,
`MaxInMemory`, `MaxFileLines`, `MaxLogFiles`, `MaxKeys`, `MaxVersions`, `MaxAgents`,
`MaxAge`, `MaxItems`) are limits of the code.

### Fairness

* `SessionStore`: weak fairness of the writer (timer fires, save begins and lands,
  batch ends). The event loop runs expired timers and settled promises; nothing
  promises a request.
* `ToolLifecycle`: the clock and the two halves of the sweep, which a
  `setInterval` drives as long as the core runs. No delivery and no lookup is assumed.
* `HookPort`: the steps of each running core. Nobody promises that a core starts,
  stops or is spared, or that the foreign program leaves.
* `CoreBridge`: while the host lives timers fire, events and lines are delivered and a
  suspended `stop()` goes on; a core that was signalled or has shut down exits. Nobody
  promises that a core comes up or answers, that the panel asks for anything, that the
  extension is deactivated, or that the host lives on or ends after that; none of the
  host's steps is fair once it has ended.
* The ten modules of `parts` state no liveness and assume no fairness.

## 4. What is proved

TLAPS checks each theorem for every value of the constants, from the modules'
named assumptions only: sentinels lie outside their sets (`SessionAssumption`,
`CallAssumption`, `CoreAssumption`, `ChangeAssumption`, and `NilAssumption` of
`Parts`), bounds and budgets are naturals (`BoundAssumption`), timeouts positive,
verdicts terminal, the retention window a number of days (`WindowAssumption`), and
the limits of log, delivery table and versions positive (`LimitAssumption`; the code
replaces a `maxVersionsPerFile` of 0 by 50, and a `maxLogsInMemory` of 0 trims
nothing, which the model leaves out), that of the log files at least two (the core
passes 10; with one, `rotateLog` would count the live file as too many and unlink it,
store.ts:868). The research index's documents are numbered by their age.
`AgentAssumption` keeps the tracker's own
`spawn-<n>` ids and the platform's agent ids apart and leaves room for one record;
every caller has `MAX_AGENTS`, which is 2,000. `FeedAssumption` gives the feed's page
room for one log (`getActivity` clamps its limit to 1 to 10,000) and the clock an
instant.

In each case the property is not inductive, and what follows says what has to be
added to it.

**SessionStore** (`SessionStoreProofs`): `TypeCorrect`, `UnsavedAlwaysQueued`,
`LossOnlyInWindows`, `FilesAreKnown`, `DirtyAlwaysTimed`, `DeletionIsFinal`.
`UnsavedIsQueued` needs to know what the save in flight is doing: `SavingIsQueued`
says that a record being saved is still resident and that a payload which is
outdated already will be saved again. `DeletedStaysDeleted` needs `UnlinkIsQuiet`
(while an unlink is pending the session is not resident, not being saved and not
being looked up, unless exposed), and `KnownCoversDisk` follows from
`HeldIsKnown`: an id that is resident, on disk, being saved or looked up is known.

`FlushIsComplete`: flush waits for the chain as it stood when it drained the dirty
ids, and sweeps lengthen the chain behind that. `FlushCovers` says that from then on
what was accepted is in its file, or in the save under way, or in one of the batches
that are awaited (`AwaitedIn`); `StoppedIsThrough` that it returns when none is left.

`StoreKeepsLedger` is the refinement: every behaviour of the store, its events and
durable events taken for the ledger's, is one of `DurableLedger`. Each action is a
step of the ledger or a stutter; that needs two facts more, that no copy of a record
holds an event which has not happened yet (`CopiesAreOfThePast`), so that the next
event is new to the ledger, and that a save which lands takes nothing off the file
that was accepted (`SaveTakesNothing`), so that durability only grows.

**ToolLifecycle** (`ToolLifecycleProofs`): `TypeCorrect`, `CrossPairingIsStray`,
`NotesAreTrue`, `EndTimesFit`, `OutcomesAreFinal`. The strengthening says that a
delivery on the wire was sent (`SentBeforeWire`), that an execution that is open
has no `by` yet (`OpenIsUndecided`), that one that is closed was closed by a call
whose completion was tracked (`DecidedByTracked`), and that a tracked start left
an execution of its call (`StartLeavesExecution`): so a completion that is tracked
for the first time, after its start, finds its own execution open unless a stray
call of the tool took it.

**HookPort** (`HookPortProofs`): `TypeCorrect`, `NoInstantDeaf`, `StopIsFinal`,
`PointerIsReleased`, `LiveClaimIsKept`. `PointerIsReleased` is about cores that end by a
signal: one that was killed, has moved, or drained after `core.shutdown` may leave its
pointer. The strengthening relates a core's phase
to its sockets (`SocketShape`), says that a port has one holder (`Exclusive`), when a
core can have written the file or be probing (`ClaimShape`), that a core which
wrote the file and has not moved wrote the port it started on and knows the claim
for its own (`OwnPointer`), and that a probe's answer is true of the file as it is
now unless the core is in `misled` (`ProbeIsTrue`).

`StartsEndPointed`: while no core has stopped and no `--mcp` core has moved, once a core
that claims runs, either the file names a core that listens (`LivePointer`) or a claim
is under way that rests on the file as it is and was not told that its port is alive
(`Repairs`). Two claims that race cannot both give way, since a probe that says alive
says so of a live pointer.

**FileChanges** (`FileChangesProofs`): `TypeCorrect`, `NothingIsLost`,
`RevertedIsRewritten`. `Relied` states what each handler under way relies on at
its await: a handler about to unlink a pending record has its archive stored or
the deletion asked for; one about to archive as reverted has had the file written.
`Known` ties the records to ids that were given out, `Counted` bounds the
deliveries by the hooks that fired. A handler's continuation is captured once
(`Moves`), and one lemma (`StepKeeps`) turns it into the invariant for every step.

`MemoryMeetsDisk`: a change that nobody works on is on disk as it is in memory
(`Settled`); of one that a handler works on, the handler's await says how far disk
and memory have come apart (`Follows`); outside `torn` one handler works on a change
at a time. Every step is shown to touch one change only and to leave it as its
handler then follows (`Works`).

`NewestVersionIsFile` and `OneChangePerEdit` rest on one account (`Accounted`): while
the newest version is not what the file holds, the delivery of an edit is on the wire
or being read, and changes plus that one edit are at most the edits made.

**CoreBridge** (`CoreBridgeProofs`): `TypeCorrect`, `AnswersReachTheirCall`. That
no request is settled by another one's answer is not inductive: `Copies` adds that
wherever a copy of a request is (the table, a core's input, a line of output not
yet read) its id is its number among all requests, so that equal ids mean the same
call. It holds because `requestId` equals the number of requests sent. The end of the
host takes copies away and adds none.

The theorems that follow are about `Parts`, and each about one of its instances: the
specification of `Parts` is, of a part, that part's, and a lemma of each proof says so.

**Log store** (`PartsRecordProofs`): `StoredStays`, `ClearedIsGone`,
`OneRecordPerFiring`. `Durable` says where an acknowledged record is while a clear
rewrites the file it was in; `Cleared` that a record which a clear discarded is
left only where that clear has still to come to; `AllKnown` that a firing with a
record has its key in the window and its record in memory, unless it is in
`forgotten`. `Torn` excuses what shares a file with a torn line. Filtering is a
recursive function in the model (`Arrays`); what it keeps is proved from the
existence of that function, for every length, by the least number principle.

**Version history** (`PartsRecordProofs`): `OneContentPerNumber`, `HistoryIsKept`.
Within an era a number is given once (`AllTidy`), so that what a handler writes under
it is its content (`WritesNamed`). Handlers of a former era are at work only while
nothing is named in this one (`Apart`), unless the era is in `mixed`: this is what a
history begun anew depends on. `Reloads` says of the stored history what a restart
would find, and `Saved` that the newest history is stored or that a handler is on
its way to store it.

**Retention** (`PartsContextProofs`): `DeletionLeavesSummary`, `SweepSparesActive`.
What a sweep has read is expired and is what is stored, unless a save has overtaken
it (`ReadIsStored`); what it is about to delete has a summary of what was read
(`SavedHasSummary`).

**Deliveries** (`PartsContextProofs`): `PrintedIsSpent`. A payload is in at most one
file, and a hook that holds it had it from there (`OneHome`, `FromHome`); a hook comes
to print a one-shot payload only when its file no longer has it (`Ordered`).

**Research index** (`PartsContextProofs`): `SearchAgrees`, `CleanMeansSaved`. The
strengthening carries the agreement of postings and items to wherever a snapshot
can be (the index, the saves under way, the file), and says that a save under way is
of the index as it is unless something came in between.

**Context tray** (`PartsRecordProofs`): `TrayIsWholeAndKnown`. As long as one request
is under way at a time, the temporary file is its own and is another inode than the
tray's, and holds a fragment, or all that the request writes (`At`, `Files`, `Alone`).

**Agent tracker** (`PartsContextProofs`): `AgentsStayLinked`, `StopIsLast`,
`NobodyIsMissing`. `SoundTracker` says of a tracker that has taken in the calls `S`
and the stops of the agents `D`: records have ids of their own, and one with an
agent's id is that agent's (`Unique`); links and records lead to each other
(`OneToOne`); an agent of `D` is linked and completed, or was evicted (`Final`); and
parents are those of the directories (`Lineage`). One event keeps this, whatever it
is, as long as no call is repeated (`IngestKeeps`). `Backfill` takes in the same
events in another order, for a rank by timestamp is taken by one event each
(`OrderedIs`, by the pigeonhole principle), so that it holds of every replay too
(`BackfillKeeps`, by the least number principle on the existence of the recursive
function). A record of a page lies as many generations under the roots as the page
has records of less deeply nested agents, at most (`SwornShown`).

**Session pane** (`PartsContextProofs`): `PaneIsOfSelected`. As long as answers come in
the order of their requests, each slice is of the selected session and so are all
answers due to it, or a full answer is due that will replace it and only such follow
(`WillBeOf`, over the sequence `Due` of what is answered and what is asked). The rows
of the feed are the exception, since they outlive the slice: they are of the selected
session or of one whose answer arrived since it was selected.

**Activity feed** (`PartsPanelProofs`): `FeedIsWhole`. What the assembly makes of a
sequence of logs is told by one function, which completion joined which call (`Ends`,
`Assembles`, by the least number principle on the existence of the recursive
function): a completion joins the first open call it fits. Two assemblies are then
compared (`Twins`), that of the window now and that of the window as it was at an
earlier moment: they share the logs of the sources in question, in one order, as far
as those had arrived. If a completion joined different calls in the two, the one
with the smaller place in either would have made an earlier one go astray as well
(`NoneAstray`, an induction on the place of the completion), so an entry last changed
before that moment is the same in both (`EntryKept`, `ItemKept`). The window itself is
the `Window` newest by rank, and what is still in it was in it before
(`WindowIs`, `WholeHeld`). The invariant `Sworn` says that what the webview holds is,
of whatever arrived in time and is in the window, what a full answer of some moment
showed (`Grasp`), that the cursor is that moment's, and that the answers and
requests on their way will each leave it so for a later moment (`Due`).

**Panel link** (`PartsPanelProofs`): `ListIsOfCore`. Of a change, the last message
about it anywhere between core and webview says what the core holds (`Right`), or no
message is about it (`Silent`) and the place behind it is right; unless a handler that
has taken it out is still to tell, or it is in `missed` (`Unsure`). A change leaves
`missed` with a reply before which nothing about it is on its way. `WillAgree` puts the
pipe, the queue, what was posted and the list in the order in which they will arrive,
which depends on the fetch: its init is posted before the queue (`Had`), unless an
event overtakes the queue (`Replied`).

**Types and limits of the parts**: `RecordPartsTyped` (log store, versions, tray),
`SessionPartsTyped` (retention, deliveries, index, agents, pane), `PanelPartsTyped`
(feed, list); together they are `TypeOK` of `Parts` for all ten. A type invariant that
states a limit needs more than types: a part has a second invariant (`Bounded`, under
the part's name) beside its own. Of the log store it says that a rotation with no
other beside it has room for the file it is about to make (it lists what is there,
and what it is yet to unlink is counted down), and that what a restart loads is trimmed; of the versions that
every history anywhere (memory, disk, a handler's task) is trimmed; of retention that
each day has one prompt line at most, so that a summary cannot count more (`PromptsFewDays`);
of the index that the file and every snapshot on its way to it are trimmed, which needs
that the oldest `n` of a set exist (`OldestExists`, by the least number principle); of
the tray that a descriptor which is open has an inode that exists, also when requests
overlap, which its own invariant says nothing of (`Within`); and of the pane that nothing
is asked for while no session is selected (`Question`). The agents need none: their types
follow from `Sworn`.

Model-checked only is liveness (`EventuallyDurable`, `NothingRunsForever`,
`QuietSessionEnds`, `CanonicalTakenBack`, `CallsEnd`, `StartSettles`,
`DeactivationLeavesNoCore`), which the prover cannot do under fairness.

Some theorems state properties that no run lists any more (`UnsavedIsQueued`,
`KnownCoversDisk`, ...): they are parts of the inductive invariants of those the
runs check.

## 5. What the runs found

Five runs end in a violation of something a comment, a declaration or a test of the
repository says; each finding quotes the line. In short:

1. `tool_pairing`: a completion with an id falls back to matching by tool name.
2. `file_ghost`: a change announced before it is stored is stored after it was
   resolved, and returns to the pending map at the next start.
3. `retention_digest`: a sweep drops the logs from memory before it builds the
   summaries that need them.
4. `activity_twice`: a stable descending sort, reversed, turns round the events of
   one millisecond.
5. `panel_count`: two notifications of different meaning share one method, and the
   webview tells them apart by an id that one of them does not have.

Observations that a property of a passing run excuses by name, so that it says
there is nothing else:

* The eviction of a resident record takes a cleared dirty mark for a finished
  write (`session-manager.ts`), and `getSession` overwrites what became resident
  during its await: two of the four windows in `exposed` of `SessionStore`.
* A core that moved to the canonical port releases the port file by comparing it
  with the port it started on, and a port number does not identify who claimed the
  file: `moved` in `PointerGoesWithItsCore`. Nobody claims for an `--mcp` core that
  moves: `StartsLeaveLivePointer`. A core that drains after `core.shutdown` leaves its
  pointer.
* Sweeps do not visit what is not resident, so that a call may stay "running" in a file
  for ever, which `load` means to prevent: `resident` in `NothingRunsForever` and
  `QuietSessionEnds`.
* `deactivate()` does not wait for `stop()`: `LeftBehind` in `DeactivationLeavesNoCore`.
* Rotations that overlap leave more files than the limit (`near` in the limit that
  `TypeOK` of `LogStore` states), and in one millisecond one replaces the other's.
* `CoreBridge.start()` is guarded by a flag that is set only when the core reports
  ready: a second caller spawns a second core (`crowded` in `StartSettles`).
* `filterLog` replaces the log file by what it read before an await, and a clear by
  filter does not look at rotated files: `exposed` and `lingering` of `LogStore`.
* A history begun anew reuses numbers while the contents of its predecessor are
  being deleted or written: `mixed` of `VersionHistory`.
* `cleanup` judges a session by a document it read before an await: `overtaken` of
  `Retention`. A session that comes back after its summary is summarised again
  under the same name, over its first summary; `PrunedIsPreserved` is about what the
  latest sweep deleted.
* Two tray requests at once lose one of them (`overlapped` of `ContextTray`), and two
  hooks that have read one armed payload both print it (`SpentStaysSpent` is about
  hooks that read it afterwards).
* `flush` of the research index clears the dirty flag after its await: `overtaken` of
  `ResearchIndex`.
* Answers of the Sessions view name no session but for the injections; the other
  tabs may for a while draw another session's content (`Settled` of `SessionPane`), and
  in the activity feed the rows of a late answer stay after all is answered, until
  the feed is drawn anew (`strayed`).
* A change whose archiving fails, or is cut short, has left the core's map and is not
  announced; a deletion is never forwarded; and an edit that was being saved announces
  the change after its resolution: `missed` of `PanelLink`. The list is then wrong until
  the next fetch.

## 6. What is not modelled, and why

* Of `FileTracker`: `detectChange`, `trackChange` and the mark methods (nothing
  calls them), clearing the archive, the flush at shutdown. A file that cannot be
  read is read as empty by the code; reads succeed in the model.
* Of `ToolLifecycle`: that the session's record can be lost (see `SessionStore`), and
  which session `load` and the eviction choose.
* Of `LogStore`: that `rotateLog` counts the temporary file of a `filterLog` under way,
  if it lists at that moment, and a file operation that fails for another reason than
  a file that is gone.
* Of `SessionPane`: the Tools tab and the tool executions among the activity, both drawn
  from the session record, found by id.
* Of hook ingestion: the parsing and redaction of payloads and the rate limiter, which
  decide what is in an event, not what becomes of it; the statistics.
* Of the IPC server and the panel: the methods that forward to one call of a
  manager. They are most of `ipc-server.ts` by size.
* Of the webview: the views that draw one answer.
* Of the research index, digests and the context stores: scores, texts, rendering,
  extraction, the code graph; bundles, which are written once under a name of
  their own.
* Diff engine, quality scanner, confidence, graph analysis: pure functions of text.
  Skills, project identity, migrations, MCP server, transcript reader, native memory:
  listings and parsers with no interleaving of their own; migrations run alone before
  the core starts.
* Shell scripts beyond their order of reading, removing and printing, and Claude
  Code itself: modelled from their effect, marked external.

By lines, about a tenth of the implementation stands behind a definition. The rest is mostly
drawing, formatting, parsing, type declarations and forwarding, in which nothing is
decided that a property here is about.

## 7. What could follow

1. Pure algorithms as checked operators: the hunk splice against a reference diff,
   range collapsing of digests.
2. Overlapping sweeps and two cores over one directory in `Retention` and `LogStore`.
3. `FileChanges` composed with `VersionHistory`: the first knows of a file's newest
   version only, the second of no changes.
