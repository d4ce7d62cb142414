# wsmr, specified in TLA+

`wsmr` starts a Wayland compositor as a graph of systemd user units. Around the
compositor's life it changes two environments that belong to the whole user
session (systemd's and the D-Bus daemon's activation environments) and has to
put them back; it writes the unit files it runs on, next to files it does not
own; and it launches applications. Most of what can go wrong happens between
processes (`prepare-env`, the readiness watcher, `finalize`, `cleanup-env`, the
compositor, another `wsmr start`) and when one of them dies half-way. This
project models that part.

Paths below are relative to the repository; `PROJECT.json` maps each definition
to its lines (there, paths start with `src/`, the repository's directory).

## 1. Inventory

| Component | State | Operations | Modelled in |
|---|---|---|---|
| Session state: `session/state.rs`, `env/files.rs` | `generation`, `env_pre`, `env_cleanup.list`, `vars_<mark>`, `state.lock` (a flock) in the runtime directory | `begin_generation`, `append_cleanup`, `end_generation`, `restore_and_clear_locked`, `sweep_stray_prepare_vars` | `SessionState`; abstractly `SessionLedger` |
| Environment policy and delta: `env/delta.rs`, `varnames.rs`, `filter.rs` | none | `compute_changes`, the variable lists | `EnvPolicy`, `EnvDelta` |
| `prepare-env`: `session/prepare.rs`, `libexec/prepare-env.sh` | its snapshot, the `vars_` file, `env_login` | load the login environment, deduce the session, bind a pid; snapshot, begin, run the shell, record, set, unset | `StartCommand`, `SessionLifecycle`, `SessionState` |
| Readiness watcher: `session/exec.rs`, `session/wait.rs` | its snapshot | wait for the compositor's variables, delta, record, set, notify | `SessionState` |
| `finalize`: `session/finalize.rs` | none | record, set, notify | `SessionState` |
| `cleanup-env`: `session/cleanup.rs` | none | `end_generation` | `SessionState` |
| Bus calls: `sysd/dbus.rs` | the two activation environments; systemd's jobs | set and unset on both, one after the other; unit queries, stop, wait for a job; logind queries | `EnvPolicy`, `SessionState`, `SessionLifecycle`, `MayStart` |
| Unit files: `units/plan.rs`, `generate.rs`, `manifest.rs` | the rung directory, `.wsmr-generation` | plan, apply, roll back, save manifest, remove | `UnitFiles` |
| Start: `session/start.rs` | `env_login`, `env_session.conf` | gate, refuse a double start, generate, reload, bind its pid, save the login environment, become the anchor | `StartCommand`, `UnitFiles`, `SessionLifecycle` |
| Check: `session/check.rs` | none | ten probes and a verdict | `MayStart` |
| Stop: `session/stop.rs`, `libexec/signal-handler.sh` | the job it waits for | stop the compositor and wait; stop the envelope on a signal; `stop -r` | `SessionLifecycle`, `UnitFiles` |
| Unit templates and escaping: `units/templates.rs`, `escape.rs` | none | the unit graph, the drop-ins, rendering, quoting, escaping | `UnitGraph`, `CompResolve`, `UnitText`; substitution of placeholders is not modelled |
| Compositor resolution: `comp.rs`, parts of `main.rs` | none | from a command line, an id or an entry to a command, an id and desktop names; again in the services | `CompResolve` |
| App daemon: `app/daemon.rs` | two FIFOs in the runtime directory | create the FIFOs, read a request, reply with a bounded wait, stop, trap signals | `AppDaemon` |
| App launch: `app/launch.rs`, `naming.rs` | transient units | resolve, name units, exec or spawn and wait | `AppLaunch`, `UnitNaming` |
| Desktop entries: `app/entry.rs`, `find.rs`, `field.rs` | none | find, check, expand field codes | `DesktopEntries`, `FieldCodes` |
| Terminal choice: `app/terminal.rs` | the `not-terminals` cache | read the lists, scan, save the cache | `TerminalScan` |
| Command line, logging, paths | none | dispatch | not modelled |

How they interact. `wsmr start` generates units, reloads the user manager and
starts `wayland-wm@`, which needs `wayland-wm-env@`. The latter's `ExecStart` is
`prepare-env`, its `ExecStopPost` `cleanup-env`. When `prepare-env` has succeeded,
`wayland-wm@` runs `aux exec`, which spawns the readiness watcher and becomes the
compositor; the compositor may run `finalize`. All four helpers call into
`state.rs`, which serialises them on `state.lock`, and change the two activation
environments *outside* of the lock, except while restoring. The compositor
changes the same environments and knows of neither lock nor list.

What is hard in this code: a snapshot that is read before a lock and used under
it; a three-file record that is written and removed file by file; a
read-modify-write of one list by three processes; record and export as two steps;
two daemons updated one after the other; plans that are made from files others
may change before they are applied; a manifest that is saved once, at the end; a
server whose clients share two pipes, come together and leave without a word; a
teardown order that no program knows, because it follows from lines in a dozen
unit files; a cache that is keyed by a time and shared without a lock; a command
that is resolved three times by three processes.
`hazards` in `PROJECT.json` lists each at its line with the properties that would
catch it.

What makes each part correct:

* *Session state*: after a session, however it ended, the activation environment
  is what it was before; nothing is exported that the list does not know; no
  session is cleaned up with another's entries; cleanup cannot be blocked.
* *Delta*: what is applied is exactly the loader's result under the policy, and
  is exactly undone.
* *Unit files*: wsmr never destroys a file that is not its own; the manifest claims
  nothing but what the last batch to go through put there; a failed batch leaves nothing;
  a start runs on the units it wants.
* *Start and check*: a yes was earned by every requirement; a refusal has touched
  nothing; the anchor runs only over what it needs; the services come to the same
  command and names as start did.
* *Lifecycle*: `cleanup-env` is the last to go; one session's environment is never
  prepared under another's; a stop that says so has stopped; every session that loses
  its compositor, its anchor or its login goes down completely.
* *App launch*: success means every instance; each argument arrives once; the first
  entry of an id counts; names fit.
* *Text for others*: an instance name, an `ExecStart` line, a reply and a list of names are
  read back as what was written.
* *Terminal choice*: the cache hides no terminal, as long as no file gets the modification time
  of one that was in its place before.
* *App daemon*: no client can wedge it or take it down for the others; a client that
  comes alone gets its own reply; one that has a FIFO open is not left hanging in it. (One
  that is still waiting in `open` when a stop or a signal unlinks the FIFO does wait until it
  gives up: the code promises it nothing.)

## 2. Modules

| Module | Content |
|---|---|
| `EnvPolicy` | `compute_changes`, the variable classes, the effect of the bus calls on an environment, the names a restore unsets. Pure operators; no variables. |
| `EnvDelta` | one undisturbed session for *every* pair of environments before and after the loader: record, set, unset, restore. |
| `SessionState` | the four processes, the lock, the files, both buses and the deaths. Extends `EnvPolicy`. |
| `SessionLedger`, `SessionRefinement` | what the session state promises, without files, locks or processes; the mapping under which `SessionState` implements it. |
| `UnitFiles` | plan, apply, roll back, save and reload by one or more runs, against foreign edits, failures and deaths. |
| `MayStart` | `check may-start`, probe by probe. |
| `CompResolve` | compositor resolution in start and, through the drop-ins, in the services. Pure operators. |
| `UnitText` | escaping, quoting and splitting, character by character. |
| `StartCommand` | composes the two: check, then start, step by step, then `prepare-env`'s view of the login session. |
| `UnitGraph` | the dependency lines of the templates as relations, and what systemd derives from them. |
| `SessionLifecycle` | jobs, services, anchors, signals and `wsmr stop` over that graph. |
| `DesktopEntries` | lookup and checks of desktop entries; used by the next two. |
| `FieldCodes`, `UnitNaming` | expansion of `Exec`; unit names and where they are cut. |
| `AppLaunch` | `wsmr app`, composing the three above with the children it starts. |
| `TerminalScan` | the terminal's choice by several launches, the cache file, the changing files. |
| `AppDaemon` | the daemon's loop, its two FIFOs, its clients, signals, crashes and restarts. |
| `MC...` | the values of the constants for TLC. |
| `...Proofs` | the theorems, section 5. |

### SessionState

A step is one `atomic_write`, one unlink or one bus call: the granularity at which
a process can be killed or can return an error. `pc[p]` names the next step of
each of the four processes; the values in `LockedSteps` are those at which
`state.lock` is held. The locals that survive from one step to the next are `snap`
(`env_pre` of `prepare-env`, the watcher's first environment), `out` and `gone`
(what is about to be set and unset) and `seen` (the list as `append_cleanup` read
it). An environment is a function from `Names` to `Values` or `Absent`.

`Restore(p)` is `restore_and_clear_locked`, used by `begin_generation`
(`p = "prepare"`) and `end_generation` (`p = "cleanup"`): early return when no file
exists; otherwise plan, D-Bus unset, systemd unset, systemd set, D-Bus set, three
unlinks, sweep. `Record(p)` is `append_cleanup` followed by `set_systemd_vars`,
which `prepare-env`, watcher and `finalize` share. An error return at any point is
the same as a death there (`PrepareDies`, `CleanupDies`, `HelperDies`): the code
has no compensation, and the flock goes with the process. `Stop` is systemd's:
whatever is left in the compositor's cgroup is killed, then `ExecStopPost` runs.

Four history variables exist only for the properties. `base` is the environment
of before the session. When a session starts over abandoned state, `base` stays,
because that is what the abandoned state is to be restored to, until the new
generation saves its own snapshot. `exported` is what wsmr set for the
generation on record. `unrecorded` is what the compositor published itself and no
watcher or `finalize` has recorded since: nobody promises to remove that.
`tainted` says that `env_pre` is known not to describe `base`. This happens in two
ways, both described under findings: the snapshot was read before abandoned state
was resolved, or the process died between two files of the record.

### SessionLedger and SessionRefinement

A ledger is opened empty for one session at a time, only grows, names a variable
before wsmr lends it to the environment, and is closed only when every variable that
is due is again what it was. In `SessionRefinement` the ledger is open while
`env_cleanup.list` exists: that file is written last by `begin_generation` and unlinked
first by the restore, so a death between the files leaves no ledger, never a wrong one.
`before` is `base`, `lent` is `exported`, `loose` is `unrecorded`, `sound` is `~tainted`.
The D-Bus halves, the lock steps and the reads are stutters, and so is a death, unless it
tears the record (`Lose`); the files that are written before the list are `Note`; what is
left of `Restore` are `Retract` (the unset), `Return` (the set) and `Close` (the first unlink).

### UnitFiles

One rung directory. `disk` and `manifest` map each path to content or `NoFile`;
what is told apart is what a fingerprint tells apart. A run loads the manifest, reads the
files one by one (`ReadFile`), decides (`PlanGenerate`, or `PlanRemoveAll` for `stop -r`),
and then, writes first and removals after them, reads what is at a path (`ReadPrevious`) and
changes it (`ApplyWrite`, `ApplyRemove`); it saves the manifest and reloads. A failing write
or unlink starts the rollback, whose own failures are ignored as in the code. Death is
possible at every point, and so is an edit by anybody else (`Foreign`), between the read and
the write of one file too. Of the history variables, `wrote` is everything wsmr ever put at a
path; `put[r]` is what `r`'s batch has put at a path and not rolled back; `owned` is what may
be claimed there: what the last batch that went through put, and, where another run had
loaded the manifest before that batch saved it, what that run can put back into it. `before`
are the files as `r` read them, and `raced[r]` those that changed after that. There is no lock
in the code, so nothing is promised about those.

### MayStart, CompResolve, StartCommand

`MayStart` has one action per probe, in the code's order: a probe answers anything the
system can answer, errors included, and leads on, to a noted reason (which ends a check
that is not verbose), or to the end. `answer` keeps the answers for the properties.
`StartCommand` runs it as the login shell does (`check may-start && exec wsmr start`) and
goes on with `start::run`: gate, refusal, plan, apply, reload, `bindpid`, the two login
files, exec. Each step may fail (`Fails`). `World` is everything else: other sessions,
boot, the clock, VT switches. `did` is the history of what start has done.
`LoadLogin` and `Deduce` are `prepare-env` up to its snapshot; `env_login` is consumed by
the first `prepare-env`, and a restarted unit has to deduce.

`CompResolve` resolves a command line to a `CompGlobals` and says what the two drop-ins
carry of it; `ExecutedAs` and `PreparedAs` are what the services make of that. Words
are records, because what matters is their last component and their form. What systemd and
`split(':')` make of the text of a drop-in is not assumed to be what was joined to it:
`LineRead` and `NamesRead` are any function (`Altered`, `AlteredNames`, `Parts`), which may
refuse a line or read other words, and the instances have lines with a backslash, a `%h` and a
leading `-`, names with colons, empty ones, and ones that look like an option.

### UnitText

The conversions themselves: `simple_systemd_escape` and systemd's `%I`, `shlex_join` and its two
readers, systemd's `extract_first_word` and a shell, `join(":")` and `split_colon`. The state is
a list of words that grows by a word or a character, so that a run goes through all lists up to a
bound. The properties say which words come back: all instance names; all words from a shell; from
systemd those without a backslash; all lists of names without a colon in one, unless it is a single
empty name. The specifiers (`%`) and variables (`$`) that systemd replaces after
splitting depend on the machine and are what `Altered` stands for.

### UnitGraph, SessionLifecycle

`UnitGraph` has one row per template and relation (`Requires`, `BindsTo`, `Wants`,
`PropagatesStopTo`, `PartOf`, `After`, `Before`, `Conflicts`, `OnSuccess`, ...), instantiated
for each compositor. `SessionLifecycle` runs it. The job engine is systemd's and not
wsmr's; it is modelled as far as the templates rely on it, from systemd's manual pages: a
request is a transaction (what it pulls in, stops along and conflicts with), is refused or
replaces according to its mode, an irreversible job is not reversed, jobs wait for those
ordered before them, a start that fails takes along those that require it,
`OnSuccess`/`OnFailure` request the shutdown target, `StopWhenUnneeded` units go.

wsmr's part: `StartChecks` is `refuse_if_active` over the patterns of `stop.rs`;
`StartBinds` and `Bound` start `bindpid@` for the own pid; `AnchorStarts`, `Signal` and
`AnchorEnds` are `signal-handler.sh`; `AnchorDies` is a kill at any time. `RunService` of an
env unit is `prepare-env` with `ensure_bindpid` first, its `deactivating` state is
`cleanup-env`. `stop_wm`, `JobGone`, `TimedOut` are `wsmr stop`: `<<i>>` while it waits,
`<<i, "ok">>` when it reports success. `Orderly` says that nobody runs `wsmr start` while
another start or a `wsmr stop` is under way; what happens without it is a finding.

### DesktopEntries, FieldCodes, UnitNaming, AppLaunch

A data directory is the *set* of its files (`read_dir` has no order), each with whether the
directory it is in can be opened (the code passes over one that cannot); the directories are a
sequence. A token of `Exec` is what its field codes make of it. An escaped name is a
run of plain bytes, a run of four-byte escapes and a run of plain bytes: that is all a cut
can tell. `Resolve` is the whole of `resolve`, including what it refuses; `Exec` is the
single instance that replaces the process; `Spawn`, `SpawnFails`, `Wait` and `Finish` are the
loop for several. `units` are names in use at the user manager, of other launches too.

### TerminalScan

A scanner reads the lists (`Begin`), tries the preferred ids (`TryExplicit`), loads the cache,
lists the files, and for each takes the time (`Stat`) and then the content (`Read`); at the
end it truncates and writes the cache file (`Truncate`, `Write`), which another scanner may
have written in between. `Change` puts an entry in place, under any modification time, or takes
it away; `Install` changes which programs exist. `had` and `steady` are history variables: the
times that files at a place have had, and the terminals that have been usable the whole time
since a scanner began. `Apart` is the assumption that a new time is none of those (and not 0,
which is what a missing file is noted with): it rules out a second change within a second and a
file that brings along the very time of the one it replaces.

### AppDaemon

A step of the daemon is one system call that another process can observe: the check
and the `mkfifo` of `create_fifo`, the open and the end of `read_to_string`, the open
that finds a reader or times out, the write. `pc` starts with the `create_fifo` calls
of `run` before the handlers are installed (`handlers = FALSE`) and then goes round
the loop. `send`'s own `create_fifo` finds the FIFO of the same iteration and is no
step. The FIFOs are modelled as the kernel has them, because the protocol rests on
that: who is blocked in `open`, that one open lets in every waiting partner, that a
read ends with the last writer, that the contents go with the last descriptor, and
that an unlinked FIFO goes on existing for those that have it. `pipe[c]` says which FIFO a
client is at: the one at the path, one that was unlinked while the daemon had it open, or one
that nobody will ever open again. A client that reads an unlinked FIFO gets what was in it
(`rest`) and then the end of the file; one that was blocked in `open` on it stays blocked, and
only its own patience ends that (`ClientGiveUp`). The two unlinks of `remove_fifos` are two
steps (`RemoveIn`, `RemoveOut`), between which clients and further signals act. A request
is its number and whether it is a `stop`, not UTF-8 (the read fails, `run` returns the
error and systemd restarts it), or anything else, which is answered; a reply is the
number of the request it answers, 0 for "No args given!". Several clients that are
let in together make one request, decided by its first word.

`Terminate` is a signal at any point (trapped once the handlers are in, of three kinds that
interrupt each other's handler, and the default action before), `Crash` any other death (its FIFOs stay
and `create_fifo` finds them). The clients do what `tests/integration/smoke.sh` does,
but do not wait for each other and leave at any time. `overlapped` is a history
variable: the clients that were not alone, or wrote to a plain file because there was
no FIFO.

## 3. Runs

| Run | Instance | Shows |
|---|---|---|
| `session_state` | four names, one per class; two initial environments, two loader results; classic D-Bus; two generations | `RecordedBeforeExport`, `OneGenerationOnFile`, `DBusNeverAhead`, `EnvironmentRestored`; `ImplementsLedger` |
| `session_detached` | two names, dbus-broker, `finalize` outside the cgroup, fairness | `OneGenerationOnFile` with a `finalize` that outlives its session; `StopCompletes` |
| `unit_files` | one graph unit that changes with an upgrade, a compositor drop-in, a tweak; one run after the other; foreign edits | `ManifestTruthful`, `FailedBatchLeavesNothing`, `StartFindsItsUnits`, `ForeignFilesKept` |
| `app_daemon` | two clients, two requests, one crash, any number of stops, signals and starts, a pipe that holds one reply; fairness | `OwnReply`, `DaemonReturns`, `WaitingClientGetsIn`, `ReaderIsReleased` |
| `unit_text` | lists of up to five words and characters (a word counts as one), over fourteen characters, one of each kind that a quoter or a reader tells apart and one of two bytes | `EscapeIsUndone`, `JoinedWordsComeBack`, `JoinedNamesComeBack` |
| `start_command` | 48 option sets of check with every answer; every form of command and of entry (by id, by path, with an action, with no `Exec` of its own) with and without `-F`; words and names that a drop-in does not carry as they are; every option of start and every gap in the login environment; two VTs, two login sessions | `VerdictJustified`, `ProbesConnected`, `RefusalTouchesNothing`, `AnchorReady`, `LoginPairConsistent`, `UnitsRoundTrip` |
| `app_launch` | `Exec` lines of up to three tokens with every field code, none to two arguments or the same one twice, actions, commands, the bare terminal; two data directories and a subdirectory that cannot be opened; names around 127 and 255 bytes; colliding unit names | `OkMeansAll`, `ArgumentsDelivered`, `FirstEntryWins`, `UnitNamesFit` |
| `terminal_scan` | two scanners, two places for entries, two modification times in any order, lists with all three signs | `CacheTruthful`, `NoTerminalOverlooked` |
| `session_lifecycle` | two compositors, any number of starts, signals, deaths and stops, starts that do not overlap | `CleanupLast`, `OneSessionAtATime`, `StopOkMeansDown` |
| `session_teardown` | one compositor, fairness | `TeardownCompletes` |
| `snapshot_torn`, `two_starts` | smaller instances of the same | the findings |

The first run of each module checks its type invariant too; that of `AppLaunch` is only proved, and
`UnitText` has none. `EnvDelta` has no run of its own: both of its properties are proved,
for every set of names and every pair of environments, and the operators it is built from are
those of `session_state`.

*Why the bounds are enough.* Except in `app_daemon` (requests, crashes), `app_launch` (units of
others), `unit_text` (the size of a list) and `terminal_scan` (the times), no run bounds how often anything happens: the
state spaces are finite without that. Two generations are needed to tell
an entry of the current generation from one of another; the properties only compare
for equality, and a third never coexists. Names are distinguished by nothing but the
lists they are in, so one name per combination that matters covers all; two values
and the empty string distinguish "changed", "same" and "blanked". `unit_files` has one run
at a time, because every foreign edit there could also be another run's; what overlapping runs do to
each other's claims in the manifest is left to the theorems, which hold for any number of runs
and edits together. In `unit_text` a
reader's state depends on the quote it is in and on the character it meets, so lists of five
(two words of one and two characters, or one of four) have every kind of character at the
beginning, in the middle, at the end and next to every other.
`session_state`, `session_lifecycle` and `terminal_scan` use symmetry over generations,
compositors and scanners, which appear only in equality; the liveness runs use none. In `app_daemon` two
requests are one that is abandoned and one that could get the reply to it, and two clients give every
overlap of two; for any number of them `OwnReply` is proved. The bound on requests
is also an assumption of the liveness properties: `read_to_string` returns when the
last writer closes, and clients that come without end, each before the one before has
closed, keep it from returning. One crash is enough for a restart with clients
waiting, and `WaitingClientGetsIn` needs the crashes to end. In `terminal_scan` the cache
goes wrong, if it does, on one path between one change and one look at it; two times
give a file an old and a new one, either of which may be the smaller, two scanners a stale writer.
`Apart` (no time comes back at a place) is assumed because a cache that compares times cannot do
without; with `Apart = FALSE`
both properties say nothing, and `SkippedIsNoTerminal` fails (section 4). In `app_launch` two arguments, two hexes and
three tokens contain every pair of field codes, instances and names. In `session_lifecycle`
the second compositor is the one whose session must not be touched; a third adds no new
relation, because the graph relates units of different compositors only through the shared
ones, and the theorems of section 5 hold for any number.

*Fairness.* `FairSpec` has strong fairness of `Cleanup` (systemd keeps a started
`ExecStopPost` running, and a blocked `flock` is granted when the lock is free again
and again) and weak fairness of the helpers' `Record` (a process that is not killed
goes on). Nothing is assumed of `prepare-env`, whose shell may hang: systemd's start
timeout then kills it, which is `PrepareDies`. The compositor need not do anything,
and the watcher need not see its variables.

`SessionLifecycle`'s `FairSpec`: systemd runs each unit's jobs, and kills what does not go
when told to (`TimeoutStopSec`), so `Manager(u)` is weakly fair per unit; a `prepare-env` that
does not return fails by the start timeout; `waitpid` returns when the pid is gone; `waitenv`
has its own bound; the anchor notices that `systemctl start --wait` has returned. Nothing is
assumed of compositor, user, `wsmr stop` or readiness.

The app daemon's `FairSpec` has weak fairness of its steps (the process is scheduled
and its five seconds pass), of `Restart` (`Restart=on-failure`; systemd's start limit
is left out) and of a client's use of a FIFO it has *open*: it writes and closes, or
reads, or dies. That a client comes back for its reply is not assumed. The assumption
on readers is needed: `open_fifo_for_write_bounded` clears `O_NONBLOCK`, and a reader
that neither reads nor closes blocks a reply that does not fit in the pipe
(`WriteDrained`; `WriteFits`, for one that does, is not fair).

*Deadlock* is checked where the system should go on forever; where it may rest
(`EnvDelta`) resting is an action of its own. It is not checked in `start_command`,
`app_launch` and `terminal_scan`, whose commands end (and whose times run out), nor in `unit_text`, whose words are bounded, nor in
`session_lifecycle`: there `ensure_bindpid` may fail, which the code only logs, and such a
session can come to rest half up. If a signal cancels the compositor's start before it runs,
`wayland-wm-env@` and `wayland-session-pre@`, each needed by the other, stay, and no pid is
left whose end would take them down. It is checked in `session_teardown`.

## 4. Findings

Two runs show a statement of the repository that the code does not satisfy.

* `snapshot_torn`. A death between the writes of `generation` and `env_pre` leaves a
  generation whose snapshot reads as empty; cleanup then unsets always-cleanup
  variables the user had before. `docs/architecture/session-lifecycle.md:72`:
  "Cleanup restores the pre-session activation environment".
* `two_starts`. While `prepare-env` runs, `wayland-wm-env@` is the only unit of a session that
  is activating, and the check for an active session does not ask for it: a start of another
  compositor passes and both prepare their environments. `src/session/stop.rs:16-18`: "Any
  active or activating match means a session is up or starting. Narrower sets miss the window
  where a session is still starting in `*-pre@.target`."

The other way round, one race that the repository takes for open is closed in most cases.
`src/session/state.rs:27-33`: "What isn't closed: if an old session's `cleanup-env` (its unit's
`ExecStopPost`) is *still running* at the exact moment a brand new session's `prepare-env` starts —
a narrow window, since `start` already refuses to begin while any compositor unit is
active/activating — the late `cleanup-env` [...] will act on whatever generation is current by the
time it acquires the lock." And `docs/architecture/generated-files.md:61-64`: "There is one narrow
known race: an old `cleanup-env` process that is still running when a new generation begins cannot
carry its old generation ID across the static unit boundary. `start` reduces the window by
refusing to proceed while a compositor unit is active or activating." The check alone would leave
the window open, as these say: once the compositor is down it finds nothing, while `cleanup-env`
may still run. `OneSessionAtATime` says that there is no such window when starts do not overlap,
and the reason is in the templates, not in the check. Whatever ends a session requests
`wayland-session-shutdown.target` with the job mode `replace-irreversibly`, which conflicts with
every unit of the session and is ordered after their stops. Until it has arrived, each of these
units that is still up, the environment unit with its `ExecStopPost` among them, has an
irreversible stop job; a start of any compositor pulls in units that conflict with that target, so
its transaction is refused. When the target is there, nothing of the old session is left. For
starts that overlap the race is as open as described: two of them pass the check together
(`two_starts`), and when one fails, its `cleanup-env` runs while the other's `prepare-env` does.
That is `NoLateCleanup`, which TLC refutes in the instance of `two_starts`. What is claimed here rests on
systemd keeping to these job modes, as section 2 models it.

Further statements of documentation and comments that the models state and the code does not
satisfy; each can be seen by naming the definition as an `INVARIANT` of the run in brackets
(`SignalsAreDefault` as a `PROPERTY`).

* `SnapshotIsResolved` [`session_state`]. `prepare_env` reads `env_pre` before
  `begin_generation` resolves an abandoned session, and saves that earlier reading.
  `docs/architecture/environment.md:84`: "A new generation resolves abandoned old
  state before saving its own snapshot." The variables of the abandoned session
  become part of the new session's "before".
* `SessionVariablesRemoved` [`session_state`]. What the compositor publishes before the
  watcher's first reading is in no delta and is never recorded.
  `docs/architecture/session-lifecycle.md:72-73`: cleanup "removes variables introduced by
  this session generation."
* `DBusStateRestored` [`session_state`]. On the D-Bus daemon, names are blanked, not removed
  (it has no call for that). `docs/architecture/environment.md:4-5`: wsmr "updates both the
  systemd user-manager environment and the D-Bus activation environment, then
  restores their previous state at logout."
* `ManifestRecordsWrites` [`unit_files`]. Files of a start that died before its save are never
  claimed, not even by the next successful start, which finds them right.
  `docs/architecture/generated-files.md:21-22`: "The `.wsmr-generation` manifest
  records a fingerprint of every file wsmr actually wrote."
* `StartedUnitsAreLoaded` [`unit_files`]. A start that died between writing and reloading is
  followed by one that has nothing to change and does not reload.
  `docs/architecture.md:56-57`: "The binary and the units it expects cannot drift apart."
* `EntryArgsOnce` [`start_command`]. `build_dropins` (`session/start.rs:258`) takes as
  `cli_args` everything behind the first word of the *resolved* command line, the entry's own
  arguments included; `aux exec` resolves the entry again and gets these twice.
  `src/units/templates.rs:335`: "CLI-supplied compositor args (after arg0)."
* `OneInstancePerFile` [`app_launch`]. A field code inside a longer word gets no instance per
  argument: one command is run with the code left in place. `src/app/field.rs:15-16`: "one argv per
  file/url when a single-valued field (`%f`/`%u`) is given multiple arguments."
* `SignalsAreDefault` [`app_daemon`]. A SIGTERM to the running daemon does not have its default
  effect: a handler unlinks both FIFOs and exits 0. `src/app/daemon.rs:8-9`: "Signal trapping is
  omitted — systemd stops the unit; we exit on `stop` or a default SIGTERM."
* `NamesRepassedVerbatim` [`start_command`]. Desktop names with a `%` come back changed from the
  drop-in: it is quoted for a shell (`templates.rs:448`), and systemd goes on to replace its
  specifiers. `src/comp.rs:93-94`: "Desktop names exactly as passed on the CLI via `-D` (recorded in
  the drop-in so a regenerated unit re-passes them verbatim)". The same goes for words of the
  command line.
* `SkippedIsNoTerminal` [`terminal_scan`, with `Apart = FALSE`]. A terminal that takes the place of
  another entry under the time that one had (within the second, moved there with its own time, or
  unpacked with a fixed one) is skipped. `src/app/terminal.rs:146`: "known not-a-terminal,
  unchanged → skip the parse".
* `FallsBack` [`terminal_scan`]. A preferred entry that cannot be read or parsed ends the
  command with an error (`find_entry(..)?`, `app/terminal.rs:119`). `docs/commands.md:95-97`:
  "`--terminal` resolves a terminal from `xdg-terminals.list`, then falls back to desktop
  entries in the `TerminalEmulator` category."

The passing properties say what does hold next to these: `EnvironmentRestored` is
unconditional on the files and, for the environment, conditional on `~tainted`,
which is exactly `snapshot_torn` and `SnapshotIsResolved`; `Owed` leaves out exactly
`SessionVariablesRemoved`; `DBusNeverAhead`
says that at least nothing is left *with a value* on D-Bus alone; `OneSessionAtATime` holds
when starts do not overlap; `UnitsRoundTrip` and `ArgumentsDelivered` hold outside of
`EntryArgsOnce`, `NamesRepassedVerbatim` and `OneInstancePerFile` (`Carried`, `NamesCarried`, `Embedded`);
`CacheTruthful` and `NoTerminalOverlooked` outside of `SkippedIsNoTerminal` (`Apart`). `UnitsRoundTrip` also leaves out an entry whose `Exec` is an
absolute path with a base name that is no compositor id, or itself an entry's (`Resolvable`):
start resolves it as an entry and does not look at that name (`resolve_entry`), and the services,
which resolve the path as a command or an entry, refuse it or take another. And it leaves out, for
the desktop names, what the services cannot know when the command is not an absolute path
(`NamesCarried`): that the entry was given by its path (they look its id up among the sessions and
do not find it, or find another), and which action it was (the default name, for an entry without
`DesktopNames`, is then that of the entry's own command). The attempt to prove the property
without these three conditions is what showed them. And it leaves out lines and lists of names
that systemd, or the split at the colons, reads as something else than was written
(`LineUntouched`, `NamesUntouched`): of these, `unit_text` shows which the quoting itself is
responsible for, and `NamesRepassedVerbatim` what the specifiers do. `start_command` has an instance of
each.

## 5. Proofs

All theorems hold for every value of the constants that satisfies the assumptions
(`PolicyAssumption`, `SessionAssumption`, `UnitFilesAssumption`,
`MayStartAssumption`, `StartAssumption`, `GraphAssumption`, `LifecycleAssumption`,
`ScanAssumption`, `ListsAssumption`, `LaunchAssumption`, `EntriesAssumption`,
`ShapesAssumption`, `SessionEntriesAssumption`, `InputAssumption`, `TextAssumption`, the three bounds
of `AppDaemon`: types, distinct special values, lists that are lists of names, files that at the
start have a time other than 0 if changes are `Apart`, an empty line that is read as an empty line,
a request without a target that has no arguments, actions that are given only behind
the id of an entry, login shells in which `pam_systemd` has set session id and seat together). TLC
evaluates them in the runs.

**Loops over data.** `read_terminal_lists`, `gen_entry_args` and `dedup_preserving` are folds over
list lines, tokens and names. `FoldLeft` is a `CHOOSE` of a function that satisfies a recursive
equation, over the subsets of the sequence's domain. The library's induction theorems take an
operator and cannot be used here, but a set can stand for it: `Induction` (a set that has 0 and,
with a number, the next one, has all) follows from `LeastNumber`, and that from the well-foundedness
of `<`. With it `FoldExists` (the equation has a solution, so `CHOOSE` gives one) and `FoldRuns`
(the fold is the last value of a run that takes the elements in their order). After that a loop is
proved as loops are: an invariant, one lemma for a turn, one for the whole. The module of each
component has these lemmas for its own fold.

**EnvDelta** (`EnvDeltaProofs`). `DeltaInv` says, for each phase, which environment
`sys` is, as an expression of `pre` and `post`. It is inductive by inspection. Two
lemmas then do the work name by name: after set and unset a name has its effective
value (`AppliedIsLoaders`), and after restoring it has its old one (`DeltaUndone`).

**SessionState** (`SessionStateProofs`). `OneGenerationOnFile` is not inductive: it
depends on who can be writing. `Inv` adds to `TypeOK`: `StepInv` (each process is at a
step of its own code), `OrderInv` (what the unit ordering gives: `prepare-env` runs
exactly while the unit starts, `cleanup-env` while it stops, helpers while it is
active), `LockInv` (the holder is exactly the process in a critical section) and
`FileInv` (a record exists whenever any file does; which files exist at which step;
`seen` is what is on disk while its reader holds the lock). One lemma per action.
Theorems: `TypeCorrect`, `OneGeneration`; both with or without a detached finalize.

**The restore** (`SessionStateProofs`), under `~Detached`. Detached, `finalize` can
record for one generation and export after its end, and neither theorem is true.
`RecInv` adds that the names a process is *about* to export are recorded; with it
`RecordedFirst`. `RestoreInv` carries the restore theorem `RestoreIsCorrect`
(`EnvironmentRestored`). As long as `~tainted`:

* `SnapshotSound`: `env_pre`, if it exists, is `base`, and every owed name the session
  introduced is in the list or in the always-cleanup set (`Covered`). This is where
  `RecInv` is used: an export keeps `Covered` because it was recorded.
* `TornInside`: a generation without its snapshot exists only inside the critical
  section that is writing or removing it.
* `RestSound`: with no files on disk and no session active, nothing is left to restore.
* `Progress(p)`: how far a restore has got. Its plan is the one it would make now;
  after the unset no owed name is left that was not there before; after the set
  everything is as it was. A death at any point loses only locals, and the next
  restore plans again from files that are still sound.

`DBusInv` carries `DBusIsNeverAhead` (`DBusNeverAhead`): a process between the two halves of
a bus update has done the first one, systemd when it sets, D-Bus when it unsets, and no
other process can undo that half meanwhile.

**The refinement** (`SessionStateProofs`), under `~Detached`: `SessionKeepsLedger`
(`ImplementsLedger`). Initial states map to initial states; every step is a step of the
ledger or a stutter, by `Inv`, `RecInv` and `RestoreInv`, one lemma per group of actions.
`RecInv` is why an export is a `Lend`: its names have entries. `Progress` is why the set is a
`Return` and why the unlink of the list is a `Close`: what is due is back. `FileInv` is why
everything that happens to the other two files happens while no ledger is open.

**UnitFiles** (`UnitFilesProofs`), for any number of runs, files and contents.
`ManifestTruthful` compares the manifest with `owned`, and what is saved there was noted long
before: in the runs' copies. `ClaimInv` says of a copy that it claims, of a file the run's batch has
put, exactly that (so a rollback, which takes the put away, has to go without a save), and of
any other file something that is still owned. `OthersClaimsStay` (what another run saves takes
nothing from `owned` that a run under way had loaded) and `SavedClaims` (a save makes `owned`
include all it claims) are its two halves; `ClaimsWritten` leads back to what wsmr wrote. The
other three properties need to know how far a run has got with each file that it has read and
nobody else has touched since (`RunInv`):

* `PlanInv` (while applying): a planned removal, or a planned write of a graph unit,
  still meets a missing file or content wsmr wrote; what is planned is what is wanted;
  what is not planned is already settled; what was read before a change is still there.
* `BatchInv` (while rolling back): a file not yet changed is as the plan
  found it; of a changed one the old content is known and the new one is wsmr's.

`Undisturbed` separates the runs: a step of one run, or of somebody else, leaves every
other run's locals alone, and every file it changes becomes `raced` for a run that
has read it. `OthersUndisturbed` says that, `UndisturbedKeeps` that an undisturbed run keeps its part of the
invariant, and then each action is looked at only from its own run.
`FilesTypeCorrect`, `ManifestIsTruthful`, `FailureLeavesNothing` and `StartHasItsUnits`
follow from the invariant, `ForeignKept` from the invariant and one step.

**AppDaemon** (`AppDaemonProofs`), for any clients, requests, crashes and pipe size.
`OwnReply` speaks of the moment of reading, long after the daemon took the request.
`LonerInv` follows the request through the pipes. `Alone(c)` says what in-FIFO, daemon and
out-FIFO hold at each stage of a client that nobody joined: its request, then the reply to it, and
otherwise nothing it can reach; `RestIsOwn` says the same of what is left in a FIFO that was
unlinked under it. `PipeDropsUnread` (a pipe nobody has open is empty) is why a reply to a client
that left is gone when the next one reads; `DaemonHolds`, `WritersAreRead` and `UnlinkedAreHeld`
tie descriptors, and what was unlinked, to the place in the loop.
Theorems: `DaemonTypeCorrect`, `LonerGetsOwnReply`.

**TerminalScan** (`TerminalScanProofs`), for any entries, lists, programs and scanners.
`CacheTruthful` speaks of the cache file only, and a scanner writes there what it noted long
before. `CacheInv` says the same of every scanner's copy, and of the time that a scanner has
taken and not yet used: such a time is one that a file at the place has had, and if the file there
now has it, it is no terminal (`Harmless`, with `Stamped`: what is there has a time that is
accounted for). A file that is put there after the look at the time has, as changes are `Apart`,
another one, and the note is outdated before it is written.
`NoTerminalOverlooked` needs more than a truthful cache: that each place a scanner has left behind
was left for a reason. `Ahead` says that a terminal nobody ruled out and that was usable all the
time still lies ahead of a scanner that has found nothing: its walk has not begun, or the entry is
among those it has yet to look at, or it is the one being read; `RuledBy`, proved of the loop over the list lines, says that what a
scanner excludes is what a line excludes and no line protects. `WatchInv` is both with
`CacheInv`. Theorems: `ScanTypeCorrect`, `CacheIsTruthful`, `NothingOverlooked`.

**AppLaunch** (`AppLaunchProofs`), for any entries, arguments, options and name lengths.
`LoopInv` ties the step to the number of children, `WaitInv` ties `all_ok` to those that have
been waited for; `OkMeansAll` is both at the end. `UnitNamesFit` rests on two lemmas about
the cut: what it keeps fits (`CutFits`), and what is put around it has a bounded length
(`NameFits`). `FirstEntryWins` follows from what the lookup takes, the least directory index that has
the id. `ArgumentsDelivered` is a statement about the loop over the tokens. `LoopInvariant` says where
the arguments stand in the words put out so far (`Placed`): nowhere, and no field has been seen; all
of them in a row, in their order; or nowhere yet, with one word kept free for them. Each branch of
the loop keeps it (`PushKeeps`, `SingleKeeps`, `SeveralKeeps`, `BadKeeps`). Then the places of an
argument in the command lines and its places in the request are matched one to one
(`OneLineDelivers`, `InstancesDeliver`), so there are as many. Theorems: `LaunchTypeCorrect`,
`OkIsAll`, `NamesFit`, `FirstEntryWinsAlways`, `ArgumentsAlwaysDelivered`.

**Check and start** (`StartCommandProofs`), for any options, login environments, logins and VTs.
`StartInv` has a part per process. `CheckInv`: the probes have an order (`Rank`), and `AfterNext`
says that the next enabled probe skips only disabled ones; so what lies behind the current probe
has, as long as the verdict is empty, been answered favourably, what lies ahead has not been
asked, and behind the seventh there is a connection. A verdict that is not empty has a `Reason`,
which later answers cannot take away. `Progress`: what start has done is a prefix of one fixed
sequence (`Deeds`), and the step it is at is the length of that prefix; `Outcome` says which
prefixes go with which ends. `LoginInv`: every copy of the login variables (the shell's, the
file's, `prepare-env`'s) names one login session or none. `UnitsRoundTrip` is about values once
`TripInv` has said that `comp` is what `resolve` and `-F` make of the input: what start finds
(`Started`), what each service makes of each form of drop-in (`AuxAbsolute`, `AuxCommand`,
`AuxEntry`), that this is what it gets where line and names are read as they were written
(`ServedAsWritten`; elsewhere the theorem claims nothing, see the end of section 4), and that merging the merged names again changes nothing. The last part rests on three
facts about `dedup_preserving`, for lists of any length: it keeps the set and leaves each name once
(`DedupKeeps`), what is free of repetitions absorbs what only repeats it (`DedupAbsorbs`), and of one
name one is left (`DedupOne`). Theorems: `StartTypeCorrect`, `VerdictCorrect`, `ProbesNeverPanic`,
`RefusalHarmless`, `AnchorPrepared`, `LoginPairNamesOneSession`, `UnitsCarryTheSession`.

**SessionLifecycle** (`SessionLifecycleProofs`), for any number of compositors.
`LifecycleTypeCorrect` holds with any starts. The other three are proved under `Orderly`;
without it TLC finds `CleanupLast` violated by two overlapping starts, as in `two_starts`.

The graph comes first. `Reach` is four doublings of a relation; `ReachStays` (a set that no edge
leaves is not left) and `ReachGoes` (paths of up to four edges are in) are all that is needed of
it. With them: a stop of an outer unit (envelope, session, compositor,
`graphical-session.target`) stops outer units only, and every compositor among them
(`StopSets`); a start stops nothing but the shutdown target, and that one stops everything else
(`StartStopsSets`). Then what a request does to the jobs: `StoppedEffect`, `StartedEffect`,
`TriggerEffect`.

None of the three properties is inductive. What carries `LifecycleInv` is one distinction:
`Draining`, from the job of the shutdown target to its arrival.

* While draining (`DrainInv`), nothing is being started, and whatever is up has an irreversible
  stop. Only draining makes jobs irreversible (`HardInv`), so a start is refused
  (`StartRefusedDraining`) and a stop changes nothing.
* While the target is there (`RestInv`), nothing else is.
* Otherwise (`WorkInv`), neither the environment nor the pre target has a stop; a session of
  which any unit is up or has a job has its pre target up or coming, and with it the
  environment; a compositor comes only with its envelope. So the environment can end only
  by itself, in `prepare-env`, when no compositor is up yet; and then the envelope, which is up
  by then, is stopped, and the compositor's start with it (`CleanupInv`).
* `OrderInv`: compositor up, then pre target up, then environment up. The stops that drain a
  session run in the reverse order (`RunFacts`), which keeps it.
* `AloneInv` (one session at most is not over) is kept by `BeginInv`: between the check of a
  start and its request, sessions are over or drain, and nobody else starts or stops. This is
  where `Orderly` is used, and nowhere else.
* `StopInv`: the job that `wsmr stop` waits for is there until the compositor is down.

Every step of the model is then an instance of a few: a trigger (`TriggerStep`), a stop of outer
units (`StopStep`), the start of a session (`SessionStart`) or of a unit beside it
(`MinorStart`), a change of one unit (`OwnStep`, `SharedStep`), or none (`OutsideStep`).
Theorems: `LifecycleTypeCorrect`, `CleanupComesLast`, `OneSession`, `StopIsHonest`. TLC has
checked `LifecycleInv` with two and with three compositors. What is assumed here is that systemd
works as `SessionLifecycle` says.

**Only model-checked**: `StopCompletes`, `DaemonReturns`, `WaitingClientGetsIn`,
`ReaderIsReleased`, `TeardownCompletes`: liveness under fairness is out of the prover's reach. And
the three properties of `unit_text`, each of which compares what one pass over a text of any length
makes of the result of another: that is induction over data, which is out of its reach too. Every
other invariant and action property of a passing run is also a theorem.

## 6. What is not modelled

* Failing `remove_file` calls of `restore_and_clear_locked`, which the code ignores.
* The shell of `prepare-env.sh`, `env_login`, `env_session.conf`: the loader ends with
  an arbitrary environment of `LoaderEnvs`. Names that `filter::keep_name` drops never
  appear: `Names` are the kept ones.
* In `SessionState` a watcher timeout is a death of the watcher, and the unit graph is only
  `envUnit`; `SessionLifecycle` has the graph and not the environments. That the next
  session's `prepare-env` never meets a late `cleanup-env`, which `SessionState` assumes, is
  `OneSessionAtATime` there; it fails when two starts overlap (section 4). The two are not
  composed into one state space.
* systemd beyond what the templates rely on: start limits, the length of timeouts, units of
  others. How long `stop` waits: it may give up at any time.
* Collisions of the manifest's fingerprint; dry runs; the refusal of `stop -r` for an
  active session, which changes nothing.
* The text of the app daemon's answers: what a launch resolves to is `AppLaunch`, that it
  reaches the client who asked is `AppDaemon`. A request cut short by a client
  that dies between two writes; a second daemon on the same FIFOs; a crash in the
  middle of a reply.
* The text of desktop entries: groups, locale keys, escapes, quoting. An entry is what the
  checks and the expansion make of it; one that does not parse is `Malformed`.
* The words of the `systemd-run` command line, argument parsing, logging: translations of one
  value into text, without state. Of the text of unit files, what depends on its characters is in
  `UnitText`; the replacement of placeholders in the templates is not modelled. What systemd's
  specifiers and variables expand to is any other list of words (`Altered`).
* The compositor's own update of the two environments is one step. It is external; what
  `DBusNeverAhead` is about is the order in which wsmr changes the two.
* A directory listing that breaks off half-way: `walk` and the scan see a directory's files or
  nothing of it.

## 7. What is left

1. `SessionLifecycle` in place of `envUnit` in `SessionState`, to show the restore under
   overlapping starts, where it is not expected to hold, and to name what is lost.
2. `CleanupLast`'s and `StopOkMeansDown`'s fate when starts overlap: which part of
   `LifecycleInv` is left, and which stops then tell the truth.
3. `UnitText`'s properties for lists of any length, which need an induction that the library cannot
   state, over a set that stands for it as in section 5.
