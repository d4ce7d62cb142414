---------------------------- MODULE SessionState ----------------------------
(***************************************************************************)
(* The session's activation environment and the state files that make it   *)
(* restorable (src/session/state.rs), with the four kinds of process that  *)
(* change them:                                                            *)
(*                                                                         *)
(*   prepare    wsmr aux prepare-env   ExecStart of wayland-wm-env@        *)
(*   watcher    wsmr aux readiness     spawned by wayland-wm@'s aux exec   *)
(*   finalize   wsmr finalize          run by the compositor               *)
(*   cleanup    wsmr aux cleanup-env   ExecStopPost of wayland-wm-env@     *)
(*                                                                         *)
(* One step is one atomic_write, one unlink or one bus call, because a     *)
(* process can be killed, or can give up on an error, between any two of   *)
(* them.  The lock of state.rs is a flock: it is released when its holder  *)
(* returns or dies.  The unit graph appears only as envUnit, the state of  *)
(* wayland-wm-env@: it starts prepare, lets the compositor run when        *)
(* prepare succeeded, kills the compositor's cgroup before it stops, and   *)
(* always runs cleanup afterwards.                                         *)
(***************************************************************************)
EXTENDS EnvPolicy

CONSTANTS
    Gens,            \* generation ids (random_hex_id)
    NoGen,           \* no generation file
    NoFile,          \* no such file
    WaitVars,        \* WAYLAND_DISPLAY and UWSM_WAIT_VARNAMES
    Broker,          \* dbus.service is dbus-broker
    Detached,        \* finalize may also run outside the compositor's cgroup
    InitialEnvs,     \* activation environments before the first session
    LoaderEnvs,      \* environments prepare-env.sh can end with
    CompositorEnvs,  \* what the compositor itself can publish in one call
    FinalizeEnvs     \* what finalize can find in its own environment

ASSUME SessionAssumption ==
    /\ NoGen \notin Gens
    /\ NoFile \notin Env
    /\ \A list \in SUBSET [gen : Gens, name : Names] : NoFile # list
    /\ WaitVars \subseteq Names
    /\ Broker \in BOOLEAN
    /\ Detached \in BOOLEAN
    /\ InitialEnvs \subseteq Env
    /\ LoaderEnvs \subseteq Env
    /\ CompositorEnvs \subseteq Env
    /\ FinalizeEnvs \subseteq Env

Procs == {"prepare", "watcher", "finalize", "cleanup"}
Helpers == {"watcher", "finalize"}
Free == "free"

VARIABLES
    envUnit,     \* wayland-wm-env@: "inactive", "starting", "active", "stopping"
    pc,          \* pc[p]: the next step of process p
    lock,        \* the holder of state.lock, or Free
    sysEnv,      \* systemd's activation environment
    dbusEnv,     \* the classic dbus-daemon's activation environment
    genFile,     \* generation
    preFile,     \* env_pre
    cleanFile,   \* env_cleanup.list
    strayVars,   \* the vars_<mark> files whose prepare-env is gone, each named
                 \* by the generation that prepare-env had begun
    snap,        \* snap[p]: the local env_pre of prepare and of the watcher
    out,         \* out[p]: the variables p is about to set
    gone,        \* gone[p]: the names p is about to unset
    seen,        \* seen[p]: the cleanup entries p has read
    \* History variables, read only by properties:
    base,        \* sysEnv when the session began, abandoned state resolved
    exported,    \* names wsmr exported on behalf of the generation on record
    unrecorded,  \* names the compositor published that nobody recorded
    tainted      \* env_pre is known not to describe base (see the README)

unitVars  == <<envUnit, pc, lock>>
buses     == <<sysEnv, dbusEnv>>
files     == <<genFile, preFile, cleanFile, strayVars>>
locals    == <<snap, out, gone, seen>>
history   == <<base, exported, unrecorded, tainted>>
vars      == <<unitVars, buses, files, locals, history>>

-----------------------------------------------------------------------------

Entry == [gen : Gens, name : Names]

\* read_cleanup_entries: a missing list reads as empty.
Entries == IF cleanFile = NoFile THEN {} ELSE cleanFile

\* load_env: a missing snapshot reads as empty.
Snapshot == IF preFile = NoFile THEN EmptyEnv ELSE preFile

\* The names the list holds for the generation on record; none without one.
Listed == {n \in Names : \E e \in Entries : e.gen = genFile /\ e.name = n}

NoStateFiles == genFile = NoGen /\ preFile = NoFile /\ cleanFile = NoFile

\* What append_cleanup is called with: prepare passes changes.cleanup, the
\* other two pass every name they are about to export.
RecordNames(p) ==
    IF p = "prepare" THEN Defined(out[p]) \ NEVER_CLEANUP ELSE Defined(out[p])

Tagged(names) == {[gen |-> genFile, name |-> n] : n \in names}

\* The steps that happen with state.lock held.
RestoreSteps == {"clear_dbus", "unset", "set", "set_dbus",
                 "rm_list", "rm_pre", "rm_gen", "sweep"}
BeginSteps   == {"write_gen", "write_pre", "write_list"}
LockedSteps  == RestoreSteps \cup BeginSteps \cup {"rec_write"}

\* Before these steps a generation is on record without its snapshot.
TornSteps == {"write_pre", "rm_gen"}

Running(p) == pc[p] \notin {"idle", "done"}

\* Mutant: a lock file, which outlives its holder.
Release_Leaks(p) == UNCHANGED lock

\* A flock goes when its holder closes it, by returning or by dying.
Release(p) == lock' = IF lock = p THEN Free ELSE lock

Goto(p, step) == pc' = [pc EXCEPT ![p] = step]

\* The process is gone, and with it its locals.
Forget(ps) ==
    /\ snap' = [p \in Procs |-> IF p \in ps THEN EmptyEnv ELSE snap[p]]
    /\ out'  = [p \in Procs |-> IF p \in ps THEN EmptyEnv ELSE out[p]]
    /\ gone' = [p \in Procs |-> IF p \in ps THEN {} ELSE gone[p]]
    /\ seen' = [p \in Procs |-> IF p \in ps THEN {} ELSE seen[p]]

-----------------------------------------------------------------------------
(* The bus updates.  set_systemd_vars_with updates systemd, then the D-Bus *)
(* daemon; unset_systemd_vars_with the D-Bus daemon, then systemd.  The    *)
(* D-Bus half is skipped under dbus-broker.                                *)

SetOnSystemd(p) ==
    /\ sysEnv' = SetVars(sysEnv, out[p])
    /\ UNCHANGED dbusEnv

SetOnDBus(p) ==
    /\ dbusEnv' = IF Broker THEN dbusEnv ELSE SetVars(dbusEnv, out[p])
    /\ UNCHANGED sysEnv

UnsetOnDBus(p) ==
    /\ dbusEnv' = IF Broker THEN dbusEnv ELSE BlankVars(dbusEnv, gone[p])
    /\ UNCHANGED sysEnv

UnsetOnSystemd(p) ==
    /\ sysEnv' = UnsetVars(sysEnv, gone[p])
    /\ UNCHANGED dbusEnv

-----------------------------------------------------------------------------
(* prepare-env up to begin_generation.                                     *)

\* systemd starts wayland-wm-env@.
Start ==
    /\ envUnit = "inactive"
    /\ envUnit' = "starting"
    /\ pc' = [p \in Procs |-> IF p = "prepare" THEN "snapshot"
                              ELSE IF Running(p) THEN pc[p] ELSE "idle"]
    /\ base' = IF NoStateFiles THEN sysEnv ELSE base
    /\ tainted' = (tainted /\ ~NoStateFiles)
    /\ UNCHANGED <<lock, buses, files, locals, exported, unrecorded>>

\* let env_pre = bus.systemd_vars()?, before begin_generation takes the lock.
TakeSnapshot ==
    /\ pc["prepare"] = "snapshot"
    /\ snap' = [snap EXCEPT !["prepare"] = sysEnv]
    /\ Goto("prepare", "acquire")
    /\ UNCHANGED <<envUnit, lock, buses, files, out, gone, seen, history>>

-----------------------------------------------------------------------------
(* restore_and_clear_locked, called by begin_generation and end_generation *)

\* No state on disk: nothing to restore.  end_generation returns,
\* begin_generation goes on to write the new state.
NothingToRestore(p) ==
    /\ pc[p] = "acquire"
    /\ lock = Free
    /\ NoStateFiles
    /\ \/ /\ p = "prepare"
          /\ lock' = p
          /\ Goto(p, "write_gen")
          /\ UNCHANGED envUnit
       \/ /\ p = "cleanup"
          /\ envUnit' = "inactive"
          /\ Goto(p, "done")
          /\ UNCHANGED lock
    /\ UNCHANGED <<buses, files, locals, history>>

\* Take the lock, read the files and the systemd environment, decide.
PlanRestore(p) ==
    /\ pc[p] = "acquire"
    /\ lock = Free
    /\ ~NoStateFiles
    /\ lock' = p
    /\ gone' = [gone EXCEPT ![p] = ToUnset(Listed, Snapshot, sysEnv)]
    /\ out' = [out EXCEPT ![p] = Snapshot]
    /\ Goto(p, "clear_dbus")
    /\ UNCHANGED <<envUnit, buses, files, snap, seen, history>>

\* Mutant: systemd forgets the names before the D-Bus daemon does.
RestoreBusStep_SystemdFirst(p) ==
    /\ \/ pc[p] = "clear_dbus" /\ UnsetOnSystemd(p) /\ Goto(p, "unset")
       \/ pc[p] = "unset"      /\ UnsetOnDBus(p)    /\ Goto(p, "set")
       \/ pc[p] = "set"        /\ SetOnSystemd(p)   /\ Goto(p, "set_dbus")
       \/ pc[p] = "set_dbus"   /\ SetOnDBus(p)      /\ Goto(p, "rm_list")
    /\ UNCHANGED <<envUnit, lock, files, locals, history>>

\* Mutant: what was set before the session is not set again.
RestoreBusStep_NoSet(p) ==
    /\ \/ pc[p] = "clear_dbus" /\ UnsetOnDBus(p)    /\ Goto(p, "unset")
       \/ pc[p] = "unset"      /\ UnsetOnSystemd(p) /\ Goto(p, "rm_list")
    /\ UNCHANGED <<envUnit, lock, files, locals, history>>

RestoreBusStep(p) ==
    /\ \/ pc[p] = "clear_dbus" /\ UnsetOnDBus(p)    /\ Goto(p, "unset")
       \/ pc[p] = "unset"      /\ UnsetOnSystemd(p) /\ Goto(p, "set")
       \/ pc[p] = "set"        /\ SetOnSystemd(p)   /\ Goto(p, "set_dbus")
       \/ pc[p] = "set_dbus"   /\ SetOnDBus(p)      /\ Goto(p, "rm_list")
    /\ UNCHANGED <<envUnit, lock, files, locals, history>>

\* Mutant: the list stays on disk.
RemoveList_Kept(p) ==
    /\ pc[p] = "rm_list"
    /\ Goto(p, "rm_pre")
    /\ UNCHANGED <<envUnit, lock, buses, files, locals, history>>

\* The unlinks, in the code's order, after both buses were restored.
RemoveList(p) ==
    /\ pc[p] = "rm_list"
    /\ cleanFile' = NoFile
    /\ Goto(p, "rm_pre")
    /\ UNCHANGED <<envUnit, lock, buses, genFile, preFile, strayVars, locals, history>>

RemovePre(p) ==
    /\ pc[p] = "rm_pre"
    /\ preFile' = NoFile
    /\ Goto(p, "rm_gen")
    /\ UNCHANGED <<envUnit, lock, buses, genFile, cleanFile, strayVars, locals, history>>

RemoveGen(p) ==
    /\ pc[p] = "rm_gen"
    /\ genFile' = NoGen
    /\ Goto(p, "sweep")
    /\ UNCHANGED <<envUnit, lock, buses, preFile, cleanFile, strayVars, locals, history>>

\* sweep_stray_prepare_vars; then end_generation drops the lock and returns.
Sweep(p) ==
    /\ pc[p] = "sweep"
    /\ strayVars' = {}
    /\ \/ /\ p = "prepare"
          /\ Goto(p, "write_gen")
          /\ UNCHANGED <<envUnit, lock, locals>>
       \/ /\ p = "cleanup"
          /\ envUnit' = "inactive"
          /\ Goto(p, "done")
          /\ Release(p)
          /\ Forget({p})
    /\ UNCHANGED <<buses, genFile, preFile, cleanFile, history>>

Restore(p) ==
    \/ NothingToRestore(p)
    \/ PlanRestore(p)
    \/ RestoreBusStep(p)
    \/ RemoveList(p)
    \/ RemovePre(p)
    \/ RemoveGen(p)
    \/ Sweep(p)

-----------------------------------------------------------------------------
(* The rest of begin_generation, and of prepare-env.                       *)

\* The id is random: it is never one that is still on file.
WriteGen ==
    /\ pc["prepare"] = "write_gen"
    /\ \E g \in Gens : (\A e \in Entries : e.gen # g) /\ genFile' = g
    /\ Goto("prepare", "write_pre")
    /\ UNCHANGED <<envUnit, lock, buses, preFile, cleanFile, strayVars, locals, history>>

WritePre ==
    /\ pc["prepare"] = "write_pre"
    /\ preFile' = snap["prepare"]
    /\ Goto("prepare", "write_list")
    /\ base' = sysEnv
    /\ tainted' = (snap["prepare"] # sysEnv)
    /\ UNCHANGED <<envUnit, lock, buses, genFile, cleanFile, strayVars, locals,
                   exported, unrecorded>>

WriteList ==
    /\ pc["prepare"] = "write_list"
    /\ cleanFile' = {}
    /\ lock' = Free
    /\ Goto("prepare", "aux")
    /\ exported' = {}
    /\ unrecorded' = {}
    /\ UNCHANGED <<envUnit, buses, genFile, preFile, strayVars, locals, base, tainted>>

\* run_loader writes its vars_<mark> file, which exists while pc is "shell".
WriteAux ==
    /\ pc["prepare"] = "aux"
    /\ Goto("prepare", "shell")
    /\ UNCHANGED <<envUnit, lock, buses, files, locals, history>>

\* The shell ends, the file is removed, the dump is parsed, the delta taken.
RunLoader ==
    /\ pc["prepare"] = "shell"
    /\ \E post \in LoaderEnvs :
          /\ out'  = [out  EXCEPT !["prepare"] = ChangesSet(snap["prepare"], post)]
          /\ gone' = [gone EXCEPT !["prepare"] = ChangesUnset(snap["prepare"], post)]
    /\ Goto("prepare", "rec_lock")
    /\ UNCHANGED <<envUnit, lock, buses, files, snap, seen, history>>

\* unset_systemd_vars(changes.unset), after set_systemd_vars(changes.set).
DropOnDBus ==
    /\ pc["prepare"] = "drop_dbus"
    /\ UnsetOnDBus("prepare")
    /\ Goto("prepare", "drop")
    /\ UNCHANGED <<envUnit, lock, files, locals, history>>

\* prepare-env returns; the unit is up and wayland-wm@ starts: aux exec spawns
\* the watcher, then becomes the compositor.
DropOnSystemd ==
    /\ pc["prepare"] = "drop"
    /\ UnsetOnSystemd("prepare")
    /\ envUnit' = "active"
    /\ pc' = [pc EXCEPT !["prepare"] = "idle", !["watcher"] = "watch"]
    /\ Forget({"prepare"})
    /\ UNCHANGED <<lock, files, history>>

-----------------------------------------------------------------------------
(* append_cleanup, then set_systemd_vars: shared by prepare-env, the       *)
(* watcher and finalize.                                                   *)

\* Mutant: the list is read and written back without the lock.
RecordRead_NoLock(p) ==
    /\ pc[p] = "rec_lock"
    /\ genFile # NoGen
    /\ seen' = [seen EXCEPT ![p] = Entries]
    /\ Goto(p, "rec_write")
    /\ UNCHANGED <<envUnit, lock, buses, files, snap, out, gone, history>>

RecordRead(p) ==
    /\ pc[p] = "rec_lock"
    /\ lock = Free
    /\ genFile # NoGen
    /\ lock' = p
    /\ seen' = [seen EXCEPT ![p] = Entries]
    /\ Goto(p, "rec_write")
    /\ UNCHANGED <<envUnit, buses, files, snap, out, gone, history>>

\* No generation on record: append_cleanup refuses, and nothing is exported.
RecordRefused(p) ==
    /\ pc[p] = "rec_lock"
    /\ lock = Free
    /\ genFile = NoGen
    /\ Goto(p, "idle")
    /\ Forget({p})
    /\ UNCHANGED <<envUnit, lock, buses, files, history>>

\* The list is rewritten only when it gains an entry.
RecordWrite(p) ==
    /\ pc[p] = "rec_write"
    /\ cleanFile' = IF Tagged(RecordNames(p)) \subseteq seen[p] THEN cleanFile
                    ELSE seen[p] \cup Tagged(RecordNames(p))
    /\ Release(p)
    /\ seen' = [seen EXCEPT ![p] = {}]
    /\ Goto(p, "apply")
    /\ unrecorded' = unrecorded \ RecordNames(p)
    /\ UNCHANGED <<envUnit, buses, genFile, preFile, strayVars, snap, out, gone,
                   base, exported, tainted>>

ApplyOnSystemd(p) ==
    /\ pc[p] = "apply"
    /\ SetOnSystemd(p)
    /\ Goto(p, "apply_dbus")
    /\ exported' = exported \cup Defined(out[p])
    /\ UNCHANGED <<envUnit, lock, files, locals, base, unrecorded, tainted>>

ApplyOnDBus(p) ==
    /\ pc[p] = "apply_dbus"
    /\ SetOnDBus(p)
    /\ \/ /\ p = "prepare"
          /\ Goto(p, "drop_dbus")
          /\ UNCHANGED locals
       \/ /\ p \in Helpers
          /\ Goto(p, "done")
          /\ Forget({p})
    /\ UNCHANGED <<envUnit, lock, files, history>>

Record(p) ==
    \/ RecordRead(p)
    \/ p \in Helpers /\ RecordRefused(p)
    \/ RecordWrite(p)
    \/ ApplyOnSystemd(p)
    \/ ApplyOnDBus(p)

-----------------------------------------------------------------------------
(* The compositor's side.                                                  *)

\* readiness_watch: the snapshot the delta is taken against.
WatchStart ==
    /\ pc["watcher"] = "watch"
    /\ snap' = [snap EXCEPT !["watcher"] = sysEnv]
    /\ Goto("watcher", "wait")
    /\ UNCHANGED <<envUnit, lock, buses, files, out, gone, seen, history>>

\* waitenv has seen every expected name and the settle time is over: the
\* environment is read again, and what is new or changed is synced.
WatchDelta ==
    /\ pc["watcher"] = "wait"
    /\ WaitVars \subseteq Defined(sysEnv)
    /\ LET delta == [n \in Names |->
                        IF sysEnv[n] # snap["watcher"][n] THEN sysEnv[n] ELSE Absent]
       IN \/ /\ Defined(delta) # {}
             /\ out' = [out EXCEPT !["watcher"] = delta]
             /\ Goto("watcher", "rec_lock")
             /\ UNCHANGED <<snap, gone, seen>>
          \/ /\ Defined(delta) = {}
             /\ Goto("watcher", "done")
             /\ Forget({"watcher"})
    /\ UNCHANGED <<envUnit, lock, buses, files, history>>

\* The compositor, or a hook of its own, publishes variables: it tells systemd
\* and the D-Bus daemon, and knows nothing of the cleanup list.
CompositorPublishes ==
    /\ envUnit = "active"
    /\ \E e \in CompositorEnvs :
          /\ sysEnv' = SetVars(sysEnv, e)
          /\ dbusEnv' = IF Broker THEN dbusEnv ELSE SetVars(dbusEnv, e)
          /\ unrecorded' = unrecorded \cup (Defined(e) \ Listed)
    /\ UNCHANGED <<unitVars, files, locals, base, exported, tainted>>

\* finalize has read its own environment; one without WAYLAND_DISPLAY returns
\* an error before it does anything.
FinalizeStart ==
    /\ ~Running("finalize")
    /\ envUnit = "active" \/ Detached
    /\ \E e \in FinalizeEnvs : out' = [out EXCEPT !["finalize"] = e]
    /\ Goto("finalize", "rec_lock")
    /\ UNCHANGED <<envUnit, lock, buses, files, snap, gone, seen, history>>

-----------------------------------------------------------------------------
(* Ends: the session is stopped, or a process dies.                        *)

\* The compositor unit stops, for whatever reason.  systemd kills what is left
\* in its cgroup, then stops wayland-wm-env@, whose ExecStopPost is cleanup-env.
Stop ==
    /\ envUnit = "active"
    /\ LET killed == IF Detached THEN {"watcher"} ELSE Helpers
       IN /\ pc' = [p \in Procs |-> IF p = "cleanup" THEN "acquire"
                                    ELSE IF p \in killed /\ Running(p) THEN "idle"
                                    ELSE pc[p]]
          /\ lock' = IF lock \in killed THEN Free ELSE lock
          /\ Forget(killed)
    /\ envUnit' = "stopping"
    /\ UNCHANGED <<buses, files, history>>

\* Killed, or an error return, at any step.  The unit has failed, and systemd
\* runs its ExecStopPost.  A kill while the shell runs leaves vars_<mark>.
PrepareDies ==
    /\ Running("prepare")
    /\ strayVars' \in
            IF pc["prepare"] = "shell" THEN {strayVars, strayVars \cup {genFile}}
            ELSE {strayVars}
    /\ tainted' = (tainted \/ pc["prepare"] \in TornSteps)
    /\ envUnit' = "stopping"
    /\ pc' = [pc EXCEPT !["prepare"] = "idle", !["cleanup"] = "acquire"]
    /\ Release("prepare")
    /\ Forget({"prepare"})
    /\ UNCHANGED <<buses, genFile, preFile, cleanFile, base, exported, unrecorded>>

\* cleanup-env dies or fails: its session's state is abandoned on disk.
CleanupDies ==
    /\ Running("cleanup")
    /\ tainted' = (tainted \/ pc["cleanup"] \in TornSteps)
    /\ envUnit' = "inactive"
    /\ Goto("cleanup", "idle")
    /\ Release("cleanup")
    /\ Forget({"cleanup"})
    /\ UNCHANGED <<buses, files, base, exported, unrecorded>>

HelperDies(p) ==
    /\ Running(p)
    /\ Goto(p, "idle")
    /\ Release(p)
    /\ Forget({p})
    /\ UNCHANGED <<envUnit, buses, files, history>>

-----------------------------------------------------------------------------

Init ==
    /\ envUnit = "inactive"
    /\ pc = [p \in Procs |-> "idle"]
    /\ lock = Free
    /\ sysEnv \in InitialEnvs
    /\ dbusEnv = sysEnv
    /\ genFile = NoGen
    /\ preFile = NoFile
    /\ cleanFile = NoFile
    /\ strayVars = {}
    /\ snap = [p \in Procs |-> EmptyEnv]
    /\ out = [p \in Procs |-> EmptyEnv]
    /\ gone = [p \in Procs |-> {}]
    /\ seen = [p \in Procs |-> {}]
    /\ base = sysEnv
    /\ exported = {}
    /\ unrecorded = {}
    /\ tainted = FALSE

Prepare ==
    \/ TakeSnapshot
    \/ Restore("prepare")
    \/ WriteGen
    \/ WritePre
    \/ WriteList
    \/ WriteAux
    \/ RunLoader
    \/ Record("prepare")
    \/ DropOnDBus
    \/ DropOnSystemd

Watcher  == WatchStart \/ WatchDelta \/ Record("watcher")
Finalize == FinalizeStart \/ Record("finalize")
Cleanup  == Restore("cleanup")

Next ==
    \/ Start
    \/ Prepare
    \/ Watcher
    \/ Finalize
    \/ Cleanup
    \/ CompositorPublishes
    \/ Stop
    \/ PrepareDies
    \/ CleanupDies
    \/ \E p \in Helpers : HelperDies(p)

Spec == Init /\ [][Next]_vars

\* systemd keeps a started ExecStopPost running, its bus calls return, and a
\* blocked flock is granted in turn; another process that is not killed gets on
\* with its critical section.
FairSpec ==
    /\ Spec
    /\ SF_vars(Cleanup)
    /\ \A p \in Helpers : WF_vars(Record(p))

-----------------------------------------------------------------------------
(* Properties.                                                             *)

Steps == RestoreSteps \cup BeginSteps
         \cup {"idle", "done", "snapshot", "acquire", "aux", "shell", "rec_lock",
               "rec_write", "apply", "apply_dbus", "drop_dbus", "drop", "watch", "wait"}

\* The variables hold values of their kind.
TypeOK ==
    /\ envUnit \in {"inactive", "starting", "active", "stopping"}
    /\ pc \in [Procs -> Steps]
    /\ lock \in Procs \cup {Free}
    /\ sysEnv \in Env
    /\ dbusEnv \in Env
    /\ genFile \in Gens \cup {NoGen}
    /\ preFile \in {NoFile} \cup Env
    /\ cleanFile \in {NoFile} \cup SUBSET Entry
    /\ strayVars \subseteq Gens
    /\ snap \in [Procs -> Env]
    /\ out \in [Procs -> Env]
    /\ gone \in [Procs -> SUBSET Names]
    /\ seen \in [Procs -> SUBSET Entry]
    /\ base \in Env
    /\ exported \subseteq Names
    /\ unrecorded \subseteq Names
    /\ tainted \in BOOLEAN

\* Every variable that prepare-env, the watcher or finalize has exported for
\* the generation on record has a cleanup entry of that generation, unless it
\* is one that cleanup must never touch: append_cleanup comes before
\* set_systemd_vars, no concurrent append loses an entry, and no death of a
\* process separates the two the wrong way round.
RecordedBeforeExport ==
    (genFile # NoGen /\ cleanFile # NoFile) =>
        \A n \in exported \ NEVER_CLEANUP : n \in Listed

\* The cleanup list never holds an entry of a generation other than the one on
\* record, whatever died in begin_generation or restore_and_clear_locked: no
\* session can be cleaned up with another session's entries.
OneGenerationOnFile ==
    \A e \in Entries : e.gen = genFile

\* A variable with a value on the D-Bus daemon is also set on systemd, at every
\* intermediate step and after every partial failure.  restore_and_clear_locked
\* only unsets names it finds on systemd, so a variable left behind on D-Bus
\* alone could never be cleared again.
DBusNeverAhead ==
    ~Broker => \A n \in Names : dbusEnv[n] \notin {Absent, Empty} => sysEnv[n] # Absent

\* The names whose pre-session state a restore owes: everything that was set
\* before, and every other name except the protected ones and what the
\* compositor published without a record.
Owed == {n \in Names : \/ base[n] # Absent
                       \/ n \notin NEVER_CLEANUP /\ (n \in always_cleanup \/ n \notin unrecorded)}

\* cleanup-env has succeeded, or prepare-env has just resolved what an
\* abandoned session left.
JustRestored == pc["cleanup"] = "done" \/ pc["prepare"] = "write_gen"

\* When a restore completes, the activation environment is again the one from
\* before the session, after any interleaving of prepare-env, watcher, finalize
\* and compositor and any deaths and retries on the way, as long as env_pre is
\* a snapshot of that environment (tainted names the two ways it is not); and
\* no state file is left.
EnvironmentRestored ==
    JustRestored =>
        /\ NoStateFiles
        /\ ~tainted => \A n \in Owed : sysEnv[n] = base[n]

\* Once the session is stopping, cleanup-env gets the lock and finishes (or
\* dies): no process that died or was killed in a critical section blocks it.
StopCompletes == (envUnit = "stopping") ~> (envUnit = "inactive")

(* Statements of the documentation that the code does not satisfy.         *)

\* "A new generation resolves abandoned old state before saving its own
\* snapshot": what begin_generation is about to save as env_pre, having resolved
\* an abandoned generation whose own record was sound, is the environment that
\* resolution left.
SnapshotIsResolved ==
    (pc["prepare"] = "write_gen" /\ ~tainted) => snap["prepare"] = sysEnv

\* "Cleanup restores the pre-session activation environment": a variable that
\* was set before the session is still set after a cleanup that succeeded.
CleanupKeepsPreexisting ==
    pc["cleanup"] = "done" => \A n \in Defined(base) : sysEnv[n] # Absent

\* Cleanup "removes variables introduced by this session generation": after a
\* session whose watcher finished its work, a successful cleanup leaves no
\* variable that was not there before, the protected ones apart.
SessionVariablesRemoved ==
    (pc["cleanup"] = "done" /\ pc["watcher"] = "done" /\ ~tainted) =>
        Defined(sysEnv) \subseteq Defined(base) \cup NEVER_CLEANUP

\* wsmr "updates both the systemd user-manager environment and the D-Bus
\* activation environment, then restores their previous state at logout": a
\* variable that the session exported and that was not set before is, after a
\* successful cleanup, not set on the D-Bus daemon either.
DBusStateRestored ==
    (pc["cleanup"] = "done" /\ ~tainted) =>
        \A n \in exported \ NEVER_CLEANUP : base[n] = Absent => dbusEnv[n] = Absent
=============================================================================
