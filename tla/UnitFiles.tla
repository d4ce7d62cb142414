------------------------------ MODULE UnitFiles ------------------------------
(***************************************************************************)
(* The generated unit files of one rung directory and their ownership      *)
(* manifest (src/units/plan.rs, generate.rs, manifest.rs), as `wsmr start` *)
(* (generate) and `wsmr stop -r` (remove) change them.  There is no lock:  *)
(* several runs may overlap, a user, an editor or uwsm may change any file *)
(* at any time, a write may fail, and a run may be killed between any two  *)
(* writes.  One step is the read of one file, one atomic_write or one      *)
(* unlink.                                                                 *)
(*                                                                         *)
(* Content is what a fingerprint tells apart.  The order of the files in   *)
(* one batch is not fixed: they are different paths, only "all writes,     *)
(* then all removals, then the manifest" matters.                          *)
(***************************************************************************)
CONSTANTS
    Runs,           \* wsmr processes that generate or remove
    Static,         \* the files of templates::GRAPH
    Dropins,        \* 50_custom.conf files and tweaks: is_removable_dropin
    Contents,       \* what a file can hold
    NoFile,         \* there is no such file; not in the manifest
    Keep,           \* the plan leaves the file alone
    Configs,        \* what plan_generate can be asked for
    RemovalMarks,   \* the drop-ins the marks of `stop -r` can select
    ForeignContents \* what others can write; if empty, nobody else does anything

Paths == Static \cup Dropins
Files == [Paths -> Contents \cup {NoFile}]

ASSUME UnitFilesAssumption ==
    /\ Static \cap Dropins = {}
    /\ NoFile \notin Contents
    /\ Keep \notin Contents \cup {NoFile}
    \* every graph unit is always wanted; a drop-in may be unwanted (NoFile)
    /\ Configs \subseteq {c \in Files : \A n \in Static : c[n] # NoFile}
    /\ RemovalMarks \subseteq SUBSET Dropins
    /\ ForeignContents \subseteq Contents

VARIABLES
    disk,        \* the files of the rung directory
    manifest,    \* .wsmr-generation; a missing file reads as empty
    needReload,  \* a unit file changed since the user manager last read them
    pc,          \* pc[r]: the next step of run r
    want,        \* want[r]: what r wants on disk
    unread,      \* unread[r]: the files its planner still has to read
    before,      \* before[r][n]: what the planner found at n, or Keep
    todo,        \* todo[r][n]: content still to write, NoFile to remove, or Keep
    skipped,     \* skipped[r]: tracked files that are not ours any more
    mem,         \* mem[r]: r's copy of the manifest
    prev,        \* prev[r][n]: what r found at n just before its own change, or Keep
    \* History variables, read only by properties:
    wrote,       \* wrote[n]: every content wsmr has put at n
    put,         \* put[r][n]: what r's batch put at n and did not roll back (NoFile
                 \* if it removed n), or Keep
    owned,       \* owned[n]: what may be claimed at n: what the last batch that went
                 \* through put there, or those that overlapped it
    raced        \* raced[r]: files changed by somebody else since r's planner read
                 \* them, or that r failed to roll back

plan    == <<want, unread, before, todo, skipped>>
locals  == <<plan, mem, prev>>
history == <<wrote, put, owned, raced>>
vars    == <<disk, manifest, needReload, pc, locals, history>>

Nothing == [n \in Paths |-> NoFile]
AllKeep == [n \in Paths |-> Keep]

-----------------------------------------------------------------------------

\* Mutant: tracked is enough.
Verify_TrackedOnly(r, n) == mem[r][n] # NoFile

\* Manifest::verify of what was read: tracked, and still what wsmr wrote there.
Verify(r, n) == mem[r][n] # NoFile /\ mem[r][n] = before[r][n]

Goto(r, step) == pc' = [pc EXCEPT ![r] = step]

\* n changes behind the back of the other runs whose planner has read it.
Touch(n, by) ==
    raced' = [q \in Runs |-> IF q # by /\ before[q][n] # Keep
                             THEN raced[q] \cup {n} ELSE raced[q]]

\* r gives up or has used up its plan, which is not read again.
DropPlan(r) ==
    /\ todo' = [todo EXCEPT ![r] = AllKeep]
    /\ skipped' = [skipped EXCEPT ![r] = {}]
    /\ mem' = [mem EXCEPT ![r] = Nothing]

\* r has dealt with its batch; what follows is at step.
Finish(r, step) ==
    /\ Goto(r, step)
    /\ DropPlan(r)
    /\ prev' = [prev EXCEPT ![r] = AllKeep]
    /\ put' = [put EXCEPT ![r] = AllKeep]
    /\ UNCHANGED <<want, unread, before, raced>>

\* Run r is over without success, and everything of it is gone.
Quit(r) ==
    /\ Goto(r, "idle")
    /\ DropPlan(r)
    /\ prev' = [prev EXCEPT ![r] = AllKeep]
    /\ put' = [put EXCEPT ![r] = AllKeep]
    /\ want' = [want EXCEPT ![r] = Nothing]
    /\ unread' = [unread EXCEPT ![r] = {}]
    /\ before' = [before EXCEPT ![r] = AllKeep]
    /\ raced' = [raced EXCEPT ![r] = {}]

PendingWrites(r)  == {n \in Paths : todo[r][n] \in Contents}
PendingRemoves(r) == {n \in Paths : todo[r][n] = NoFile}
Pending(r)        == PendingWrites(r) \cup PendingRemoves(r)

\* The file whose previous content has been read and that is changed next, and
\* those that have been changed.
Current(r) == {n \in Pending(r) : prev[r][n] # Keep}
Applied(r) == {n \in Paths \ Pending(r) : prev[r][n] # Keep}

-----------------------------------------------------------------------------
(* Planning: only reads.                                                   *)

\* What is asked of the planner: a configuration for plan_generate, or the marks
\* of plan_remove_all, which reads those of the marked drop-ins that are tracked.
Asked(r, tracked) ==
    \/ \E c \in Configs :
          /\ Goto(r, "plan")
          /\ want' = [want EXCEPT ![r] = c]
          /\ unread' = [unread EXCEPT ![r] = Paths]
    \/ \E marked \in RemovalMarks :
          /\ Goto(r, "plan_rm")
          /\ want' = [want EXCEPT ![r] = Nothing]
          /\ unread' = [unread EXCEPT ![r] = {n \in marked : tracked[n] # NoFile}]

\* Manifest::load, the first thing both planners do.
LoadManifest(r) ==
    /\ pc[r] \in {"idle", "done"}
    /\ mem' = [mem EXCEPT ![r] = manifest]
    /\ Asked(r, manifest)
    /\ raced' = [raced EXCEPT ![r] = {}]
    /\ before' = [before EXCEPT ![r] = AllKeep]
    /\ UNCHANGED <<disk, manifest, needReload, todo, skipped, prev, wrote, put, owned>>

\* One file is read, to be classified by what is in it now.
ReadFile(r) ==
    /\ pc[r] \in {"plan", "plan_rm"}
    /\ \E n \in unread[r] :
          /\ unread' = [unread EXCEPT ![r] = @ \ {n}]
          /\ before' = [before EXCEPT ![r][n] = disk[n]]
    /\ UNCHANGED <<disk, manifest, needReload, pc, want, todo, skipped, mem, prev, history>>

\* classify_write and classify_dropin: a graph unit that differs and is not
\* ours is a conflict; a foreign drop-in is reclaimed (start passes
\* reclaim_stale); an unwanted drop-in goes only if it is ours.
Conflicts(r) ==
    {n \in Static : before[r][n] \notin {NoFile, want[r][n]} /\ ~Verify(r, n)}

\* Mutant: a foreign drop-in is neither reclaimed nor a conflict.
PlannedWrites_NoReclaim(r) ==
    {n \in Paths : /\ want[r][n] # NoFile
                   /\ before[r][n] # want[r][n]
                   /\ before[r][n] = NoFile \/ Verify(r, n)}

PlannedWrites(r) ==
    {n \in Paths : /\ want[r][n] # NoFile
                   /\ before[r][n] # want[r][n]
                   /\ before[r][n] = NoFile \/ Verify(r, n) \/ n \in Dropins}

PlannedRemoves(r) ==
    {n \in Dropins : want[r][n] = NoFile /\ before[r][n] # NoFile /\ Verify(r, n)}

\* The writes and removals of a plan to generate.
Generation(r) ==
    [n \in Paths |-> IF n \in PlannedWrites(r) THEN want[r][n]
                     ELSE IF n \in PlannedRemoves(r) THEN NoFile
                     ELSE Keep]

\* plan_generate has read every file; start.rs and apply_generate check for
\* conflicts.
PlanGenerate(r) ==
    /\ pc[r] = "plan"
    /\ unread[r] = {}
    /\ \/ /\ Conflicts(r) = {}
          /\ Goto(r, "apply")
          /\ todo' = [todo EXCEPT ![r] = Generation(r)]
          /\ UNCHANGED <<want, unread, before, skipped, mem, prev, put, raced>>
       \/ /\ Conflicts(r) # {}
          /\ Quit(r)
    /\ UNCHANGED <<disk, manifest, needReload, wrote, owned>>

\* plan_remove_all: of the files it read, those that are gone or ours.
PlanRemoveAll(r) ==
    /\ pc[r] = "plan_rm"
    /\ unread[r] = {}
    /\ LET read == {n \in Paths : before[r][n] # Keep}
           ours == {n \in read : before[r][n] = NoFile \/ Verify(r, n)}
       IN /\ todo' = [todo EXCEPT ![r] =
                 [n \in Paths |-> IF n \in ours THEN NoFile ELSE Keep]]
          /\ skipped' = [skipped EXCEPT ![r] = read \ ours]
    /\ Goto(r, "apply")
    /\ UNCHANGED <<disk, manifest, needReload, want, unread, before, mem, prev, history>>

-----------------------------------------------------------------------------
(* apply_generate and apply_removal.                                       *)

Change(r, n, content) ==
    /\ disk' = [disk EXCEPT ![n] = content]
    /\ needReload' = (needReload \/ disk[n] # content)
    /\ Touch(n, r)

\* The previous content of the next file, for the rollback: first all writes, then
\* the removals.
ReadPrevious(r) ==
    /\ pc[r] = "apply"
    /\ Current(r) = {}
    /\ \E n \in IF PendingWrites(r) # {} THEN PendingWrites(r) ELSE PendingRemoves(r) :
          prev' = [prev EXCEPT ![r][n] = disk[n]]
    /\ UNCHANGED <<disk, manifest, needReload, pc, plan, mem, history>>

\* Mutant: the previous content is read after the write.
ApplyWrite_PrevAfter(r) ==
    /\ pc[r] = "apply"
    /\ \E n \in Current(r) \cap PendingWrites(r) :
          /\ Change(r, n, todo[r][n])
          /\ prev' = [prev EXCEPT ![r][n] = todo[r][n]]
          /\ mem' = [mem EXCEPT ![r][n] = todo[r][n]]
          /\ wrote' = [wrote EXCEPT ![n] = @ \cup {todo[r][n]}]
          /\ put' = [put EXCEPT ![r][n] = todo[r][n]]
          /\ todo' = [todo EXCEPT ![r][n] = Keep]
    /\ UNCHANGED <<manifest, pc, want, unread, before, skipped, owned>>

ApplyWrite(r) ==
    /\ pc[r] = "apply"
    /\ \E n \in Current(r) \cap PendingWrites(r) :
          /\ Change(r, n, todo[r][n])
          /\ mem' = [mem EXCEPT ![r][n] = todo[r][n]]
          /\ wrote' = [wrote EXCEPT ![n] = @ \cup {todo[r][n]}]
          /\ put' = [put EXCEPT ![r][n] = todo[r][n]]
          /\ todo' = [todo EXCEPT ![r][n] = Keep]
    /\ UNCHANGED <<manifest, pc, want, unread, before, skipped, prev, owned>>

\* A file that is already gone counts as removed.
ApplyRemove(r) ==
    /\ pc[r] = "apply"
    /\ \E n \in Current(r) \cap PendingRemoves(r) :
          /\ Change(r, n, NoFile)
          /\ mem' = [mem EXCEPT ![r][n] = NoFile]
          /\ put' = [put EXCEPT ![r][n] = NoFile]
          /\ todo' = [todo EXCEPT ![r][n] = Keep]
    /\ UNCHANGED <<manifest, pc, want, unread, before, skipped, prev, wrote, owned>>

\* What is to be rolled back: the file that failed was not changed.
OnlyApplied(r) == [n \in Paths |-> IF n \in Applied(r) THEN prev[r][n] ELSE Keep]

\* Mutant: the manifest is saved on the way out as well.
ApplyFails_Saves(r) ==
    /\ pc[r] = "apply"
    /\ Current(r) # {}
    /\ Goto(r, "rollback")
    /\ DropPlan(r)
    /\ prev' = [prev EXCEPT ![r] = OnlyApplied(r)]
    /\ manifest' = mem[r]
    /\ UNCHANGED <<disk, needReload, want, unread, before, history>>

\* A write or an unlink fails: the batch is rolled back.
ApplyFails(r) ==
    /\ pc[r] = "apply"
    /\ Current(r) # {}
    /\ Goto(r, "rollback")
    /\ DropPlan(r)
    /\ prev' = [prev EXCEPT ![r] = OnlyApplied(r)]
    /\ UNCHANGED <<disk, manifest, needReload, want, unread, before, history>>

\* Mutant: files the batch never reached are rolled back too.
Rollback_All(r) ==
    /\ pc[r] = "rollback"
    /\ \E n \in Paths :
          /\ prev' = [prev EXCEPT ![r][n] = Keep]
          /\ Change(r, n, prev[r][n])
          /\ put' = [put EXCEPT ![r][n] = Keep]
    /\ UNCHANGED <<manifest, pc, plan, mem, wrote, owned>>

\* rollback puts back what the batch replaced; its own errors are ignored.
Rollback(r) ==
    /\ pc[r] = "rollback"
    /\ \E n \in Applied(r) :
          /\ prev' = [prev EXCEPT ![r][n] = Keep]
          /\ put' = [put EXCEPT ![r][n] = Keep]
          /\ \/ Change(r, n, prev[r][n])
             \/ /\ raced' = [raced EXCEPT ![r] = @ \cup {n}]
                /\ UNCHANGED <<disk, needReload>>
    /\ UNCHANGED <<manifest, pc, plan, mem, wrote, owned>>

\* The error is returned; nothing of the manifest was saved.
RolledBack(r) ==
    /\ pc[r] = "rollback"
    /\ Applied(r) = {}
    /\ Finish(r, "failed")
    /\ UNCHANGED <<disk, manifest, needReload, wrote, owned>>

\* Nothing was changed and nothing is to be forgotten: no save, no reload.
NothingChanged(r) ==
    /\ pc[r] = "apply"
    /\ Pending(r) = {} /\ Applied(r) = {} /\ skipped[r] = {}
    /\ Finish(r, "done")
    /\ UNCHANGED <<disk, manifest, needReload, wrote, owned>>

\* What r's batch put at a path is what may be claimed there from now on; runs
\* that loaded the manifest before may still put back what it claimed.
Overlapped(r) == \E q \in Runs \ {r} : pc[q] \in {"plan", "plan_rm", "apply"}
NowOwned(r) ==
    [n \in Paths |->
        IF put[r][n] = Keep THEN owned[n]
        ELSE ({put[r][n]} \ {NoFile}) \cup (IF Overlapped(r) THEN owned[n] ELSE {})]

\* manifest.save, once, at the end of the batch.
SaveManifest(r) ==
    /\ pc[r] = "apply"
    /\ Pending(r) = {}
    /\ Applied(r) \cup skipped[r] # {}
    /\ manifest' = [n \in Paths |-> IF n \in skipped[r] THEN NoFile ELSE mem[r][n]]
    /\ owned' = NowOwned(r)
    /\ Finish(r, IF Applied(r) # {} THEN "reload" ELSE "done")
    /\ UNCHANGED <<disk, needReload, wrote>>

\* bus.reload, only after a batch that changed something.
Reload(r) ==
    /\ pc[r] = "reload"
    /\ needReload' = FALSE
    /\ Finish(r, "done")
    /\ UNCHANGED <<disk, manifest, wrote, owned>>

\* Killed at any point, or an error return: of the save or of the reload, with
\* no rollback, or of the batch after its rollback.
Die(r) ==
    /\ pc[r] \notin {"idle", "done"}
    /\ Quit(r)
    /\ UNCHANGED <<disk, manifest, needReload, wrote, owned>>

\* Somebody else writes or removes a file; nobody does without ForeignContents.
Foreign(n) ==
    /\ ForeignContents # {}
    /\ \E content \in ForeignContents \cup {NoFile} :
          /\ content # disk[n]
          /\ disk' = [disk EXCEPT ![n] = content]
    /\ needReload' = TRUE
    /\ raced' = [q \in Runs |-> IF before[q][n] # Keep
                                THEN raced[q] \cup {n} ELSE raced[q]]
    /\ UNCHANGED <<manifest, pc, locals, wrote, put, owned>>

-----------------------------------------------------------------------------

Init ==
    /\ disk = Nothing
    /\ manifest = Nothing
    /\ needReload = FALSE
    /\ pc = [r \in Runs |-> "idle"]
    /\ want = [r \in Runs |-> Nothing]
    /\ unread = [r \in Runs |-> {}]
    /\ before = [r \in Runs |-> AllKeep]
    /\ todo = [r \in Runs |-> AllKeep]
    /\ skipped = [r \in Runs |-> {}]
    /\ mem = [r \in Runs |-> Nothing]
    /\ prev = [r \in Runs |-> AllKeep]
    /\ wrote = [n \in Paths |-> {}]
    /\ put = [r \in Runs |-> AllKeep]
    /\ owned = [n \in Paths |-> {}]
    /\ raced = [r \in Runs |-> {}]

Step(r) ==
    \/ LoadManifest(r)
    \/ ReadFile(r)
    \/ PlanGenerate(r)
    \/ PlanRemoveAll(r)
    \/ ReadPrevious(r)
    \/ ApplyWrite(r)
    \/ ApplyRemove(r)
    \/ ApplyFails(r)
    \/ Rollback(r)
    \/ RolledBack(r)
    \/ NothingChanged(r)
    \/ SaveManifest(r)
    \/ Reload(r)
    \/ Die(r)

Next ==
    \/ \E r \in Runs : Step(r)
    \/ \E n \in Paths : Foreign(n)

Spec == Init /\ [][Next]_vars

-----------------------------------------------------------------------------
(* Properties.                                                             *)

MaybeFiles == [Paths -> Contents \cup {NoFile, Keep}]

\* The variables hold values of their kind.
FilesTypeOK ==
    /\ disk \in Files
    /\ manifest \in Files
    /\ needReload \in BOOLEAN
    /\ pc \in [Runs -> {"idle", "plan", "plan_rm", "apply", "rollback",
                        "failed", "reload", "done"}]
    /\ want \in [Runs -> Files]
    /\ unread \in [Runs -> SUBSET Paths]
    /\ before \in [Runs -> MaybeFiles]
    /\ todo \in [Runs -> MaybeFiles]
    /\ skipped \in [Runs -> SUBSET Paths]
    /\ mem \in [Runs -> Files]
    /\ prev \in [Runs -> MaybeFiles]
    /\ wrote \in [Paths -> SUBSET Contents]
    /\ put \in [Runs -> MaybeFiles]
    /\ owned \in [Paths -> SUBSET Contents]
    /\ raced \in [Runs -> SUBSET Paths]

\* What the manifest claims at a path is what the last batch that changed it and
\* went through put there, whatever runs failed, were rolled back or died since:
\* no file found already right, no write that was rolled back or whose run died
\* before the save, no file removed, and no older content.  Only a run that
\* loaded the manifest before that batch saved it can put the claim back that it
\* had loaded: the last save wins.
ManifestTruthful ==
    \A n \in Paths : manifest[n] # NoFile => manifest[n] \in owned[n]

\* The files that run r's planner has read and nobody else changed since.
Seen(r) == {n \in Paths : before[r][n] # Keep} \ raced[r]

\* A step of wsmr never removes a file, and never replaces a graph unit, whose
\* content somebody else put there, unless it was changed after the planner read
\* it (plan and apply are not atomic); a foreign drop-in may be replaced by
\* wsmr's own (reclaimed), and a rollback then puts it back.
ForeignFilesKept ==
    [][ \A r \in Runs : \A n \in Seen(r) :
            (disk'[n] # disk[n] /\ disk[n] # NoFile /\ Step(r))
                => \/ disk[n] \in wrote[n]
                   \/ n \in Dropins /\ disk'[n] \in wrote'[n] ]_vars

\* A batch that failed and was rolled back has left every file as its plan
\* found it, the ones others changed meanwhile apart: no mixed old and new
\* graph.
FailedBatchLeavesNothing ==
    \A r \in Runs : pc[r] = "failed" => \A n \in Seen(r) : disk[n] = before[r][n]

\* A start that goes on to the session finds on disk exactly the unit files it
\* wants, whatever earlier runs left; an unwanted drop-in that is still there is
\* one that was there before.
StartFindsItsUnits ==
    \A r \in Runs :
        (pc[r] \in {"reload", "done"} /\ want[r] # Nothing) =>
            \A n \in Seen(r) : \/ disk[n] = want[r][n]
                               \/ want[r][n] = NoFile /\ disk[n] = before[r][n]

(* Statements of the documentation that the code does not satisfy.         *)

\* The manifest "records a fingerprint of every file wsmr actually wrote": after
\* a start that succeeded, every file that holds what wsmr put there is tracked.
ManifestRecordsWrites ==
    (\A r \in Runs : pc[r] = "done" /\ want[r] # Nothing) =>
        \A n \in Paths : disk[n] \in wrote[n] => manifest[n] = disk[n]

\* "The binary and the units it expects cannot drift apart": a start that goes
\* on to the session, on files nobody else touched, leaves the user manager
\* with the units as they are on disk.
StartedUnitsAreLoaded ==
    \A r \in Runs : (pc[r] = "done" /\ want[r] # Nothing) => ~needReload
=============================================================================
