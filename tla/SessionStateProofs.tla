------------------------- MODULE SessionStateProofs -------------------------
(***************************************************************************)
(* Theorems about SessionState, for every set of names, values, policies,  *)
(* generation ids and environments.  In order: who writes which file when, *)
(* which gives the types and the one generation on file; then, as long as  *)
(* finalize runs inside the compositor's cgroup, that nothing is exported  *)
(* without a cleanup record, that a completed restore brings back the      *)
(* pre-session environment, that the D-Bus daemon is never ahead of        *)
(* systemd, and that all of it implements SessionLedger: initial states    *)
(* map to initial states, and each step to a step of the ledger or none.   *)
(***************************************************************************)
EXTENDS SessionRefinement, TLAPS

-----------------------------------------------------------------------------
(* The operators of EnvPolicy stay among environments.                     *)

\* Every environment the model computes is an environment.
LEMMA EnvClosure ==
    /\ EmptyEnv \in Env
    /\ \A e \in Env, v \in Env : SetVars(e, v) \in Env
    /\ \A e \in Env : \A s : UnsetVars(e, s) \in Env /\ BlankVars(e, s) \in Env
    /\ \A a \in Env, b \in Env : ChangesSet(a, b) \in Env /\ ChangesUnset(a, b) \subseteq Names
BY PolicyAssumption
   DEF EmptyEnv, Env, SetVars, UnsetVars, BlankVars, ChangesSet, ChangesUnset, Defined

\* What is read from files of the right type has the right type.
LEMMA ReadClosure ==
    ASSUME TypeOK
    PROVE  /\ Entries \in SUBSET Entry
           /\ Snapshot \in Env
           /\ Listed \subseteq Names
           /\ ToUnset(Listed, Snapshot, sysEnv) \subseteq Names
BY EnvClosure, PolicyAssumption DEF TypeOK, Entries, Snapshot, Listed, ToUnset, always_cleanup

\* Forgetting the locals of some processes keeps their types.
LEMMA ForgetType ==
    ASSUME TypeOK, NEW ps, Forget(ps)
    PROVE  /\ snap' \in [Procs -> Env]
           /\ out' \in [Procs -> Env]
           /\ gone' \in [Procs -> SUBSET Names]
           /\ seen' \in [Procs -> SUBSET Entry]
BY EnvClosure DEF TypeOK, Forget

-----------------------------------------------------------------------------
(* The inductive invariant.                                                *)

RecordSteps == {"rec_lock", "rec_write", "apply", "apply_dbus"}
LoadedSteps == {"aux", "shell", "drop_dbus", "drop"} \cup RecordSteps

\* Each process is at a step of its own code.
StepInv ==
    /\ pc["prepare"] \in {"idle", "snapshot", "acquire"}
                         \cup RestoreSteps \cup BeginSteps \cup LoadedSteps
    /\ pc["watcher"] \in {"idle", "done", "watch", "wait"} \cup RecordSteps
    /\ pc["finalize"] \in {"idle", "done"} \cup RecordSteps
    /\ pc["cleanup"] \in {"idle", "done", "acquire"} \cup RestoreSteps

\* What systemd's ordering of the units gives.
OrderInv ==
    /\ Running("prepare") <=> envUnit = "starting"
    /\ Running("cleanup") <=> envUnit = "stopping"
    /\ Running("watcher") => envUnit = "active"
    /\ Running("finalize") => envUnit = "active" \/ Detached

\* The lock is held by exactly the process that is in a critical section.
LockInv == \A p \in Procs : lock = p <=> pc[p] \in LockedSteps

\* A generation is on record whenever any state is; it is complete while the
\* session is loading or running; and a critical section sees its own writes.
FileInv ==
    /\ OneGenerationOnFile
    /\ genFile = NoGen => NoStateFiles
    /\ (pc["prepare"] \in LoadedSteps \/ envUnit = "active") =>
           genFile # NoGen /\ preFile # NoFile /\ cleanFile # NoFile
    /\ \A p \in Procs :
           /\ pc[p] \in RestoreSteps \ {"sweep"} => genFile # NoGen
           /\ pc[p] \in {"rm_pre", "rm_gen"} => cleanFile = NoFile
           /\ pc[p] = "rm_gen" => preFile = NoFile
           /\ pc[p] \in {"sweep", "write_gen"} => NoStateFiles
           /\ pc[p] \in {"write_pre", "write_list"} => genFile # NoGen /\ cleanFile = NoFile
           /\ pc[p] = "write_list" => preFile # NoFile
           /\ pc[p] = "rec_write" => genFile # NoGen /\ seen[p] = Entries

Inv == TypeOK /\ StepInv /\ OrderInv /\ LockInv /\ FileInv

\* Forgetting some processes' locals leaves the others' entries alone.
LEMMA ForgetSeen ==
    ASSUME NEW ps, Forget(ps)
    PROVE  \A q \in Procs \ ps : seen'[q] = seen[q]
BY DEF Forget

\* A step that leaves the state files alone, and every process that is in a
\* critical section after it where it was.
FileFrame ==
    /\ UNCHANGED <<genFile, preFile, cleanFile>>
    /\ (pc'["prepare"] \in LoadedSteps \/ envUnit' = "active") =>
           (pc["prepare"] \in LoadedSteps \/ envUnit = "active")
    /\ \A q \in Procs : pc'[q] \in LockedSteps => pc'[q] = pc[q] /\ seen'[q] = seen[q]

LEMMA FileFrameKeeps ==
    ASSUME FileInv, FileFrame
    PROVE  FileInv'
<1>1. OneGenerationOnFile' /\ (genFile = NoGen => NoStateFiles)'
      /\ (NoStateFiles' <=> NoStateFiles) /\ Entries' = Entries
  BY DEF FileInv, FileFrame, OneGenerationOnFile, Entries, NoStateFiles
<1>2. (pc["prepare"] \in LoadedSteps \/ envUnit = "active")' =>
          (genFile # NoGen /\ preFile # NoFile /\ cleanFile # NoFile)'
  BY DEF FileInv, FileFrame
<1>3. ASSUME NEW q \in Procs, pc'[q] \in LockedSteps
      PROVE  pc'[q] = pc[q] /\ seen'[q] = seen[q]
             /\ UNCHANGED <<genFile, preFile, cleanFile>>
  BY <1>3 DEF FileFrame
<1>4. QED
  BY <1>1, <1>2, <1>3 DEF FileInv, LockedSteps, RestoreSteps, BeginSteps

\* An empty cleanup list is not a missing one.
LEMMA EmptyListIsAFile == {} # NoFile
BY SessionAssumption

\* The watcher's delta is an environment.
LEMMA DeltaType ==
    ASSUME TypeOK
    PROVE  [n \in Names |->
               IF sysEnv[n] # snap["watcher"][n] THEN sysEnv[n] ELSE Absent] \in Env
BY DEF TypeOK, Env

\* The variables an environment holds are names.
LEMMA DefinedNames == \A e : Defined(e) \subseteq Names
BY DEF Defined

\* What append_cleanup writes: entries of the generation on record.
LEMMA RecordEntries ==
    ASSUME Inv, NEW p \in Procs, pc[p] = "rec_write", RecordWrite(p)
    PROVE  /\ cleanFile' \in {NoFile} \cup SUBSET Entry
           /\ cleanFile' # NoFile => \A e \in cleanFile' : e.gen = genFile
           /\ cleanFile # NoFile => cleanFile' # NoFile /\ cleanFile \subseteq cleanFile'
<1>1. genFile \in Gens /\ seen[p] = Entries
  BY DEF Inv, FileInv, TypeOK
<1>2. \A t \in Tagged(RecordNames(p)) : t \in Entry /\ t.gen = genFile
  BY <1>1, DefinedNames DEF Tagged, RecordNames, Entry
<1>3. Entries \in SUBSET Entry /\ \A e \in Entries : e.gen = genFile
  BY ReadClosure DEF Inv, FileInv, OneGenerationOnFile
<1>4. CASE Tagged(RecordNames(p)) \subseteq seen[p]
  BY <1>3, <1>4 DEF RecordWrite, Inv, TypeOK, Entries
<1>5. CASE ~(Tagged(RecordNames(p)) \subseteq seen[p])
  <2>1. cleanFile' = Entries \cup Tagged(RecordNames(p))
    BY <1>1, <1>5 DEF RecordWrite
  <2>2. cleanFile' \in SUBSET Entry
    BY <2>1, <1>2, <1>3
  <2>3. cleanFile' # NoFile
    BY <2>2, SessionAssumption DEF Entry
  <2>4. QED
    BY <2>1, <2>2, <2>3, <1>2, <1>3 DEF Entries
<1>6. QED  BY <1>4, <1>5

-----------------------------------------------------------------------------
(* Every step preserves the invariant.                                     *)

\* restore_and_clear_locked, in prepare-env or in cleanup-env.
LEMMA RestoreKeepsInv ==
    ASSUME Inv, NEW p \in {"prepare", "cleanup"}, Restore(p)
    PROVE  Inv'
<1> USE DEF Goto, Procs, Helpers, unitVars, buses, files, locals, history
<1>1. CASE NothingToRestore(p)
  <2>1. TypeOK'
    BY <1>1 DEF NothingToRestore, Inv, TypeOK, Steps, RestoreSteps, BeginSteps
  <2>2. (StepInv /\ OrderInv /\ LockInv)'
    BY <1>1 DEF NothingToRestore, Inv, TypeOK, StepInv, OrderInv, LockInv, Running, Free,
             LockedSteps, RestoreSteps, BeginSteps, RecordSteps, LoadedSteps
  <2>3. FileInv'
    BY <1>1 DEF NothingToRestore, Inv, TypeOK, StepInv, OrderInv, LockInv, FileInv, Running,
             Free, NoStateFiles, Entries, OneGenerationOnFile, LockedSteps, RestoreSteps,
             BeginSteps, RecordSteps, LoadedSteps
  <2>4. QED  BY <2>1, <2>2, <2>3 DEF Inv
<1>2. CASE PlanRestore(p)
  <2>1. TypeOK'
    BY <1>2, ReadClosure DEF PlanRestore, Inv, TypeOK, Steps, RestoreSteps, BeginSteps
  <2>2. (StepInv /\ OrderInv /\ LockInv)'
    BY <1>2 DEF PlanRestore, Inv, TypeOK, StepInv, OrderInv, LockInv, Running, Free,
             LockedSteps, RestoreSteps, BeginSteps, RecordSteps, LoadedSteps
  <2>3. FileInv'
    BY <1>2 DEF PlanRestore, Inv, TypeOK, StepInv, OrderInv, LockInv, FileInv, Running, Free,
             NoStateFiles, Entries, OneGenerationOnFile, LockedSteps, RestoreSteps, BeginSteps,
             RecordSteps, LoadedSteps
  <2>4. QED  BY <2>1, <2>2, <2>3 DEF Inv
<1>3. CASE RestoreBusStep(p)
  <2>1. TypeOK'
    BY <1>3, EnvClosure DEF RestoreBusStep, Inv, TypeOK, Steps, RestoreSteps, BeginSteps,
             UnsetOnDBus, UnsetOnSystemd, SetOnSystemd, SetOnDBus
  <2>2. (StepInv /\ OrderInv /\ LockInv)'
    BY <1>3 DEF RestoreBusStep, Inv, TypeOK, StepInv, OrderInv, LockInv, Running, Free,
             LockedSteps, RestoreSteps, BeginSteps, RecordSteps, LoadedSteps, UnsetOnDBus,
             UnsetOnSystemd, SetOnSystemd, SetOnDBus
  <2>3. FileInv'
    BY <1>3 DEF RestoreBusStep, Inv, TypeOK, StepInv, OrderInv, LockInv, FileInv, Running,
             Free, NoStateFiles, Entries, OneGenerationOnFile, LockedSteps, RestoreSteps,
             BeginSteps, RecordSteps, LoadedSteps, UnsetOnDBus, UnsetOnSystemd, SetOnSystemd,
             SetOnDBus
  <2>4. QED  BY <2>1, <2>2, <2>3 DEF Inv
<1>4. CASE RemoveList(p)
  <2>1. TypeOK'
    BY <1>4 DEF RemoveList, Inv, TypeOK, Steps, RestoreSteps, BeginSteps
  <2>2. (StepInv /\ OrderInv /\ LockInv)'
    BY <1>4 DEF RemoveList, Inv, TypeOK, StepInv, OrderInv, LockInv, Running, Free,
             LockedSteps, RestoreSteps, BeginSteps, RecordSteps, LoadedSteps
  <2>3. FileInv'
    BY <1>4 DEF RemoveList, Inv, TypeOK, StepInv, OrderInv, LockInv, FileInv, Running, Free,
             NoStateFiles, Entries, OneGenerationOnFile, LockedSteps, RestoreSteps, BeginSteps,
             RecordSteps, LoadedSteps
  <2>4. QED  BY <2>1, <2>2, <2>3 DEF Inv
<1>5. CASE RemovePre(p)
  <2>1. TypeOK'
    BY <1>5 DEF RemovePre, Inv, TypeOK, Steps, RestoreSteps, BeginSteps
  <2>2. (StepInv /\ OrderInv /\ LockInv)'
    BY <1>5 DEF RemovePre, Inv, TypeOK, StepInv, OrderInv, LockInv, Running, Free, LockedSteps,
             RestoreSteps, BeginSteps, RecordSteps, LoadedSteps
  <2>3. FileInv'
    BY <1>5 DEF RemovePre, Inv, TypeOK, StepInv, OrderInv, LockInv, FileInv, Running, Free,
             NoStateFiles, Entries, OneGenerationOnFile, LockedSteps, RestoreSteps, BeginSteps,
             RecordSteps, LoadedSteps
  <2>4. QED  BY <2>1, <2>2, <2>3 DEF Inv
<1>6. CASE RemoveGen(p)
  <2>1. TypeOK'
    BY <1>6 DEF RemoveGen, Inv, TypeOK, Steps, RestoreSteps, BeginSteps
  <2>2. (StepInv /\ OrderInv /\ LockInv)'
    BY <1>6 DEF RemoveGen, Inv, TypeOK, StepInv, OrderInv, LockInv, Running, Free, LockedSteps,
             RestoreSteps, BeginSteps, RecordSteps, LoadedSteps
  <2>3. FileInv'
    BY <1>6 DEF RemoveGen, Inv, TypeOK, StepInv, OrderInv, LockInv, FileInv, Running, Free,
             NoStateFiles, Entries, OneGenerationOnFile, LockedSteps, RestoreSteps, BeginSteps,
             RecordSteps, LoadedSteps
  <2>4. QED  BY <2>1, <2>2, <2>3 DEF Inv
<1>7. CASE Sweep(p)
  <2>1. TypeOK'
    BY <1>7, ForgetType DEF Sweep, Inv, TypeOK, Steps, RestoreSteps, BeginSteps, Release
  <2>2. (StepInv /\ OrderInv /\ LockInv)'
    BY <1>7 DEF Sweep, Inv, TypeOK, StepInv, OrderInv, LockInv, Running, Free, LockedSteps,
             RestoreSteps, BeginSteps, RecordSteps, LoadedSteps, Release
  <2>3. FileInv'
    BY <1>7, ForgetSeen DEF Sweep, Inv, TypeOK, StepInv, OrderInv, LockInv, FileInv, Running,
             Free, NoStateFiles, Entries, OneGenerationOnFile, LockedSteps, RestoreSteps,
             BeginSteps, RecordSteps, LoadedSteps, Release
  <2>4. QED  BY <2>1, <2>2, <2>3 DEF Inv
<1>8. QED
  BY <1>1, <1>2, <1>3, <1>4, <1>5, <1>6, <1>7 DEF Restore

\* append_cleanup and the export after it.
LEMMA RecordKeepsInv ==
    ASSUME Inv, NEW p \in {"prepare", "watcher", "finalize"}, Record(p)
    PROVE  Inv'
<1> USE DEF Goto, Procs, Helpers, unitVars, buses, files, locals, history
<1>1. CASE RecordRead(p)
  <2>1. TypeOK'
    BY <1>1, ReadClosure DEF RecordRead, Inv, TypeOK, Steps, RestoreSteps, BeginSteps
  <2>2. (StepInv /\ OrderInv /\ LockInv)'
    BY <1>1 DEF RecordRead, Inv, TypeOK, StepInv, OrderInv, LockInv, Running, Free,
             LockedSteps, RestoreSteps, BeginSteps, RecordSteps, LoadedSteps
  <2>3. FileInv'
    BY <1>1 DEF RecordRead, Inv, TypeOK, StepInv, OrderInv, LockInv, FileInv, Running, Free,
             NoStateFiles, Entries, OneGenerationOnFile, LockedSteps, RestoreSteps, BeginSteps,
             RecordSteps, LoadedSteps
  <2>4. QED  BY <2>1, <2>2, <2>3 DEF Inv
<1>2. CASE p \in Helpers /\ RecordRefused(p)
  <2>1. TypeOK'
    BY <1>2, ForgetType DEF RecordRefused, Inv, TypeOK, Steps, RestoreSteps, BeginSteps
  <2>2. (StepInv /\ OrderInv /\ LockInv)'
    BY <1>2 DEF RecordRefused, Inv, TypeOK, StepInv, OrderInv, LockInv, Running, Free,
             LockedSteps, RestoreSteps, BeginSteps, RecordSteps, LoadedSteps
  <2>3. FileInv'
    BY <1>2, ForgetSeen, FileFrameKeeps DEF RecordRefused, FileFrame, Inv, TypeOK, LockedSteps,
             RestoreSteps, BeginSteps, LoadedSteps, RecordSteps, Running
  <2>4. QED  BY <2>1, <2>2, <2>3 DEF Inv
<1>3. CASE RecordWrite(p)
  <2>1. TypeOK'
    <3>1. cleanFile' \in {NoFile} \cup SUBSET Entry
      BY <1>3, RecordEntries DEF RecordWrite
    <3>2. pc' \in [Procs -> Steps] /\ lock' \in Procs \cup {Free}
          /\ seen' \in [Procs -> SUBSET Entry] /\ unrecorded' \subseteq Names
      BY <1>3 DEF RecordWrite, Release, Inv, TypeOK, Steps
    <3>3. QED  BY <1>3, <3>1, <3>2 DEF RecordWrite, Inv, TypeOK
  <2>2. (StepInv /\ OrderInv /\ LockInv)'
    BY <1>3 DEF RecordWrite, Inv, TypeOK, StepInv, OrderInv, LockInv, Running, Free,
             LockedSteps, RestoreSteps, BeginSteps, RecordSteps, LoadedSteps, Release
  <2>3. FileInv'
    <3>1. pc[p] = "rec_write" /\ lock = p /\ pc' = [pc EXCEPT ![p] = "apply"]
      BY <1>3 DEF RecordWrite, Inv, LockInv, LockedSteps
    <3>2. genFile # NoGen /\ UNCHANGED <<envUnit, genFile, preFile>>
      BY <1>3, <3>1 DEF RecordWrite, Inv, FileInv
    <3>3. (\A e \in Entries : e.gen = genFile)'
      BY <1>3, <3>1, <3>2, RecordEntries DEF Entries
    <3>4. \A q \in Procs : pc'[q] \notin LockedSteps
      BY <3>1 DEF Inv, TypeOK, LockInv, LockedSteps, RestoreSteps, BeginSteps
    <3>5. cleanFile # NoFile => cleanFile' # NoFile
      BY <1>3, <3>1, RecordEntries
    <3>6. (pc'["prepare"] \in LoadedSteps \/ envUnit' = "active") =>
             genFile # NoGen /\ preFile # NoFile /\ cleanFile' # NoFile
      BY <3>1, <3>2, <3>5 DEF Inv, FileInv, TypeOK, LoadedSteps, RecordSteps
    <3>7. QED
      BY <3>2, <3>3, <3>4, <3>6
         DEF FileInv, OneGenerationOnFile, LockedSteps, RestoreSteps, BeginSteps
  <2>4. QED  BY <2>1, <2>2, <2>3 DEF Inv
<1>4. CASE ApplyOnSystemd(p)
  <2>1. TypeOK'
    BY <1>4, EnvClosure, DefinedNames DEF ApplyOnSystemd, Inv, TypeOK, Steps, RestoreSteps,
             BeginSteps, UnsetOnDBus, UnsetOnSystemd, SetOnSystemd, SetOnDBus
  <2>2. (StepInv /\ OrderInv /\ LockInv)'
    BY <1>4 DEF ApplyOnSystemd, Inv, TypeOK, StepInv, OrderInv, LockInv, Running, Free,
             LockedSteps, RestoreSteps, BeginSteps, RecordSteps, LoadedSteps, UnsetOnDBus,
             UnsetOnSystemd, SetOnSystemd, SetOnDBus
  <2>3. FileInv'
    BY <1>4, FileFrameKeeps DEF ApplyOnSystemd, FileFrame, Inv, TypeOK, LockedSteps,
             RestoreSteps, BeginSteps, LoadedSteps, RecordSteps, Running
  <2>4. QED  BY <2>1, <2>2, <2>3 DEF Inv
<1>5. CASE ApplyOnDBus(p)
  <2>1. TypeOK'
    BY <1>5, EnvClosure, ForgetType DEF ApplyOnDBus, Inv, TypeOK, Steps, RestoreSteps,
             BeginSteps, UnsetOnDBus, UnsetOnSystemd, SetOnSystemd, SetOnDBus
  <2>2. (StepInv /\ OrderInv /\ LockInv)'
    BY <1>5 DEF ApplyOnDBus, Inv, TypeOK, StepInv, OrderInv, LockInv, Running, Free,
             LockedSteps, RestoreSteps, BeginSteps, RecordSteps, LoadedSteps, UnsetOnDBus,
             UnsetOnSystemd, SetOnSystemd, SetOnDBus
  <2>3. FileInv'
    BY <1>5, ForgetSeen, FileFrameKeeps DEF ApplyOnDBus, FileFrame, Inv, TypeOK, LockedSteps,
             RestoreSteps, BeginSteps, LoadedSteps, RecordSteps, Running
  <2>4. QED  BY <2>1, <2>2, <2>3 DEF Inv
<1>6. QED
  BY <1>1, <1>2, <1>3, <1>4, <1>5 DEF Record

\* The other steps of prepare-env.
LEMMA PrepareKeepsInv ==
    ASSUME Inv, Start \/ TakeSnapshot \/ WriteGen \/ WritePre \/ WriteList
                  \/ WriteAux \/ RunLoader \/ DropOnDBus \/ DropOnSystemd
    PROVE  Inv'
<1> USE DEF Goto, Procs, Helpers, unitVars, buses, files, locals, history
<1>1. CASE Start
  <2>1. TypeOK'
    BY <1>1 DEF Start, Inv, TypeOK, Steps, RestoreSteps, BeginSteps, Running
  <2>2. (StepInv /\ OrderInv /\ LockInv)'
    BY <1>1 DEF Start, Inv, TypeOK, StepInv, OrderInv, LockInv, Running, Free, LockedSteps,
             RestoreSteps, BeginSteps, RecordSteps, LoadedSteps
  <2>3. FileInv'
    BY <1>1 DEF Start, Inv, TypeOK, StepInv, OrderInv, LockInv, FileInv, Running, Free,
             NoStateFiles, Entries, OneGenerationOnFile, LockedSteps, RestoreSteps, BeginSteps,
             RecordSteps, LoadedSteps
  <2>4. QED  BY <2>1, <2>2, <2>3 DEF Inv
<1>2. CASE TakeSnapshot
  <2>1. TypeOK'
    BY <1>2 DEF TakeSnapshot, Inv, TypeOK, Steps, RestoreSteps, BeginSteps
  <2>2. (StepInv /\ OrderInv /\ LockInv)'
    BY <1>2 DEF TakeSnapshot, Inv, TypeOK, StepInv, OrderInv, LockInv, Running, Free,
             LockedSteps, RestoreSteps, BeginSteps, RecordSteps, LoadedSteps
  <2>3. FileInv'
    BY <1>2, FileFrameKeeps DEF TakeSnapshot, FileFrame, Inv, TypeOK, LockedSteps,
             RestoreSteps, BeginSteps, LoadedSteps, RecordSteps, Running
  <2>4. QED  BY <2>1, <2>2, <2>3 DEF Inv
<1>3. CASE WriteGen
  <2>1. TypeOK'
    BY <1>3 DEF WriteGen, Inv, TypeOK, Steps, RestoreSteps, BeginSteps
  <2>2. (StepInv /\ OrderInv /\ LockInv)'
    BY <1>3 DEF WriteGen, Inv, TypeOK, StepInv, OrderInv, LockInv, Running, Free, LockedSteps,
             RestoreSteps, BeginSteps, RecordSteps, LoadedSteps
  <2>3. FileInv'
    BY <1>3, SessionAssumption DEF WriteGen, Inv, TypeOK, StepInv, OrderInv, LockInv, FileInv,
             Running, Free, NoStateFiles, Entries, OneGenerationOnFile, LockedSteps,
             RestoreSteps, BeginSteps, RecordSteps, LoadedSteps
  <2>4. QED  BY <2>1, <2>2, <2>3 DEF Inv
<1>4. CASE WritePre
  <2>1. TypeOK'
    BY <1>4 DEF WritePre, Inv, TypeOK, Steps, RestoreSteps, BeginSteps
  <2>2. (StepInv /\ OrderInv /\ LockInv)'
    BY <1>4 DEF WritePre, Inv, TypeOK, StepInv, OrderInv, LockInv, Running, Free, LockedSteps,
             RestoreSteps, BeginSteps, RecordSteps, LoadedSteps
  <2>3. FileInv'
    BY <1>4, SessionAssumption DEF WritePre, Inv, TypeOK, StepInv, OrderInv, LockInv, FileInv,
             Running, Free, NoStateFiles, Entries, OneGenerationOnFile, LockedSteps,
             RestoreSteps, BeginSteps, RecordSteps, LoadedSteps
  <2>4. QED  BY <2>1, <2>2, <2>3 DEF Inv
<1>5. CASE WriteList
  <2>1. TypeOK'
    BY <1>5 DEF WriteList, Inv, TypeOK, Steps, RestoreSteps, BeginSteps, Free
  <2>2. (StepInv /\ OrderInv /\ LockInv)'
    BY <1>5 DEF WriteList, Inv, TypeOK, StepInv, OrderInv, LockInv, Running, Free, LockedSteps,
             RestoreSteps, BeginSteps, RecordSteps, LoadedSteps
  <2>3. FileInv'
    BY <1>5, EmptyListIsAFile DEF WriteList, Inv, TypeOK, StepInv, OrderInv, LockInv, FileInv,
             Running, Free, NoStateFiles, Entries, OneGenerationOnFile, LockedSteps,
             RestoreSteps, BeginSteps, RecordSteps, LoadedSteps
  <2>4. QED  BY <2>1, <2>2, <2>3 DEF Inv
<1>6. CASE WriteAux
  <2>1. TypeOK'
    BY <1>6 DEF WriteAux, Inv, TypeOK, Steps, RestoreSteps, BeginSteps
  <2>2. (StepInv /\ OrderInv /\ LockInv)'
    BY <1>6 DEF WriteAux, Inv, TypeOK, StepInv, OrderInv, LockInv, Running, Free, LockedSteps,
             RestoreSteps, BeginSteps, RecordSteps, LoadedSteps
  <2>3. FileInv'
    BY <1>6, FileFrameKeeps DEF WriteAux, FileFrame, Inv, TypeOK, LockedSteps, RestoreSteps,
             BeginSteps, LoadedSteps, RecordSteps, Running
  <2>4. QED  BY <2>1, <2>2, <2>3 DEF Inv
<1>7. CASE RunLoader
  <2>1. TypeOK'
    BY <1>7, EnvClosure, SessionAssumption DEF RunLoader, Inv, TypeOK, Steps, RestoreSteps,
             BeginSteps
  <2>2. (StepInv /\ OrderInv /\ LockInv)'
    BY <1>7 DEF RunLoader, Inv, TypeOK, StepInv, OrderInv, LockInv, Running, Free, LockedSteps,
             RestoreSteps, BeginSteps, RecordSteps, LoadedSteps
  <2>3. FileInv'
    BY <1>7, FileFrameKeeps DEF RunLoader, FileFrame, Inv, TypeOK, LockedSteps, RestoreSteps,
             BeginSteps, LoadedSteps, RecordSteps, Running
  <2>4. QED  BY <2>1, <2>2, <2>3 DEF Inv
<1>8. CASE DropOnDBus
  <2>1. TypeOK'
    BY <1>8, EnvClosure DEF DropOnDBus, Inv, TypeOK, Steps, RestoreSteps, BeginSteps,
             UnsetOnDBus, UnsetOnSystemd, SetOnSystemd, SetOnDBus
  <2>2. (StepInv /\ OrderInv /\ LockInv)'
    BY <1>8 DEF DropOnDBus, Inv, TypeOK, StepInv, OrderInv, LockInv, Running, Free,
             LockedSteps, RestoreSteps, BeginSteps, RecordSteps, LoadedSteps, UnsetOnDBus,
             UnsetOnSystemd, SetOnSystemd, SetOnDBus
  <2>3. FileInv'
    BY <1>8, FileFrameKeeps DEF DropOnDBus, FileFrame, Inv, TypeOK, LockedSteps, RestoreSteps,
             BeginSteps, LoadedSteps, RecordSteps, Running
  <2>4. QED  BY <2>1, <2>2, <2>3 DEF Inv
<1>9. CASE DropOnSystemd
  <2>1. TypeOK'
    BY <1>9, EnvClosure, ForgetType DEF DropOnSystemd, Inv, TypeOK, Steps, RestoreSteps,
             BeginSteps, UnsetOnDBus, UnsetOnSystemd, SetOnSystemd, SetOnDBus
  <2>2. (StepInv /\ OrderInv /\ LockInv)'
    BY <1>9 DEF DropOnSystemd, Inv, TypeOK, StepInv, OrderInv, LockInv, Running, Free,
             LockedSteps, RestoreSteps, BeginSteps, RecordSteps, LoadedSteps, UnsetOnDBus,
             UnsetOnSystemd, SetOnSystemd, SetOnDBus
  <2>3. FileInv'
    BY <1>9, ForgetSeen, FileFrameKeeps DEF DropOnSystemd, FileFrame, Inv, TypeOK, LockedSteps,
             RestoreSteps, BeginSteps, LoadedSteps, RecordSteps, Running
  <2>4. QED  BY <2>1, <2>2, <2>3 DEF Inv
<1>10. QED
  BY <1>1, <1>2, <1>3, <1>4, <1>5, <1>6, <1>7, <1>8, <1>9

\* The compositor, the watcher and finalize.
LEMMA HelpersKeepInv ==
    ASSUME Inv, WatchStart \/ WatchDelta \/ CompositorPublishes \/ FinalizeStart
    PROVE  Inv'
<1> USE DEF Goto, Procs, Helpers, unitVars, buses, files, locals, history
<1>1. CASE WatchStart
  <2>1. TypeOK'
    BY <1>1 DEF WatchStart, Inv, TypeOK, Steps, RestoreSteps, BeginSteps
  <2>2. (StepInv /\ OrderInv /\ LockInv)'
    BY <1>1 DEF WatchStart, Inv, TypeOK, StepInv, OrderInv, LockInv, Running, Free,
             LockedSteps, RestoreSteps, BeginSteps, RecordSteps, LoadedSteps
  <2>3. FileInv'
    BY <1>1, FileFrameKeeps DEF WatchStart, FileFrame, Inv, TypeOK, LockedSteps, RestoreSteps,
             BeginSteps, LoadedSteps, RecordSteps, Running
  <2>4. QED  BY <2>1, <2>2, <2>3 DEF Inv
<1>2. CASE WatchDelta
  <2>1. TypeOK'
    BY <1>2, ForgetType, DeltaType DEF WatchDelta, Inv, TypeOK, Steps, RestoreSteps, BeginSteps
  <2>2. (StepInv /\ OrderInv /\ LockInv)'
    BY <1>2 DEF WatchDelta, Inv, TypeOK, StepInv, OrderInv, LockInv, Running, Free,
             LockedSteps, RestoreSteps, BeginSteps, RecordSteps, LoadedSteps
  <2>3. FileInv'
    BY <1>2, ForgetSeen, FileFrameKeeps DEF WatchDelta, FileFrame, Inv, TypeOK, LockedSteps,
             RestoreSteps, BeginSteps, LoadedSteps, RecordSteps, Running
  <2>4. QED  BY <2>1, <2>2, <2>3 DEF Inv
<1>3. CASE CompositorPublishes
  <2>1. TypeOK'
    BY <1>3, EnvClosure, SessionAssumption, DefinedNames DEF CompositorPublishes, Inv, TypeOK,
             Steps, RestoreSteps, BeginSteps
  <2>2. (StepInv /\ OrderInv /\ LockInv)'
    BY <1>3 DEF CompositorPublishes, Inv, TypeOK, StepInv, OrderInv, LockInv, Running, Free,
             LockedSteps, RestoreSteps, BeginSteps, RecordSteps, LoadedSteps
  <2>3. FileInv'
    BY <1>3, FileFrameKeeps DEF CompositorPublishes, FileFrame, Inv, TypeOK, LockedSteps,
             RestoreSteps, BeginSteps, LoadedSteps, RecordSteps, Running
  <2>4. QED  BY <2>1, <2>2, <2>3 DEF Inv
<1>4. CASE FinalizeStart
  <2>1. TypeOK'
    BY <1>4, SessionAssumption DEF FinalizeStart, Inv, TypeOK, Steps, RestoreSteps, BeginSteps,
             Running
  <2>2. (StepInv /\ OrderInv /\ LockInv)'
    BY <1>4 DEF FinalizeStart, Inv, TypeOK, StepInv, OrderInv, LockInv, Running, Free,
             LockedSteps, RestoreSteps, BeginSteps, RecordSteps, LoadedSteps
  <2>3. FileInv'
    BY <1>4, FileFrameKeeps DEF FinalizeStart, FileFrame, Inv, TypeOK, LockedSteps,
             RestoreSteps, BeginSteps, LoadedSteps, RecordSteps, Running
  <2>4. QED  BY <2>1, <2>2, <2>3 DEF Inv
<1>5. QED
  BY <1>1, <1>2, <1>3, <1>4

\* Stops and deaths.
LEMMA EndsKeepInv ==
    ASSUME Inv, Stop \/ PrepareDies \/ CleanupDies \/ (\E p \in Helpers : HelperDies(p))
    PROVE  Inv'
<1> USE DEF Goto, Procs, Helpers, unitVars, buses, files, locals, history
<1>1. CASE Stop
  <2>1. TypeOK'
    BY <1>1, ForgetType DEF Stop, Inv, TypeOK, Steps, RestoreSteps, BeginSteps, Free, Running
  <2>2. (StepInv /\ OrderInv /\ LockInv)'
    BY <1>1 DEF Stop, Inv, TypeOK, StepInv, OrderInv, LockInv, Running, Free, LockedSteps,
             RestoreSteps, BeginSteps, RecordSteps, LoadedSteps
  <2>3. FileInv'
    BY <1>1, ForgetSeen, FileFrameKeeps DEF Stop, FileFrame, Inv, TypeOK, LockedSteps,
             RestoreSteps, BeginSteps, LoadedSteps, RecordSteps, Running
  <2>4. QED  BY <2>1, <2>2, <2>3 DEF Inv
<1>2. CASE PrepareDies
  <2>1. TypeOK'
    BY <1>2, ForgetType DEF PrepareDies, Inv, TypeOK, Steps, RestoreSteps, BeginSteps, Release,
             Free, FileInv, LoadedSteps
  <2>2. (StepInv /\ OrderInv /\ LockInv)'
    BY <1>2 DEF PrepareDies, Inv, TypeOK, StepInv, OrderInv, LockInv, Running, Free,
             LockedSteps, RestoreSteps, BeginSteps, RecordSteps, LoadedSteps, Release, FileInv
  <2>3. FileInv'
    BY <1>2, ForgetSeen, FileFrameKeeps DEF PrepareDies, FileFrame, Inv, TypeOK, LockedSteps,
             RestoreSteps, BeginSteps, LoadedSteps, RecordSteps, Running
  <2>4. QED  BY <2>1, <2>2, <2>3 DEF Inv
<1>3. CASE CleanupDies
  <2>1. TypeOK'
    BY <1>3, ForgetType DEF CleanupDies, Inv, TypeOK, Steps, RestoreSteps, BeginSteps, Release,
             Free
  <2>2. (StepInv /\ OrderInv /\ LockInv)'
    BY <1>3 DEF CleanupDies, Inv, TypeOK, StepInv, OrderInv, LockInv, Running, Free,
             LockedSteps, RestoreSteps, BeginSteps, RecordSteps, LoadedSteps, Release
  <2>3. FileInv'
    BY <1>3, ForgetSeen, FileFrameKeeps DEF CleanupDies, FileFrame, Inv, TypeOK, LockedSteps,
             RestoreSteps, BeginSteps, LoadedSteps, RecordSteps, Running
  <2>4. QED  BY <2>1, <2>2, <2>3 DEF Inv
<1>4. CASE \E p \in Helpers : HelperDies(p)
  <2>1. TypeOK'
    BY <1>4, ForgetType DEF HelperDies, Inv, TypeOK, Steps, RestoreSteps, BeginSteps, Release,
             Free
  <2>2. (StepInv /\ OrderInv /\ LockInv)'
    BY <1>4 DEF HelperDies, Inv, TypeOK, StepInv, OrderInv, LockInv, Running, Free,
             LockedSteps, RestoreSteps, BeginSteps, RecordSteps, LoadedSteps, Release
  <2>3. FileInv'
    BY <1>4, ForgetSeen, FileFrameKeeps DEF HelperDies, FileFrame, Inv, TypeOK, LockedSteps,
             RestoreSteps, BeginSteps, LoadedSteps, RecordSteps, Running
  <2>4. QED  BY <2>1, <2>2, <2>3 DEF Inv
<1>5. QED
  BY <1>1, <1>2, <1>3, <1>4

\* Init establishes the invariant.
LEMMA InitInv == Init => Inv
<1> SUFFICES ASSUME Init PROVE Inv
  OBVIOUS
<1>1. TypeOK
  <2>1. tainted \in BOOLEAN
    BY DEF Init
  <2>2. QED
    BY <2>1, EnvClosure, SessionAssumption DEF Init, TypeOK, Procs, Free, Steps
<1>2. StepInv /\ OrderInv /\ LockInv
  BY DEF Init, StepInv, OrderInv, LockInv, Running, Procs, Free,
         LockedSteps, RestoreSteps, BeginSteps
<1>3. FileInv
  BY DEF Init, FileInv, OneGenerationOnFile, Entries, NoStateFiles, Procs,
         RestoreSteps, LoadedSteps, RecordSteps
<1>4. QED  BY <1>1, <1>2, <1>3 DEF Inv

\* Next preserves it.
LEMMA NextInv == Inv /\ [Next]_vars => Inv'
<1> SUFFICES ASSUME Inv, [Next]_vars PROVE Inv'
  OBVIOUS
<1>1. CASE UNCHANGED vars
  BY <1>1 DEF vars, unitVars, buses, files, locals, history, Inv, TypeOK, StepInv, OrderInv,
              LockInv, FileInv, Running, NoStateFiles, Entries, OneGenerationOnFile
<1>2. CASE Next
  BY <1>2, RestoreKeepsInv, RecordKeepsInv, PrepareKeepsInv, HelpersKeepInv, EndsKeepInv
     DEF Next, Prepare, Watcher, Finalize, Cleanup
<1>3. QED  BY <1>1, <1>2

\* The invariant holds of every behaviour.
THEOREM SessionInvariant == Spec => []Inv
BY InitInv, NextInv, PTL DEF Spec

-----------------------------------------------------------------------------
(* What follows from it.                                                   *)

\* Type correctness of the session state, through every interleaving and death.
THEOREM TypeCorrect == Spec => []TypeOK
<1>1. Inv => TypeOK
  BY DEF Inv
<1>2. QED  BY <1>1, SessionInvariant, PTL

\* The cleanup list only ever holds entries of the generation on record, even
\* with finalize running outside the compositor's cgroup.
THEOREM OneGeneration == Spec => []OneGenerationOnFile
<1>1. Inv => OneGenerationOnFile
  BY DEF Inv, FileInv
<1>2. QED  BY <1>1, SessionInvariant, PTL

-----------------------------------------------------------------------------
(* The inductive invariants.                                               *)

\* Exported names are recorded, and so are the names about to be exported.
RecInv ==
    /\ RecordedBeforeExport
    /\ \A p \in Procs : pc[p] = "apply" => Defined(out[p]) \ NEVER_CLEANUP \subseteq Listed

Restored == \A n \in Owed : sysEnv[n] = base[n]

\* Every name that a restore owes and that the session introduced is one the
\* restore will find.
Covered ==
    \A n \in Owed : base[n] = Absent /\ sysEnv[n] # Absent => n \in Listed \cup always_cleanup

\* env_pre, if there is one, holds base, and everything owed is covered.
SnapshotSound == preFile # NoFile => preFile = base /\ Covered

\* A record without its snapshot exists only inside a critical section.
TornInside == genFile # NoGen /\ preFile = NoFile => \E p \in Procs : pc[p] \in TornSteps

\* With no state on disk there is nothing left to restore.
RestSound ==
    NoStateFiles /\ (envUnit \in {"starting", "stopping"} \/ pc["cleanup"] = "done") => Restored

\* A restore in progress has done its part so far.
Progress(p) ==
    /\ pc[p] \in {"clear_dbus", "unset", "set"} => preFile # NoFile /\ out[p] = preFile
    /\ pc[p] \in {"clear_dbus", "unset"} => gone[p] = ToUnset(Listed, Snapshot, sysEnv)
    /\ pc[p] = "set" => \A n \in Owed : base[n] = Absent => sysEnv[n] = Absent
    /\ pc[p] \in {"set_dbus", "rm_list", "rm_pre", "rm_gen", "sweep"} => Restored

\* What is true while env_pre describes base.
SoundInv ==
    /\ SnapshotSound
    /\ TornInside
    /\ RestSound
    /\ pc["prepare"] = "write_list" => sysEnv = base
    /\ \A p \in Procs : Progress(p)

RestoreInv ==
    /\ pc["cleanup"] = "done" => envUnit = "inactive" /\ NoStateFiles
    /\ ~tainted => SoundInv
-----------------------------------------------------------------------------
(* What the unit ordering excludes.                                        *)

\* While prepare-env or cleanup-env is restoring or beginning a generation,
\* no process is exporting.
LEMMA NobodyApplies ==
    ASSUME Inv, ~Detached, NEW p \in {"prepare", "cleanup"},
           pc[p] \in RestoreSteps \cup BeginSteps
    PROVE  \A q \in Procs : pc[q] \notin {"apply", "apply_dbus"}
BY DEF Inv, StepInv, OrderInv, Running, Procs, RestoreSteps, BeginSteps

\* The processes that record are those that can be about to export.
LEMMA AppliersAreRecorders ==
    ASSUME Inv, NEW q \in Procs, pc[q] \in {"apply", "rec_write"}
    PROVE  q \in {"prepare", "watcher", "finalize"}
BY DEF Inv, StepInv, Procs, RestoreSteps

\* The locals of a process that goes on are kept when others are forgotten.
LEMMA ForgetOut ==
    ASSUME NEW ps, Forget(ps)
    PROVE  \A q \in Procs \ ps : out'[q] = out[q] /\ gone'[q] = gone[q]
BY DEF Forget

-----------------------------------------------------------------------------
(* Recorded before exported.                                               *)

\* A step that leaves the record, the exports and every pending export alone.
RecordFrame ==
    /\ UNCHANGED <<genFile, cleanFile, exported>>
    /\ \A q \in Procs : pc'[q] = "apply" => pc[q] = "apply" /\ out'[q] = out[q]

\* Such a step keeps RecInv.
LEMMA RecordFrameKeepsRecInv ==
    ASSUME RecInv, RecordFrame
    PROVE  RecInv'
BY DEF RecInv, RecordFrame, RecordedBeforeExport, Listed, Entries, Defined

\* append_cleanup puts what it is given on the list and takes nothing off it.
LEMMA RecordWriteLists ==
    ASSUME Inv, NEW p \in Procs, RecordWrite(p)
    PROVE  /\ Listed \cup RecordNames(p) \subseteq Listed'
           /\ Listed' \subseteq Listed \cup RecordNames(p)
<1>1. pc[p] = "rec_write" /\ genFile' = genFile
  BY DEF RecordWrite
<1>2. seen[p] = Entries /\ genFile \in Gens
  BY <1>1 DEF Inv, FileInv, TypeOK
<1>3. RecordNames(p) \subseteq Names
  BY DefinedNames DEF RecordNames
<1>4. Entries \subseteq Entries' /\ Tagged(RecordNames(p)) \subseteq Entries'
      /\ Entries' \subseteq Entries \cup Tagged(RecordNames(p))
  <2>1. CASE Tagged(RecordNames(p)) \subseteq seen[p]
    BY <1>2, <2>1 DEF RecordWrite, Entries
  <2>2. CASE ~(Tagged(RecordNames(p)) \subseteq seen[p])
    <3>1. cleanFile' = Entries \cup Tagged(RecordNames(p))
      BY <1>2, <2>2 DEF RecordWrite
    <3>2. cleanFile' # NoFile
      <4>1. cleanFile' \in SUBSET Entry
        <5>1. Entries \in SUBSET Entry
          BY ReadClosure DEF Inv
        <5>2. Tagged(RecordNames(p)) \subseteq Entry
          BY <1>2, <1>3 DEF Tagged, Entry
        <5>3. QED  BY <3>1, <5>1, <5>2
      <4>2. QED  BY <4>1, SessionAssumption DEF Entry
    <3>3. QED  BY <3>1, <3>2 DEF Entries
  <2>3. QED  BY <2>1, <2>2
<1>5. \A n \in RecordNames(p) : \E e \in Entries' : e.gen = genFile' /\ e.name = n
  <2> TAKE n \in RecordNames(p)
  <2>1. [gen |-> genFile, name |-> n] \in Tagged(RecordNames(p))
    BY DEF Tagged
  <2>2. [gen |-> genFile, name |-> n] \in Entries'
    BY <2>1, <1>4
  <2> WITNESS [gen |-> genFile, name |-> n] \in Entries'
  <2>3. QED  BY <1>1
<1>6. \A e \in Tagged(RecordNames(p)) : e.name \in RecordNames(p)
  BY DEF Tagged
<1>7. Listed \cup RecordNames(p) \subseteq Listed'
  BY <1>1, <1>3, <1>4, <1>5 DEF Listed
<1>8. Listed' \subseteq Listed \cup RecordNames(p)
  BY <1>1, <1>4, <1>6 DEF Listed
<1>9. QED  BY <1>7, <1>8

\* restore_and_clear_locked keeps RecInv: nobody is about to export, and a list
\* that is gone owes nothing.
LEMMA RestoreKeepsRecInv ==
    ASSUME Inv, RecInv, ~Detached, NEW p \in {"prepare", "cleanup"}, Restore(p)
    PROVE  RecInv'
<1> USE DEF Goto, Procs, unitVars, buses, files, locals, history
<1>1. CASE NothingToRestore(p)
  BY <1>1, RecordFrameKeepsRecInv DEF NothingToRestore, RecordFrame, Inv, TypeOK
<1>2. CASE PlanRestore(p)
  BY <1>2, RecordFrameKeepsRecInv DEF PlanRestore, RecordFrame, Inv, TypeOK
<1>3. CASE RestoreBusStep(p)
  BY <1>3, RecordFrameKeepsRecInv DEF RestoreBusStep, RecordFrame, Inv, TypeOK
<1>4. CASE RemoveList(p)
  <2>1. \A q \in Procs : pc'[q] # "apply"
    BY <1>4, NobodyApplies DEF RemoveList, RestoreSteps, Inv, TypeOK
  <2>2. QED
    BY <1>4, <2>1 DEF RemoveList, RecInv, RecordedBeforeExport
<1>5. CASE RemovePre(p)
  BY <1>5, RecordFrameKeepsRecInv DEF RemovePre, RecordFrame, Inv, TypeOK
<1>6. CASE RemoveGen(p)
  <2>1. \A q \in Procs : pc'[q] # "apply"
    BY <1>6, NobodyApplies DEF RemoveGen, RestoreSteps, Inv, TypeOK
  <2>2. QED
    BY <1>6, <2>1 DEF RemoveGen, RecInv, RecordedBeforeExport
<1>7. CASE Sweep(p)
  BY <1>7, RecordFrameKeepsRecInv, ForgetOut DEF Sweep, RecordFrame, Inv, TypeOK
<1>8. QED
  BY <1>1, <1>2, <1>3, <1>4, <1>5, <1>6, <1>7 DEF Restore

\* append_cleanup and the export keep RecInv: the names are on the list before
\* they are exported, and stay on it.
LEMMA RecordKeepsRecInv ==
    ASSUME Inv, RecInv, ~Detached, NEW p \in {"prepare", "watcher", "finalize"}, Record(p)
    PROVE  RecInv'
<1> USE DEF Goto, Procs, Helpers, unitVars, buses, files, locals, history
<1>1. CASE RecordRead(p)
  BY <1>1, RecordFrameKeepsRecInv DEF RecordRead, RecordFrame, Inv, TypeOK
<1>2. CASE p \in Helpers /\ RecordRefused(p)
  BY <1>2, RecordFrameKeepsRecInv, ForgetOut DEF RecordRefused, RecordFrame, Inv, TypeOK
<1>3. CASE RecordWrite(p)
  <2>1. Listed \cup RecordNames(p) \subseteq Listed'
    BY <1>3, RecordWriteLists
  <2>2. UNCHANGED <<genFile, exported, out>> /\ pc' = [pc EXCEPT ![p] = "apply"]
    BY <1>3 DEF RecordWrite
  <2>3. RecordedBeforeExport'
    <3>1. cleanFile # NoFile
      BY <1>3 DEF RecordWrite, Inv, FileInv, StepInv, OrderInv, Running, LoadedSteps, RecordSteps
    <3>2. genFile # NoGen
      BY <1>3 DEF RecordWrite, Inv, FileInv
    <3>3. QED
      BY <2>1, <2>2, <3>1, <3>2 DEF RecInv, RecordedBeforeExport
  <2>4. \A q \in Procs : pc'[q] = "apply" => Defined(out[q]) \ NEVER_CLEANUP \subseteq Listed'
    <3>1. Defined(out[p]) \ NEVER_CLEANUP \subseteq Listed'
      BY <2>1 DEF RecordNames
    <3>2. QED
      BY <2>1, <2>2, <3>1 DEF RecInv, Inv, TypeOK
  <2>5. QED
    BY <2>2, <2>3, <2>4 DEF RecInv, Defined
<1>4. CASE ApplyOnSystemd(p)
  <2>1. pc[p] = "apply" /\ pc' = [pc EXCEPT ![p] = "apply_dbus"]
        /\ exported' = exported \cup Defined(out[p]) /\ UNCHANGED <<genFile, cleanFile, out>>
    BY <1>4 DEF ApplyOnSystemd
  <2>2. UNCHANGED Listed
    BY <2>1 DEF Listed, Entries
  <2>3. RecordedBeforeExport'
    BY <2>1, <2>2 DEF RecInv, RecordedBeforeExport
  <2>4. QED
    BY <2>1, <2>2, <2>3 DEF RecInv, Inv, TypeOK, Defined
<1>5. CASE ApplyOnDBus(p)
  BY <1>5, RecordFrameKeepsRecInv, ForgetOut DEF ApplyOnDBus, RecordFrame, Inv, TypeOK
<1>6. QED
  BY <1>1, <1>2, <1>3, <1>4, <1>5 DEF Record

\* The other steps of prepare-env keep RecInv: a new generation starts with no
\* exports.
LEMMA PrepareKeepsRecInv ==
    ASSUME Inv, RecInv, ~Detached,
           Start \/ TakeSnapshot \/ WriteGen \/ WritePre \/ WriteList \/ WriteAux
             \/ RunLoader \/ DropOnDBus \/ DropOnSystemd
    PROVE  RecInv'
<1> USE DEF Goto, Procs, unitVars, buses, files, locals, history
<1>1. CASE Start
  BY <1>1, RecordFrameKeepsRecInv DEF Start, Running, RecordFrame, Inv, TypeOK
<1>2. CASE TakeSnapshot
  BY <1>2, RecordFrameKeepsRecInv DEF TakeSnapshot, RecordFrame, Inv, TypeOK
<1>3. CASE WriteGen
  <2>1. \A q \in Procs : pc'[q] # "apply"
    BY <1>3, NobodyApplies DEF WriteGen, BeginSteps, Inv, TypeOK
  <2>2. cleanFile' = NoFile
    BY <1>3 DEF WriteGen, Inv, FileInv, NoStateFiles
  <2>3. QED  BY <2>1, <2>2 DEF RecInv, RecordedBeforeExport
<1>4. CASE WritePre
  BY <1>4, RecordFrameKeepsRecInv DEF WritePre, RecordFrame, Inv, TypeOK
<1>5. CASE WriteList
  <2>1. \A q \in Procs : pc'[q] # "apply"
    BY <1>5, NobodyApplies DEF WriteList, BeginSteps, Inv, TypeOK
  <2>2. QED  BY <1>5, <2>1 DEF WriteList, RecInv, RecordedBeforeExport
<1>6. CASE WriteAux
  BY <1>6, RecordFrameKeepsRecInv DEF WriteAux, RecordFrame, Inv, TypeOK
<1>7. CASE RunLoader
  BY <1>7, RecordFrameKeepsRecInv DEF RunLoader, RecordFrame, Inv, TypeOK
<1>8. CASE DropOnDBus
  BY <1>8, RecordFrameKeepsRecInv DEF DropOnDBus, RecordFrame, Inv, TypeOK
<1>9. CASE DropOnSystemd
  BY <1>9, RecordFrameKeepsRecInv, ForgetOut DEF DropOnSystemd, RecordFrame, Inv, TypeOK
<1>10. QED
  BY <1>1, <1>2, <1>3, <1>4, <1>5, <1>6, <1>7, <1>8, <1>9

\* The compositor's side and the ends of processes keep RecInv.
LEMMA OthersKeepRecInv ==
    ASSUME Inv, RecInv, ~Detached,
           WatchStart \/ WatchDelta \/ CompositorPublishes \/ FinalizeStart
             \/ Stop \/ PrepareDies \/ CleanupDies \/ (\E p \in Helpers : HelperDies(p))
    PROVE  RecInv'
<1> USE DEF Goto, Procs, Helpers, unitVars, buses, files, locals, history
<1>1. CASE WatchStart
  BY <1>1, RecordFrameKeepsRecInv DEF WatchStart, RecordFrame, Inv, TypeOK
<1>2. CASE WatchDelta
  BY <1>2, RecordFrameKeepsRecInv, ForgetOut DEF WatchDelta, RecordFrame, Inv, TypeOK
<1>3. CASE CompositorPublishes
  BY <1>3, RecordFrameKeepsRecInv DEF CompositorPublishes, RecordFrame, Inv, TypeOK
<1>4. CASE FinalizeStart
  BY <1>4, RecordFrameKeepsRecInv DEF FinalizeStart, RecordFrame, Inv, TypeOK
<1>5. CASE Stop
  BY <1>5, RecordFrameKeepsRecInv, ForgetOut DEF Stop, Running, RecordFrame, Inv, TypeOK
<1>6. CASE PrepareDies
  BY <1>6, RecordFrameKeepsRecInv, ForgetOut DEF PrepareDies, RecordFrame, Inv, TypeOK
<1>7. CASE CleanupDies
  BY <1>7, RecordFrameKeepsRecInv, ForgetOut DEF CleanupDies, RecordFrame, Inv, TypeOK
<1>8. CASE \E p \in Helpers : HelperDies(p)
  BY <1>8, RecordFrameKeepsRecInv, ForgetOut DEF HelperDies, RecordFrame, Inv, TypeOK
<1>9. QED
  BY <1>1, <1>2, <1>3, <1>4, <1>5, <1>6, <1>7, <1>8

\* Every step keeps RecInv.
LEMMA RecInvNext ==
    ASSUME Inv, RecInv, ~Detached, [Next]_vars
    PROVE  RecInv'
<1>1. CASE UNCHANGED vars
  BY <1>1, RecordFrameKeepsRecInv
     DEF vars, unitVars, files, locals, history, RecordFrame
<1>2. CASE Next
  BY <1>2, RestoreKeepsRecInv, RecordKeepsRecInv, PrepareKeepsRecInv, OthersKeepRecInv
     DEF Next, Prepare, Watcher, Finalize, Cleanup
<1>3. QED  BY <1>1, <1>2

\* In a session whose finalize runs in the compositor's cgroup, no variable is
\* ever exported for a generation without its cleanup entry.
THEOREM RecordedFirst == ~Detached => (Spec => []RecordedBeforeExport)
<1> SUFFICES ASSUME ~Detached PROVE Spec => []RecordedBeforeExport
  OBVIOUS
<1>1. Init => RecInv
  BY DEF Init, RecInv, RecordedBeforeExport, Procs
<1>2. Inv /\ RecInv /\ [Next]_vars => RecInv'
  BY RecInvNext
<1>3. RecInv => RecordedBeforeExport
  BY DEF RecInv
<1>4. QED
  BY <1>1, <1>2, <1>3, SessionInvariant, PTL DEF Spec

-----------------------------------------------------------------------------
(* A completed restore brings the environment back.                        *)

\* Only one process is in a critical section.
LEMMA Exclusion ==
    ASSUME Inv, NEW p \in Procs, NEW q \in Procs, p # q, pc[p] \in LockedSteps
    PROVE  pc[q] \notin LockedSteps
BY DEF Inv, LockInv

\* A step that changes no file, no bus and no obligation, and no process that is
\* restoring.
RestoreFrame ==
    /\ UNCHANGED <<genFile, preFile, cleanFile, base, sysEnv, unrecorded>>
    /\ tainted => tainted'
    /\ \A q \in Procs :
          /\ pc'[q] \in RestoreSteps \cup {"write_list"} =>
                pc'[q] = pc[q] /\ out'[q] = out[q] /\ gone'[q] = gone[q]
          /\ pc[q] \in TornSteps => pc'[q] = pc[q] \/ tainted'
    /\ pc'["cleanup"] = "done" => pc["cleanup"] = "done" /\ envUnit' = envUnit
    /\ NoStateFiles /\ envUnit' \in {"starting", "stopping"} =>
           envUnit \in {"starting", "stopping"}

\* Such a step keeps RestoreInv.
LEMMA RestoreFrameKeeps ==
    ASSUME RestoreInv, RestoreFrame
    PROVE  RestoreInv'
<1>1. (pc["cleanup"] = "done" => envUnit = "inactive" /\ NoStateFiles)'
  BY DEF RestoreInv, RestoreFrame, NoStateFiles
<1>2. ASSUME ~tainted' PROVE SoundInv'
  <2>1. SoundInv
    BY <1>2 DEF RestoreInv, RestoreFrame
  <2>2. Owed' = Owed /\ Listed' = Listed /\ Snapshot' = Snapshot /\ (Restored' <=> Restored)
        /\ (Covered' <=> Covered) /\ (NoStateFiles' <=> NoStateFiles)
    BY DEF RestoreFrame, Owed, Listed, Entries, Snapshot, Restored, Covered, NoStateFiles
  <2>3. SnapshotSound' /\ TornInside' /\ RestSound'
    BY <1>2, <2>1, <2>2 DEF SoundInv, SnapshotSound, TornInside, RestSound, RestoreFrame
  <2>4. (pc["prepare"] = "write_list" => sysEnv = base)'
    BY <2>1 DEF SoundInv, RestoreFrame, Procs
  <2>5. ASSUME NEW p \in Procs PROVE Progress(p)'
    BY <2>1, <2>2 DEF SoundInv, Progress, RestoreFrame, RestoreSteps
  <2>6. QED  BY <2>3, <2>4, <2>5 DEF SoundInv
<1>3. QED  BY <1>1, <1>2 DEF RestoreInv

\* The steps that only move a process along, and the ends of processes.
LEMMA QuietKeepsRestoreInv ==
    ASSUME Inv, RestoreInv, ~Detached,
           \/ TakeSnapshot \/ WriteAux \/ RunLoader \/ DropOnDBus
           \/ WatchStart \/ WatchDelta \/ FinalizeStart
           \/ Stop \/ PrepareDies \/ CleanupDies
           \/ \E p \in Helpers : HelperDies(p)
    PROVE  RestoreInv'
<1> USE DEF Goto, Procs, Helpers, RestoreSteps, TornSteps, unitVars, buses, files, locals,
            history, RestoreFrame, Inv, TypeOK
<1>1. CASE TakeSnapshot
  BY <1>1, RestoreFrameKeeps DEF TakeSnapshot, UnsetOnDBus
<1>2. CASE WriteAux
  BY <1>2, RestoreFrameKeeps DEF WriteAux
<1>3. CASE RunLoader
  BY <1>3, RestoreFrameKeeps DEF RunLoader
<1>4. CASE DropOnDBus
  BY <1>4, RestoreFrameKeeps DEF DropOnDBus, UnsetOnDBus
<1>5. CASE WatchStart
  BY <1>5, RestoreFrameKeeps DEF WatchStart
<1>6. CASE WatchDelta
  BY <1>6, RestoreFrameKeeps, ForgetOut DEF WatchDelta, StepInv, RecordSteps
<1>7. CASE FinalizeStart
  <2>1. UNCHANGED <<envUnit, genFile, preFile, cleanFile, base, sysEnv, unrecorded, tainted>>
    BY <1>7 DEF FinalizeStart
  <2>2. \A q \in Procs \ {"finalize"} : UNCHANGED <<pc[q], out[q], gone[q]>>
    BY <1>7 DEF FinalizeStart
  <2>3. pc'["finalize"] = "rec_lock" /\ pc["finalize"] \in {"idle", "done"}
    BY <1>7 DEF FinalizeStart, Running
  <2>4. QED  BY <2>1, <2>2, <2>3, RestoreFrameKeeps
<1>8. CASE Stop
  <2>1. ~NoStateFiles
    BY <1>8 DEF Stop, FileInv, NoStateFiles
  <2>2. UNCHANGED <<genFile, preFile, cleanFile, base, sysEnv, unrecorded, tainted>>
    BY <1>8 DEF Stop
  <2>3. \A q \in Procs \ Helpers : UNCHANGED <<out[q], gone[q]>>
    BY <1>8, ForgetOut DEF Stop
  <2>4. pc'["cleanup"] = "acquire" /\ pc'["prepare"] = pc["prepare"]
        /\ pc["cleanup"] \in {"idle", "done"}
    BY <1>8 DEF Stop, OrderInv, Running
  <2>5. \A q \in Helpers : pc[q] \notin RestoreSteps \cup BeginSteps
                            /\ pc'[q] \notin RestoreSteps \cup BeginSteps
    BY <1>8 DEF Stop, StepInv, RecordSteps, BeginSteps
  <2>6. QED  BY <2>1, <2>2, <2>3, <2>4, <2>5, RestoreFrameKeeps DEF BeginSteps
<1>9. CASE PrepareDies
  <2>1. envUnit = "starting"
    BY <1>9 DEF PrepareDies, OrderInv
  <2>2. tainted => tainted'
    BY <1>9 DEF PrepareDies
  <2>3. pc["prepare"] \in TornSteps => tainted'
    BY <1>9 DEF PrepareDies
  <2>4. UNCHANGED <<genFile, preFile, cleanFile, base, sysEnv, unrecorded>>
    BY <1>9 DEF PrepareDies
  <2>5. \A q \in Helpers : UNCHANGED <<pc[q], out[q], gone[q]>>
    BY <1>9, ForgetOut DEF PrepareDies
  <2>6. pc'["prepare"] = "idle" /\ pc'["cleanup"] = "acquire" /\ pc["cleanup"] \in {"idle", "done"}
    BY <1>9, <2>1 DEF PrepareDies, OrderInv, Running
  <2>7. QED  BY <2>1, <2>2, <2>3, <2>4, <2>5, <2>6, RestoreFrameKeeps
<1>10. CASE CleanupDies
  <2>2. tainted => tainted'
    BY <1>10 DEF CleanupDies
  <2>3. pc["cleanup"] \in TornSteps => tainted'
    BY <1>10 DEF CleanupDies
  <2>4. QED  BY <1>10, <2>2, <2>3, RestoreFrameKeeps, ForgetOut DEF CleanupDies
<1>11. CASE \E p \in Helpers : HelperDies(p)
  BY <1>11, RestoreFrameKeeps, ForgetOut DEF HelperDies, StepInv, RecordSteps
<1>12. QED
  BY <1>1, <1>2, <1>3, <1>4, <1>5, <1>6, <1>7, <1>8, <1>9, <1>10, <1>11

\* restore_and_clear_locked: each step does its part.
LEMMA RestoreKeepsRestoreInv ==
    ASSUME Inv, RestoreInv, NEW p \in {"prepare", "cleanup"}, Restore(p)
    PROVE  RestoreInv'
<1> USE DEF Goto, Procs, buses, files, locals, history
<1>1. CASE NothingToRestore(p)
  <2>1. Owed' = Owed /\ Listed' = Listed /\ Snapshot' = Snapshot /\ (Restored' <=> Restored)
        /\ (Covered' <=> Covered) /\ NoStateFiles /\ NoStateFiles'
    BY <1>1 DEF NothingToRestore, Owed, Listed, Entries, Snapshot, Restored, Covered, NoStateFiles
  <2>2. envUnit \in {"starting", "stopping"}
    BY <1>1 DEF NothingToRestore, Inv, OrderInv, Running
  <2>3. (pc["cleanup"] = "done" => envUnit = "inactive" /\ NoStateFiles)'
    BY <1>1, <2>1, <2>2 DEF NothingToRestore, RestoreInv, Inv, TypeOK
  <2>4. ASSUME ~tainted' PROVE SoundInv'
    <3>1. SoundInv /\ Restored
      BY <1>1, <2>4, <2>1, <2>2 DEF NothingToRestore, RestoreInv, SoundInv, RestSound
    <3>2. SnapshotSound' /\ TornInside' /\ RestSound'
      BY <3>1, <2>1 DEF SnapshotSound, TornInside, RestSound, NoStateFiles
    <3>3. (pc["prepare"] = "write_list" => sysEnv = base)'
      BY <1>1, <3>1 DEF NothingToRestore, SoundInv, Inv, TypeOK
    <3>4. ASSUME NEW q \in Procs PROVE Progress(q)'
      BY <1>1, <3>1, <2>1 DEF NothingToRestore, SoundInv, Progress, Inv, TypeOK
    <3>5. QED  BY <3>2, <3>3, <3>4 DEF SoundInv
  <2>5. QED  BY <2>3, <2>4 DEF RestoreInv
<1>2. CASE PlanRestore(p)
  <2>1. Owed' = Owed /\ Listed' = Listed /\ Snapshot' = Snapshot /\ (Restored' <=> Restored)
        /\ (Covered' <=> Covered) /\ ~NoStateFiles /\ ~NoStateFiles'
    BY <1>2 DEF PlanRestore, Owed, Listed, Entries, Snapshot, Restored, Covered, NoStateFiles
  <2>2. \A q \in Procs : pc[q] \notin LockedSteps
    BY <1>2 DEF PlanRestore, Inv, LockInv, Free
  <2>3. pc["cleanup"] # "done" /\ pc'["cleanup"] # "done"
    BY <1>2, <2>1 DEF PlanRestore, RestoreInv, Inv, TypeOK
  <2>4. ASSUME ~tainted' PROVE SoundInv'
    <3>1. SoundInv
      BY <1>2, <2>4 DEF PlanRestore, RestoreInv
    <3>2. preFile # NoFile
      BY <2>1, <2>2, <3>1 DEF SoundInv, TornInside, Inv, FileInv, LockedSteps, RestoreSteps,
         BeginSteps, TornSteps
    <3>3. SnapshotSound' /\ TornInside' /\ RestSound'
      BY <1>2, <3>1, <3>2, <2>1 DEF SnapshotSound, TornInside, RestSound, SoundInv, PlanRestore
    <3>4. (pc["prepare"] = "write_list" => sysEnv = base)'
      BY <1>2, <3>1 DEF PlanRestore, SoundInv, Inv, TypeOK
    <3>5. ASSUME NEW q \in Procs PROVE Progress(q)'
      <4>1. CASE q = p
        BY <1>2, <2>1, <3>2, <4>1 DEF PlanRestore, Progress, Inv, TypeOK, Snapshot
      <4>2. CASE q # p
        BY <1>2, <3>1, <2>1, <4>2 DEF PlanRestore, SoundInv, Progress, Inv, TypeOK
      <4>3. QED  BY <4>1, <4>2
    <3>6. QED  BY <3>3, <3>4, <3>5 DEF SoundInv
  <2>5. QED  BY <2>3, <2>4 DEF RestoreInv
<1>3. CASE RestoreBusStep(p)
  <2>1. /\ Owed' = Owed /\ Listed' = Listed /\ Snapshot' = Snapshot
        /\ (NoStateFiles' <=> NoStateFiles)
    BY <1>3 DEF RestoreBusStep, Owed, Listed, Entries, Snapshot, NoStateFiles
  <2>2. pc[p] \in RestoreSteps \ {"sweep"} /\ ~NoStateFiles
    BY <1>3 DEF RestoreBusStep, RestoreSteps, Inv, FileInv, NoStateFiles
  <2>3. pc["cleanup"] # "done" /\ pc'["cleanup"] # "done"
    BY <1>3, <2>2 DEF RestoreBusStep, RestoreInv, Inv, TypeOK
  <2>4. \A q \in Procs \ {p} : pc[q] \notin LockedSteps /\ pc'[q] = pc[q]
    BY <1>3, <2>2, Exclusion DEF LockedSteps, RestoreBusStep, Inv, TypeOK
  <2>5. ASSUME ~tainted' PROVE SoundInv'
    <3>1. SoundInv /\ Progress(p)
      BY <1>3, <2>5 DEF RestoreBusStep, RestoreInv, SoundInv
    <3>2. pc["prepare"] # "write_list" /\ pc'["prepare"] # "write_list"
      BY <1>3, <2>2, <2>4 DEF RestoreBusStep, LockedSteps, RestoreSteps, BeginSteps, Inv, TypeOK
    <3>3. \A q \in Procs : pc[q] \notin TornSteps /\ pc'[q] \notin TornSteps
      BY <1>3, <2>4 DEF RestoreBusStep, LockedSteps, RestoreSteps, BeginSteps, TornSteps,
                           Inv, TypeOK
    <3>4. preFile # NoFile /\ preFile = base /\ Covered
      BY <2>2, <3>1, <3>3 DEF SoundInv, SnapshotSound, TornInside, NoStateFiles, Inv, FileInv
    <3>5. ASSUME NEW q \in Procs, q # p PROVE Progress(q)'
      BY <2>4, <3>5 DEF Progress, LockedSteps, RestoreSteps
    <3>6. Covered' /\ Progress(p)'
      <4>1. CASE pc[p] = "clear_dbus"
        <5>1. UNCHANGED <<sysEnv, out, gone, preFile, base>> /\ pc'[p] = "unset"
          BY <1>3, <4>1 DEF RestoreBusStep, UnsetOnDBus, Inv, TypeOK
        <5>2. QED  BY <5>1, <4>1, <3>1, <3>4, <2>1 DEF Covered, Progress
      <4>2. CASE pc[p] = "unset"
        <5>1. UNCHANGED <<out, gone, preFile, base>> /\ pc'[p] = "set"
              /\ sysEnv' = UnsetVars(sysEnv, gone[p])
          BY <1>3, <4>2 DEF RestoreBusStep, UnsetOnSystemd, Inv, TypeOK
        <5>2. \A n \in Owed : base[n] = Absent => sysEnv'[n] = Absent
          <6> SUFFICES ASSUME NEW n \in Owed, base[n] = Absent, sysEnv[n] # Absent
                       PROVE  n \in gone[p]
            BY <5>1 DEF UnsetVars, Owed
          <6>1. n \in Listed \cup always_cleanup /\ n \notin NEVER_CLEANUP /\ n \in Names
            BY <3>4 DEF Covered, Owed
          <6>2. QED  BY <6>1, <3>1, <3>4, <4>2 DEF Progress, ToUnset, Snapshot, Defined
        <5>3. Covered'
          BY <5>1, <5>2, <2>1 DEF Covered
        <5>4. QED  BY <5>1, <5>2, <5>3, <4>2, <3>1, <2>1 DEF Progress
      <4>3. CASE pc[p] = "set"
        <5>1. UNCHANGED <<out, gone, preFile, base>> /\ pc'[p] = "set_dbus"
              /\ sysEnv' = SetVars(sysEnv, base)
          BY <1>3, <4>3, <3>1, <3>4 DEF RestoreBusStep, SetOnSystemd, Progress, Inv, TypeOK
        <5>2. \A n \in Owed : sysEnv'[n] = base[n]
          BY <5>1, <4>3, <3>1 DEF Progress, SetVars, Owed
        <5>3. QED  BY <5>1, <5>2, <2>1 DEF Progress, Covered, Restored
      <4>4. CASE pc[p] = "set_dbus"
        <5>1. UNCHANGED <<sysEnv, out, gone, preFile, base>> /\ pc'[p] = "rm_list"
          BY <1>3, <4>4 DEF RestoreBusStep, SetOnDBus, Inv, TypeOK
        <5>2. QED  BY <5>1, <4>4, <3>1, <3>4, <2>1 DEF Covered, Progress, Restored
      <4>5. QED  BY <1>3, <4>1, <4>2, <4>3, <4>4 DEF RestoreBusStep
    <3>7. SnapshotSound' /\ TornInside' /\ RestSound'
      BY <1>3, <3>4, <3>6, <2>1, <2>2 DEF SnapshotSound, TornInside, RestSound, RestoreBusStep
    <3>8. QED  BY <3>2, <3>5, <3>6, <3>7 DEF SoundInv
  <2>6. QED  BY <2>3, <2>5 DEF RestoreInv
<1>4. CASE RemoveList(p) \/ RemovePre(p) \/ RemoveGen(p)
  <2>1. pc[p] \in {"rm_list", "rm_pre", "rm_gen"} /\ pc'[p] \in {"rm_pre", "rm_gen", "sweep"}
        /\ UNCHANGED <<envUnit, sysEnv, base, unrecorded, tainted>>
    BY <1>4 DEF RemoveList, RemovePre, RemoveGen, Inv, TypeOK
  <2>2. Owed' = Owed /\ (Restored' <=> Restored)
    BY <2>1 DEF Owed, Restored
  <2>3. \A q \in Procs \ {p} : pc[q] \notin LockedSteps /\ pc'[q] = pc[q]
    BY <1>4, <2>1, Exclusion DEF LockedSteps, RestoreSteps, RemoveList, RemovePre, RemoveGen, Inv,
       TypeOK
  <2>4. pc["cleanup"] # "done" /\ pc'["cleanup"] # "done"
    <3>1. genFile # NoGen
      BY <2>1 DEF Inv, FileInv, RestoreSteps
    <3>2. QED  BY <2>1, <2>3, <3>1 DEF RestoreInv, NoStateFiles
  <2>5. ASSUME ~tainted' PROVE SoundInv'
    <3>1. SoundInv /\ Restored
      BY <2>5, <2>1 DEF RestoreInv, SoundInv, Progress
    <3>2. ASSUME NEW q \in Procs PROVE Progress(q)'
      BY <2>1, <2>2, <2>3, <3>1 DEF Progress, LockedSteps, RestoreSteps
    <3>3. RestSound' /\ Covered'
      BY <2>1, <2>2, <3>1 DEF RestSound, Covered, Restored
    <3>4. pc'["prepare"] # "write_list"
      BY <2>1, <2>3 DEF LockedSteps, BeginSteps
    <3>5. SnapshotSound'
      BY <1>4, <2>1, <3>1, <3>3 DEF SnapshotSound, SoundInv, RemoveList, RemovePre, RemoveGen
    <3>6. TornInside'
      <4>1. CASE RemoveList(p)
        <5>1. \A q \in Procs : pc[q] \notin TornSteps
          BY <4>1, <2>3 DEF RemoveList, TornSteps, LockedSteps, RestoreSteps, BeginSteps
        <5>2. QED  BY <4>1, <5>1, <3>1 DEF RemoveList, TornInside, SoundInv
      <4>2. CASE RemovePre(p)
        BY <4>2 DEF RemovePre, TornInside, TornSteps, Inv, TypeOK
      <4>3. CASE RemoveGen(p)
        BY <4>3 DEF RemoveGen, TornInside
      <4>4. QED  BY <1>4, <4>1, <4>2, <4>3
    <3>7. QED  BY <3>2, <3>3, <3>4, <3>5, <3>6 DEF SoundInv
  <2>6. QED  BY <2>4, <2>5 DEF RestoreInv
<1>5. CASE Sweep(p)
  <2>1. /\ Owed' = Owed /\ (Restored' <=> Restored) /\ NoStateFiles /\ NoStateFiles'
        /\ UNCHANGED <<sysEnv, base, preFile, tainted>>
    BY <1>5 DEF Sweep, Owed, Restored, NoStateFiles, Inv, FileInv
  <2>2. \A q \in Procs \ {p} : pc[q] \notin LockedSteps /\ pc'[q] = pc[q]
    BY <1>5, Exclusion DEF LockedSteps, RestoreSteps, Sweep, Inv, TypeOK
  <2>3. pc'[p] \in {"write_gen", "done"}
    BY <1>5 DEF Sweep, Inv, TypeOK
  <2>4. (pc["cleanup"] = "done" => envUnit = "inactive" /\ NoStateFiles)'
    <3>1. CASE p = "cleanup"
      BY <1>5, <2>1, <3>1 DEF Sweep
    <3>2. CASE p = "prepare"
      BY <1>5, <2>1, <2>2, <3>2 DEF Sweep, RestoreInv
    <3>3. QED  BY <3>1, <3>2
  <2>5. ASSUME ~tainted' PROVE SoundInv'
    <3>1. SoundInv /\ Restored
      BY <1>5, <2>5, <2>1 DEF Sweep, RestoreInv, SoundInv, Progress
    <3>2. ASSUME NEW q \in Procs PROVE Progress(q)'
      BY <2>2, <2>3 DEF Progress, LockedSteps, RestoreSteps
    <3>3. SnapshotSound' /\ TornInside' /\ RestSound'
      BY <2>1, <3>1 DEF SnapshotSound, TornInside, RestSound, NoStateFiles
    <3>4. pc'["prepare"] # "write_list"
      BY <2>2, <2>3 DEF LockedSteps, BeginSteps
    <3>5. QED  BY <3>2, <3>3, <3>4 DEF SoundInv
  <2>6. QED  BY <2>4, <2>5 DEF RestoreInv
<1>6. QED
  BY <1>1, <1>2, <1>3, <1>4, <1>5 DEF Restore

\* While a process is in a critical section of its own, nobody is restoring.
LEMMA NobodyRestores ==
    ASSUME Inv, ~Detached, NEW p \in Procs,
           pc[p] \in {"write_gen", "write_pre", "write_list", "rec_write",
                      "apply", "apply_dbus", "drop"}
    PROVE  \A q \in Procs : pc[q] \notin RestoreSteps
<1>1. CASE pc[p] \in LockedSteps
  BY <1>1, Exclusion DEF LockedSteps, RestoreSteps
<1>2. CASE pc[p] \notin LockedSteps
  <2>1. pc[p] \in {"apply", "apply_dbus", "drop"}
    BY <1>2 DEF LockedSteps, BeginSteps
  <2>2. pc["watcher"] \notin RestoreSteps /\ pc["finalize"] \notin RestoreSteps
    BY DEF RestoreSteps, RecordSteps, Inv, StepInv
  <2>3. p # "cleanup"
    BY <2>1 DEF RestoreSteps, Inv, StepInv
  <2>4. Running(p) /\ envUnit \in {"starting", "active"}
    BY <2>1, <2>3 DEF Running, Inv, OrderInv, Procs
  <2>5. pc["cleanup"] \notin RestoreSteps
    BY <2>4 DEF Running, RestoreSteps, Inv, OrderInv
  <2>6. CASE p = "prepare"
    BY <2>1, <2>2, <2>5, <2>6 DEF RestoreSteps, Procs
  <2>7. CASE p \in Helpers
    <3>1. envUnit = "active"
      BY <2>4, <2>7 DEF Helpers, Inv, OrderInv
    <3>2. pc["prepare"] \notin RestoreSteps
      BY <3>1 DEF Running, RestoreSteps, Inv, OrderInv
    <3>3. QED  BY <2>2, <2>5, <3>2 DEF Procs
  <2>8. QED  BY <2>3, <2>6, <2>7 DEF Procs, Helpers
<1>3. QED  BY <1>1, <1>2

\* A new session rebases: with no state on disk, base is the environment as it
\* is; otherwise nothing that RestoreInv is about changes.
LEMMA StartKeepsRestoreInv ==
    ASSUME Inv, RestoreInv, ~Detached, Start
    PROVE  RestoreInv'
<1> USE DEF Procs, buses, files, locals, history
<1>1. pc' = [p \in Procs |-> IF p = "prepare" THEN "snapshot"
                             ELSE IF Running(p) THEN pc[p] ELSE "idle"]
      /\ UNCHANGED <<genFile, preFile, cleanFile, sysEnv, unrecorded, out, gone>>
      /\ envUnit = "inactive" /\ envUnit' = "starting"
  BY DEF Start
<1>2. pc'["cleanup"] = "idle" /\ pc'["prepare"] = "snapshot"
      /\ \A q \in Procs : pc[q] \notin RestoreSteps \cup BeginSteps
                          /\ pc'[q] \notin RestoreSteps \cup BeginSteps
  BY <1>1 DEF Inv, StepInv, OrderInv, Running, RestoreSteps, BeginSteps, RecordSteps
<1>3. ASSUME ~tainted' PROVE SoundInv'
  <2>1. ASSUME NEW q \in Procs PROVE Progress(q)'
    BY <1>2 DEF Progress, RestoreSteps
  <2>2. CASE NoStateFiles
    <3>1. base' = sysEnv' /\ NoStateFiles'
      BY <1>1, <2>2 DEF Start, NoStateFiles
    <3>2. SnapshotSound' /\ TornInside' /\ RestSound'
      BY <3>1 DEF NoStateFiles, SnapshotSound, TornInside, RestSound, Restored
    <3>3. QED  BY <1>2, <2>1, <3>2 DEF SoundInv, BeginSteps
  <2>3. CASE ~NoStateFiles
    <3>1. base' = base /\ ~tainted /\ ~NoStateFiles'
      BY <1>1, <1>3, <2>3 DEF Start, NoStateFiles
    <3>2. SoundInv
      BY <3>1 DEF RestoreInv
    <3>3. Owed' = Owed /\ Listed' = Listed /\ (Covered' <=> Covered)
      BY <1>1, <3>1 DEF Owed, Listed, Entries, Covered
    <3>4. \A q \in Procs : pc[q] \notin TornSteps
      BY <1>2 DEF TornSteps, RestoreSteps, BeginSteps
    <3>5. SnapshotSound' /\ TornInside' /\ RestSound'
      BY <1>1, <3>1, <3>2, <3>3, <3>4 DEF SoundInv, SnapshotSound, TornInside, RestSound
    <3>6. QED  BY <1>2, <2>1, <3>5 DEF SoundInv, BeginSteps
  <2>4. QED  BY <2>2, <2>3
<1>4. QED  BY <1>2, <1>3 DEF RestoreInv

\* begin_generation: the snapshot that is saved describes base, or tainted says
\* that it does not.
LEMMA BeginKeepsRestoreInv ==
    ASSUME Inv, RestoreInv, ~Detached, WriteGen \/ WritePre \/ WriteList
    PROVE  RestoreInv'
<1> USE DEF Goto, Procs, buses, files, locals, history
<1>1. pc["prepare"] \in BeginSteps
      /\ \A q \in Procs \ {"prepare"} : pc'[q] = pc[q]
  BY DEF WriteGen, WritePre, WriteList, BeginSteps, Inv, TypeOK
<1>2. envUnit = "starting" /\ envUnit' = "starting" /\ pc["cleanup"] \in {"idle", "done"}
  BY <1>1 DEF WriteGen, WritePre, WriteList, BeginSteps, Inv, OrderInv, Running
<1>3. \A q \in Procs : pc[q] \notin RestoreSteps
  BY <1>1, NobodyRestores DEF BeginSteps
<1>4. pc'["cleanup"] # "done"
  BY <1>1, <1>2 DEF RestoreInv
<1>5. pc'["prepare"] \in {"write_pre", "write_list", "aux"}
  BY DEF WriteGen, WritePre, WriteList, Inv, TypeOK
<1>6. ASSUME NEW q \in Procs PROVE Progress(q)'
  BY <1>1, <1>3, <1>5 DEF Progress, RestoreSteps
<1>7. CASE WriteGen
  <2>1. preFile' = NoFile /\ genFile' # NoGen /\ pc'["prepare"] = "write_pre"
    BY <1>7, SessionAssumption DEF WriteGen, Inv, FileInv, NoStateFiles, TypeOK
  <2>2. SnapshotSound' /\ TornInside' /\ RestSound'
    BY <2>1 DEF SnapshotSound, TornInside, RestSound, NoStateFiles, TornSteps
  <2>3. QED  BY <1>4, <1>6, <2>1, <2>2 DEF RestoreInv, SoundInv
<1>8. CASE WritePre
  <2>1. preFile' = snap["prepare"] /\ base' = sysEnv /\ sysEnv' = sysEnv /\ preFile' # NoFile
    BY <1>8, SessionAssumption DEF WritePre, Inv, TypeOK
  <2>2. tainted' = (snap["prepare"] # sysEnv)
    BY <1>8 DEF WritePre
  <2>3. Covered'
    BY <2>1 DEF Covered
  <2>4. ~tainted' => SnapshotSound'
    BY <2>1, <2>2, <2>3 DEF SnapshotSound
  <2>5. TornInside' /\ RestSound'
    BY <2>1 DEF TornInside, RestSound, NoStateFiles
  <2>6. QED  BY <1>4, <1>6, <2>1, <2>4, <2>5 DEF RestoreInv, SoundInv
<1>9. CASE WriteList
  <2>1. UNCHANGED <<preFile, base, sysEnv, tainted>> /\ pc'["prepare"] = "aux"
        /\ pc["prepare"] = "write_list" /\ preFile # NoFile
    BY <1>9 DEF WriteList, Inv, TypeOK, FileInv
  <2>2. ASSUME ~tainted' PROVE SoundInv'
    <3>1. SoundInv /\ sysEnv = base
      BY <2>1, <2>2 DEF RestoreInv, SoundInv
    <3>2. Covered'
      BY <2>1, <3>1 DEF Covered
    <3>3. SnapshotSound' /\ TornInside' /\ RestSound'
      BY <2>1, <3>1, <3>2 DEF SoundInv, SnapshotSound, TornInside, RestSound, NoStateFiles
    <3>4. QED  BY <1>6, <2>1, <3>3 DEF SoundInv
  <2>3. QED  BY <1>4, <2>2 DEF RestoreInv
<1>10. QED  BY <1>7, <1>8, <1>9

\* In a session that is loading or running, RestoreInv is about coverage alone.
LEMMA CoverageSuffices ==
    ASSUME Inv, RestoreInv, ~Detached,
           envUnit = "active" \/ pc["prepare"] \in LoadedSteps,
           UNCHANGED <<preFile, base, tainted>>, genFile' = genFile,
           \A q \in Procs : pc'[q] \notin RestoreSteps \cup BeginSteps,
           pc'["cleanup"] = pc["cleanup"],
           ~tainted /\ Covered => Covered'
    PROVE  RestoreInv'
<1>1. preFile # NoFile /\ genFile # NoGen
  BY DEF Inv, FileInv
<1>2. pc["cleanup"] # "done" /\ pc'["cleanup"] # "done" /\ ~NoStateFiles'
  BY <1>1 DEF RestoreInv, NoStateFiles
<1>3. ASSUME ~tainted' PROVE SoundInv'
  <2>1. SoundInv /\ ~tainted
    BY <1>3 DEF RestoreInv
  <2>2. SnapshotSound' /\ TornInside' /\ RestSound'
    BY <1>1, <1>2, <2>1 DEF SoundInv, SnapshotSound, TornInside, RestSound
  <2>3. ASSUME NEW q \in Procs PROVE Progress(q)'
    BY DEF Progress, RestoreSteps
  <2>4. QED  BY <2>2, <2>3 DEF SoundInv, Procs, BeginSteps
<1>4. QED  BY <1>2, <1>3 DEF RestoreInv

\* Recording and exporting keep everything owed covered: that is what the
\* record before the export is for.
LEMMA RecordKeepsRestoreInv ==
    ASSUME Inv, RecInv, RestoreInv, ~Detached,
           NEW p \in {"prepare", "watcher", "finalize"}, Record(p)
    PROVE  RestoreInv'
<1> USE DEF Goto, Procs, unitVars, buses, files, locals, history
<1>1. CASE RecordRead(p)
  BY <1>1, RestoreFrameKeeps DEF RecordRead, RestoreFrame, RestoreSteps, TornSteps, Inv, TypeOK
<1>2. CASE RecordRefused(p)
  BY <1>2, RestoreFrameKeeps, ForgetOut
     DEF RecordRefused, RestoreFrame, RestoreSteps, TornSteps, Inv, TypeOK
<1>3. CASE ApplyOnDBus(p)
  BY <1>3, RestoreFrameKeeps, ForgetOut
     DEF ApplyOnDBus, SetOnDBus, RestoreFrame, RestoreSteps, TornSteps, Helpers, Inv, TypeOK
<1>4. CASE RecordWrite(p) \/ ApplyOnSystemd(p)
  <2>1. pc[p] \in {"rec_write", "apply"} /\ pc'[p] \in {"apply", "apply_dbus"}
        /\ (\A q \in Procs \ {p} : pc'[q] = pc[q])
        /\ UNCHANGED <<genFile, preFile, base, tainted>>
    BY <1>4 DEF RecordWrite, ApplyOnSystemd, Inv, TypeOK
  <2>2. envUnit = "active" \/ pc["prepare"] \in LoadedSteps
    BY <2>1 DEF Inv, OrderInv, Running, LoadedSteps, RecordSteps
  <2>3. \A q \in Procs : pc[q] \notin RestoreSteps \cup BeginSteps
    <3>1. \A q \in Procs : pc[q] \notin RestoreSteps
      BY <2>1, NobodyRestores
    <3>2. \A q \in Procs : pc[q] \notin BeginSteps
      BY <2>1, <2>2 DEF Inv, StepInv, OrderInv, Running, BeginSteps, RestoreSteps,
                           RecordSteps, LoadedSteps
    <3>3. QED  BY <3>1, <3>2
  <2>4. \A q \in Procs : pc'[q] \notin RestoreSteps \cup BeginSteps
    BY <2>1, <2>3 DEF RestoreSteps, BeginSteps
  <2>5. Covered => Covered'
    <3>1. CASE RecordWrite(p)
      <4>1. Listed \cup RecordNames(p) \subseteq Listed'
        BY <3>1, RecordWriteLists
      <4>2. UNCHANGED <<sysEnv, base>> /\ unrecorded' = unrecorded \ RecordNames(p)
        BY <3>1 DEF RecordWrite
      <4>3. QED  BY <4>1, <4>2 DEF Covered, Owed
    <3>2. CASE ApplyOnSystemd(p)
      <4>1. sysEnv' = SetVars(sysEnv, out[p]) /\ Owed' = Owed /\ Listed' = Listed
            /\ pc[p] = "apply"
        BY <3>2 DEF ApplyOnSystemd, SetOnSystemd, Owed, Listed, Entries
      <4>2. Defined(out[p]) \ NEVER_CLEANUP \subseteq Listed
        BY <4>1 DEF RecInv
      <4>3. QED  BY <2>1, <4>1, <4>2 DEF Covered, Owed, SetVars, Defined
    <3>3. QED  BY <1>4, <3>1, <3>2
  <2>6. QED  BY <2>1, <2>2, <2>4, <2>5, CoverageSuffices
<1>5. QED  BY <1>1, <1>2, <1>3, <1>4 DEF Record

\* The end of prepare-env, and what the compositor publishes.
LEMMA OtherExportsKeepRestoreInv ==
    ASSUME Inv, RestoreInv, ~Detached, DropOnSystemd \/ CompositorPublishes
    PROVE  RestoreInv'
<1> USE DEF Goto, Procs, unitVars, buses, files, locals, history
<1>1. CASE DropOnSystemd
  <2>1. UNCHANGED <<genFile, preFile, cleanFile, base, unrecorded, tainted>>
        /\ sysEnv' = UnsetVars(sysEnv, gone["prepare"])
        /\ pc' = [pc EXCEPT !["prepare"] = "idle", !["watcher"] = "watch"]
        /\ pc["prepare"] = "drop"
    BY <1>1 DEF DropOnSystemd, UnsetOnSystemd
  <2>2. \A q \in Procs : pc'[q] \notin RestoreSteps \cup BeginSteps
    BY <2>1 DEF Inv, StepInv, TypeOK, OrderInv, Running, RestoreSteps, BeginSteps, RecordSteps
  <2>3. Covered => Covered'
    BY <2>1 DEF Covered, Owed, Listed, Entries, UnsetVars
  <2>4. pc'["cleanup"] = pc["cleanup"]
    BY <2>1 DEF Inv, TypeOK
  <2>5. QED  BY <2>1, <2>2, <2>3, <2>4, CoverageSuffices DEF LoadedSteps
<1>2. CASE CompositorPublishes
  <2>1. PICK e \in CompositorEnvs : /\ sysEnv' = SetVars(sysEnv, e)
                                    /\ unrecorded' = unrecorded \cup (Defined(e) \ Listed)
    BY <1>2 DEF CompositorPublishes
  <2>2. UNCHANGED <<genFile, preFile, cleanFile, base, tainted, pc>> /\ envUnit = "active"
    BY <1>2 DEF CompositorPublishes
  <2>3. \A q \in Procs : pc'[q] \notin RestoreSteps \cup BeginSteps
    BY <2>2 DEF Inv, StepInv, OrderInv, Running, RestoreSteps, BeginSteps, RecordSteps
  <2>4. Covered => Covered'
    BY <2>1, <2>2 DEF Covered, Owed, Listed, Entries, SetVars, Defined
  <2>5. QED  BY <2>2, <2>3, <2>4, CoverageSuffices
<1>3. QED  BY <1>1, <1>2

\* Every step keeps RestoreInv.
LEMMA RestoreInvNext ==
    ASSUME Inv, RecInv, RestoreInv, ~Detached, [Next]_vars
    PROVE  RestoreInv'
<1>1. CASE UNCHANGED vars
  BY <1>1, RestoreFrameKeeps
     DEF vars, unitVars, buses, files, locals, history, RestoreFrame
<1>2. CASE Next
  BY <1>2, StartKeepsRestoreInv, BeginKeepsRestoreInv, QuietKeepsRestoreInv,
     RestoreKeepsRestoreInv, RecordKeepsRestoreInv, OtherExportsKeepRestoreInv
     DEF Next, Prepare, Watcher, Finalize, Cleanup
<1>3. QED  BY <1>1, <1>2

\* Before the first session nothing is recorded and nothing is to be restored.
LEMMA InitRestoreInv == Init => RecInv /\ RestoreInv
<1> SUFFICES ASSUME Init PROVE RecInv /\ RestoreInv
  OBVIOUS
<1>1. RecInv
  BY DEF Init, RecInv, RecordedBeforeExport, Procs
<1>2. SoundInv
  BY DEF Init, SoundInv, SnapshotSound, TornInside, RestSound, Progress, Restored, Procs
<1>3. QED  BY <1>1, <1>2 DEF Init, RestoreInv, Procs

\* In a session whose finalize runs in the compositor's cgroup, a restore that
\* completes has brought back the pre-session environment, unless env_pre was
\* not a snapshot of it; and it leaves no state file.
THEOREM RestoreIsCorrect == ~Detached => (Spec => []EnvironmentRestored)
<1> SUFFICES ASSUME ~Detached PROVE Spec => []EnvironmentRestored
  OBVIOUS
<1>1. Init => RecInv /\ RestoreInv
  BY InitRestoreInv
<1>2. Inv /\ RecInv /\ [Next]_vars => RecInv'
  BY RecInvNext
<1>3. Inv /\ RecInv /\ RestoreInv /\ [Next]_vars => RestoreInv'
  BY RestoreInvNext
<1>4. Inv /\ RestoreInv => EnvironmentRestored
  <2> SUFFICES ASSUME Inv, RestoreInv, JustRestored
               PROVE  NoStateFiles /\ (~tainted => Restored)
    BY DEF EnvironmentRestored, Restored
  <2>1. NoStateFiles
    BY DEF JustRestored, RestoreInv, Inv, FileInv, Procs
  <2>2. pc["prepare"] = "write_gen" => envUnit = "starting"
    BY DEF Inv, OrderInv, Running
  <2>3. QED  BY <2>1, <2>2 DEF JustRestored, RestoreInv, SoundInv, RestSound
<1>5. QED
  BY <1>1, <1>2, <1>3, <1>4, SessionInvariant, PTL DEF Spec

-----------------------------------------------------------------------------
(* The D-Bus daemon is never ahead of systemd.                             *)

Valued(n) == dbusEnv[n] \notin {Absent, Empty}

\* A process between the two halves of a bus update has done the first one:
\* set on systemd and not yet on D-Bus, or blank on D-Bus and not yet unset.
DBusInv ==
    /\ \A n \in Names : Valued(n) => sysEnv[n] # Absent
    /\ \A p \in Procs :
           /\ pc[p] \in {"apply_dbus", "set_dbus"} => Defined(out[p]) \subseteq Defined(sysEnv)
           /\ pc[p] \in {"unset", "drop"} => \A n \in gone[p] : ~Valued(n)

BusSteps == {"apply_dbus", "set_dbus", "unset", "drop"}

\* A step that leaves both environments alone and brings nobody between halves.
BusFrame ==
    /\ UNCHANGED <<sysEnv, dbusEnv>>
    /\ \A q \in Procs : pc'[q] \in BusSteps =>
           pc'[q] = pc[q] /\ out'[q] = out[q] /\ gone'[q] = gone[q]

LEMMA BusFrameKeeps ==
    ASSUME DBusInv, BusFrame
    PROVE  DBusInv'
BY DEF DBusInv, BusFrame, BusSteps, Valued, Defined

\* No two processes are between the halves of updates that could collide.
LEMMA OneRetractor ==
    ASSUME Inv, ~Detached, NEW p \in Procs, NEW q \in Procs, p # q,
           pc[p] \in RestoreSteps \cup {"drop_dbus", "drop"}
    PROVE  pc[q] \notin BusSteps
BY DEF Inv, StepInv, OrderInv, Running, Procs, RestoreSteps, BeginSteps, LoadedSteps,
       RecordSteps, BusSteps

\* While a recorder exports, nobody is retracting.
LEMMA NoRetractorInExport ==
    ASSUME Inv, ~Detached, NEW p \in Procs, pc[p] \in {"apply", "apply_dbus"}
    PROVE  \A q \in Procs : pc[q] \notin {"set_dbus", "unset", "drop"}
BY DEF Inv, StepInv, OrderInv, Running, Procs, RestoreSteps, BeginSteps, LoadedSteps,
       RecordSteps

\* Each half of an update, with the step that its process goes to.
LEMMA SetOnSystemdKeeps ==
    ASSUME Inv, DBusInv, NEW p \in Procs, SetOnSystemd(p),
           pc'[p] \in {"apply_dbus", "set_dbus"}, UNCHANGED <<out, gone>>,
           \A q \in Procs \ {p} : pc'[q] = pc[q]
    PROVE  DBusInv'
<1>1. sysEnv' = SetVars(sysEnv, out[p]) /\ dbusEnv' = dbusEnv
  BY DEF SetOnSystemd
<1>2. \A n \in Names : /\ sysEnv[n] # Absent => sysEnv'[n] # Absent
                       /\ out[p][n] # Absent => sysEnv'[n] # Absent
  BY <1>1 DEF SetVars
<1>3. Defined(sysEnv) \subseteq Defined(sysEnv') /\ Defined(out[p]) \subseteq Defined(sysEnv')
  BY <1>2 DEF Defined
<1>4. ASSUME NEW q \in Procs
      PROVE  /\ pc'[q] \in {"apply_dbus", "set_dbus"} => Defined(out'[q]) \subseteq Defined(sysEnv')
             /\ pc'[q] \in {"unset", "drop"} => \A n \in gone'[q] : ~Valued(n)'
  <2>1. CASE q = p
    BY <1>3, <2>1
  <2>2. CASE q # p
    BY <1>1, <1>3, <2>2 DEF DBusInv, Valued
  <2>3. QED  BY <2>1, <2>2
<1>5. \A n \in Names : Valued(n)' => sysEnv'[n] # Absent
  BY <1>1, <1>2 DEF DBusInv, Valued
<1>6. QED  BY <1>4, <1>5 DEF DBusInv, Defined

LEMMA SetOnDBusKeeps ==
    ASSUME Inv, DBusInv, ~Broker, NEW p \in Procs, SetOnDBus(p),
           pc[p] \in {"apply_dbus", "set_dbus"}, pc'[p] \notin BusSteps,
           \A q \in Procs \ {p} : pc'[q] \in BusSteps =>
               /\ pc'[q] = pc[q] /\ out'[q] = out[q] /\ gone'[q] = gone[q]
               /\ pc[q] \notin {"unset", "drop"}
    PROVE  DBusInv'
<1>1. dbusEnv' = SetVars(dbusEnv, out[p]) /\ sysEnv' = sysEnv
  BY DEF SetOnDBus
<1>2. \A n \in Names : Valued(n)' => Valued(n) \/ out[p][n] # Absent
  BY <1>1 DEF SetVars, Valued
<1>3. \A n \in Names : Valued(n)' => sysEnv'[n] # Absent
  BY <1>1, <1>2 DEF DBusInv, Defined
<1>4. QED  BY <1>1, <1>3 DEF DBusInv, BusSteps, Defined

LEMMA UnsetOnDBusKeeps ==
    ASSUME Inv, DBusInv, ~Broker, NEW p \in Procs, UnsetOnDBus(p),
           pc'[p] \in {"unset", "drop"}, UNCHANGED <<out, gone>>,
           \A q \in Procs \ {p} : pc'[q] = pc[q] /\ pc[q] \notin BusSteps
    PROVE  DBusInv'
<1>1. dbusEnv' = BlankVars(dbusEnv, gone[p]) /\ sysEnv' = sysEnv
  BY DEF UnsetOnDBus
<1>2. gone[p] \subseteq Names
  BY DEF Inv, TypeOK
<1>3. \A n \in Names : Valued(n)' => Valued(n) /\ n \notin gone[p]
  BY <1>1 DEF BlankVars, Valued
<1>4. QED  BY <1>1, <1>2, <1>3 DEF DBusInv, BusSteps

LEMMA UnsetOnSystemdKeeps ==
    ASSUME Inv, DBusInv, NEW p \in Procs, UnsetOnSystemd(p),
           pc[p] \in {"unset", "drop"}, pc'[p] \notin BusSteps,
           \A q \in Procs \ {p} : pc'[q] \notin BusSteps
    PROVE  DBusInv'
<1>1. sysEnv' = UnsetVars(sysEnv, gone[p]) /\ dbusEnv' = dbusEnv
  BY DEF UnsetOnSystemd
<1>2. \A n \in Names : n \notin gone[p] => sysEnv'[n] = sysEnv[n]
  BY <1>1 DEF UnsetVars
<1>3. \A n \in Names : Valued(n)' => sysEnv'[n] # Absent
  BY <1>1, <1>2 DEF DBusInv, Valued
<1>4. QED  BY <1>3 DEF DBusInv, BusSteps

\* Every step keeps the two buses in step.
LEMMA DBusInvNext ==
    ASSUME Inv, DBusInv, ~Detached, ~Broker, [Next]_vars
    PROVE  DBusInv'
<1> USE DEF Goto, unitVars, buses, files, locals, history
<1>t. pc \in [Procs -> Steps]
  BY DEF Inv, TypeOK
<1>1. CASE UNCHANGED vars
  BY <1>1, BusFrameKeeps DEF vars, BusFrame
<1>2. ASSUME NEW p \in {"prepare", "cleanup"}, Restore(p)
      PROVE  DBusInv'
  <2>p. p \in Procs
    BY DEF Procs
  <2>1. CASE NothingToRestore(p) \/ PlanRestore(p) \/ RemoveList(p) \/ RemovePre(p) \/ RemoveGen(p)
    BY <1>t, <2>p, <2>1, BusFrameKeeps
       DEF NothingToRestore, PlanRestore, RemoveList, RemovePre, RemoveGen, BusFrame, BusSteps,
           Inv, TypeOK
  <2>2. CASE Sweep(p)
    BY <1>t, <2>p, <2>2, ForgetOut, BusFrameKeeps DEF Sweep, BusFrame, BusSteps
  <2>3. CASE RestoreBusStep(p)
    <3>1. UNCHANGED <<out, gone>> /\ \A q \in Procs \ {p} : pc'[q] = pc[q]
      BY <1>t, <2>p, <2>3 DEF RestoreBusStep
    <3>2. pc[p] \in RestoreSteps
      BY <2>3 DEF RestoreBusStep, RestoreSteps
    <3>3. \A q \in Procs \ {p} : pc[q] \notin BusSteps
      BY <2>p, <3>2, OneRetractor
    <3>4. CASE pc[p] = "clear_dbus" /\ UnsetOnDBus(p) /\ Goto(p, "unset")
      BY <1>t, <2>p, <3>1, <3>3, <3>4, UnsetOnDBusKeeps
    <3>5. CASE pc[p] = "unset" /\ UnsetOnSystemd(p) /\ Goto(p, "set")
      BY <1>t, <2>p, <3>1, <3>3, <3>5, UnsetOnSystemdKeeps DEF BusSteps
    <3>6. CASE pc[p] = "set" /\ SetOnSystemd(p) /\ Goto(p, "set_dbus")
      BY <1>t, <2>p, <3>1, <3>6, SetOnSystemdKeeps
    <3>7. CASE pc[p] = "set_dbus" /\ SetOnDBus(p) /\ Goto(p, "rm_list")
      BY <1>t, <2>p, <3>1, <3>3, <3>7, SetOnDBusKeeps DEF BusSteps
    <3>8. QED  BY <2>3, <3>4, <3>5, <3>6, <3>7 DEF RestoreBusStep
  <2>4. QED  BY <1>2, <2>1, <2>2, <2>3 DEF Restore
<1>3. ASSUME NEW p \in {"prepare", "watcher", "finalize"}, Record(p)
      PROVE  DBusInv'
  <2>p. p \in Procs
    BY DEF Procs
  <2>1. CASE RecordRead(p) \/ RecordWrite(p)
    BY <1>t, <2>p, <2>1, BusFrameKeeps DEF RecordRead, RecordWrite, BusFrame, BusSteps
  <2>2. CASE RecordRefused(p)
    BY <1>t, <2>p, <2>2, ForgetOut, BusFrameKeeps DEF RecordRefused, BusFrame, BusSteps
  <2>3. CASE ApplyOnSystemd(p)
    BY <1>t, <2>p, <2>3, SetOnSystemdKeeps DEF ApplyOnSystemd
  <2>4. CASE ApplyOnDBus(p)
    <3>1. pc[p] = "apply_dbus" /\ SetOnDBus(p) /\ pc'[p] \notin BusSteps
          /\ \A q \in Procs \ {p} : pc'[q] = pc[q]
      BY <1>t, <2>p, <2>4 DEF ApplyOnDBus, BusSteps
    <3>2. \A q \in Procs \ {p} : out'[q] = out[q] /\ gone'[q] = gone[q]
      BY <2>4, ForgetOut DEF ApplyOnDBus
    <3>3. \A q \in Procs : pc[q] \notin {"unset", "drop"}
      BY <2>p, <3>1, NoRetractorInExport
    <3>4. QED  BY <2>p, <3>1, <3>2, <3>3, SetOnDBusKeeps
  <2>5. QED  BY <1>3, <2>1, <2>2, <2>3, <2>4 DEF Record
<1>4. CASE TakeSnapshot \/ WriteGen \/ WritePre \/ WriteList \/ WriteAux \/ RunLoader
           \/ WatchStart \/ FinalizeStart
  BY <1>t, <1>4, BusFrameKeeps
     DEF TakeSnapshot, WriteGen, WritePre, WriteList, WriteAux, RunLoader, WatchStart,
         FinalizeStart, BusFrame, BusSteps, Procs, Inv, TypeOK
<1>5. CASE Start
  BY <1>5, BusFrameKeeps DEF Start, BusFrame, BusSteps
<1>6. CASE WatchDelta
  BY <1>t, <1>6, ForgetOut, BusFrameKeeps DEF WatchDelta, BusFrame, BusSteps, Procs, Inv, TypeOK
<1>7. CASE DropOnDBus
  <2>1. \A q \in Procs \ {"prepare"} : pc[q] \notin BusSteps
    BY <1>7, OneRetractor DEF DropOnDBus, Procs
  <2>2. QED  BY <1>t, <1>7, <2>1, UnsetOnDBusKeeps DEF DropOnDBus, Procs
<1>8. CASE DropOnSystemd
  <2>1. \A q \in Procs \ {"prepare"} : pc[q] \notin BusSteps
    BY <1>8, OneRetractor DEF DropOnSystemd, Procs
  <2>2. QED  BY <1>t, <1>8, <2>1, UnsetOnSystemdKeeps DEF DropOnSystemd, Procs, BusSteps
<1>9. CASE CompositorPublishes
  <2>1. PICK e \in CompositorEnvs : sysEnv' = SetVars(sysEnv, e) /\ dbusEnv' = SetVars(dbusEnv, e)
    BY <1>9 DEF CompositorPublishes
  <2>2. UNCHANGED <<pc, out, gone>> /\ envUnit = "active"
    BY <1>9 DEF CompositorPublishes
  <2>3. \A n \in Names : sysEnv[n] # Absent \/ e[n] # Absent => sysEnv'[n] # Absent
    BY <2>1 DEF SetVars
  <2>4. \A n \in Names : Valued(n)' => Valued(n) \/ e[n] # Absent
    BY <2>1 DEF SetVars, Valued
  <2>5. \A q \in Procs : pc[q] \notin {"unset", "drop"}
    BY <2>2 DEF Inv, StepInv, OrderInv, Running, Procs, RecordSteps
  <2>6. Defined(sysEnv) \subseteq Defined(sysEnv')
    BY <2>3 DEF Defined
  <2>7. QED  BY <2>2, <2>3, <2>4, <2>5, <2>6 DEF DBusInv, Defined
<1>10. CASE Stop
  BY <1>10, ForgetOut, BusFrameKeeps DEF Stop, BusFrame, BusSteps, Helpers, Running
<1>11. CASE PrepareDies \/ CleanupDies \/ (\E p \in Helpers : HelperDies(p))
  BY <1>t, <1>11, ForgetOut, BusFrameKeeps
     DEF PrepareDies, CleanupDies, HelperDies, BusFrame, BusSteps, Helpers, Procs
<1>12. QED
  BY <1>1, <1>2, <1>3, <1>4, <1>5, <1>6, <1>7, <1>8, <1>9, <1>10, <1>11
     DEF Next, Prepare, Watcher, Finalize, Cleanup

\* In a session whose finalize runs in the compositor's cgroup, a variable with
\* a value on the D-Bus daemon is always set on systemd too, so that a restore,
\* which looks for its names there, can still find it.
THEOREM DBusIsNeverAhead == ~Detached => (Spec => []DBusNeverAhead)
<1> SUFFICES ASSUME ~Detached PROVE Spec => []DBusNeverAhead
  OBVIOUS
<1>1. Init => (~Broker => DBusInv)
  BY DEF Init, DBusInv, Valued, Procs
<1>2. Inv /\ (~Broker => DBusInv) /\ [Next]_vars => (~Broker => DBusInv)'
  BY DBusInvNext
<1>3. (~Broker => DBusInv) => DBusNeverAhead
  BY DEF DBusInv, DBusNeverAhead, Valued
<1>4. QED
  BY <1>1, <1>2, <1>3, SessionInvariant, PTL DEF Spec

-----------------------------------------------------------------------------
(* The session state implements the ledger.                                *)

\* What a step of SessionState is in terms of the ledger.
LedgerStep == Ledger!Next \/ UNCHANGED Ledger!lvars

\* A step of nothing that the ledger shows.
LedgerFrame == UNCHANGED <<sysEnv, base, genFile, cleanFile, exported, unrecorded, tainted>>

LEMMA FrameIsNoStep ==
    ASSUME LedgerFrame
    PROVE  LedgerStep
BY DEF LedgerFrame, LedgerStep, Ledger!lvars, Listed, Entries

\* The list and the ledger in it: without a list there is no ledger, and with
\* one it is that of the generation on record.
LEMMA OpenLedger ==
    ASSUME Inv, cleanFile # NoFile
    PROVE  genFile # NoGen /\ genFile \in Gens
BY DEF Inv, FileInv, NoStateFiles, TypeOK

LEMMA NoListNoEntry ==
    ASSUME cleanFile = NoFile
    PROVE  Listed = {}
BY DEF Listed, Entries

\* Initially no ledger is open and nothing has been lent.
LEMMA InitIsLedgerInit == Init => Ledger!Init
<1> SUFFICES ASSUME Init PROVE Ledger!Init
  OBVIOUS
<1>1. Listed = {}
  BY NoListNoEntry DEF Init
<1>2. QED
  BY <1>1, SessionAssumption DEF Init, Ledger!Init

\* Lending, publishing and retracting, as the bus calls do them.
LEMMA SetVarsElsewhere ==
    ASSUME NEW e \in Env, NEW v \in Env
    PROVE  \A n \in Names \ Defined(v) : SetVars(e, v)[n] = e[n]
BY DEF SetVars, Defined

LEMMA UnsetOnSystemdRetracts ==
    ASSUME Inv, NEW p \in Procs, UnsetOnSystemd(p),
           UNCHANGED <<base, genFile, cleanFile, exported, unrecorded, tainted>>
    PROVE  LedgerStep
<1>1. Listed' = Listed
  BY DEF Listed, Entries
<1>2. sysEnv \in Env /\ sysEnv' \in Env /\ sysEnv' = UnsetVars(sysEnv, gone[p])
  BY EnvClosure DEF Inv, TypeOK, UnsetOnSystemd
<1>3. \A n \in Names : sysEnv'[n] \in {sysEnv[n], Absent}
  BY <1>2 DEF UnsetVars
<1>4. Ledger!Retract
  BY <1>1, <1>2, <1>3 DEF Ledger!Retract
<1>5. QED  BY <1>4 DEF LedgerStep, Ledger!Next

-----------------------------------------------------------------------------
(* One lemma per group of actions.                                         *)

\* A restore retracts and returns on the buses, and then closes the ledger.
LEMMA RestoreIsLedgerStep ==
    ASSUME Inv, RestoreInv, NEW p \in {"prepare", "cleanup"}, Restore(p)
    PROVE  LedgerStep
<1> USE DEF Goto, unitVars, buses, files, locals, history
<1>p. p \in Procs
  BY DEF Procs
<1>1. CASE NothingToRestore(p)
  BY <1>1, FrameIsNoStep DEF NothingToRestore, LedgerFrame
<1>2. CASE PlanRestore(p)
  BY <1>2, FrameIsNoStep DEF PlanRestore, LedgerFrame
<1>3. CASE RestoreBusStep(p)
  <2>1. UNCHANGED <<base, genFile, cleanFile, exported, unrecorded, tainted>>
    BY <1>3 DEF RestoreBusStep
  <2>2. CASE UnsetOnDBus(p) \/ SetOnDBus(p)
    BY <2>1, <2>2, FrameIsNoStep DEF UnsetOnDBus, SetOnDBus, LedgerFrame
  <2>3. CASE UnsetOnSystemd(p)
    BY <1>p, <2>1, <2>3, UnsetOnSystemdRetracts
  <2>4. CASE pc[p] = "set" /\ SetOnSystemd(p)
    <3>1. Listed' = Listed
      BY <2>1 DEF Listed, Entries
    <3>2. sysEnv' = SetVars(sysEnv, out[p]) /\ sysEnv' \in Env
      BY <1>p, <2>4, EnvClosure DEF SetOnSystemd, Inv, TypeOK
    <3>3. ~tainted => out[p] = base
      BY <1>p, <2>4 DEF RestoreInv, SoundInv, Progress, SnapshotSound
    <3>4. ~tainted => \A n \in Names : sysEnv'[n] \in {sysEnv[n], base[n]}
      BY <3>2, <3>3 DEF SetVars
    <3>5. Ledger!Return
      BY <2>1, <3>1, <3>2, <3>4 DEF Ledger!Return
    <3>6. QED  BY <3>5 DEF LedgerStep, Ledger!Next
  <2>5. QED  BY <1>3, <2>2, <2>3, <2>4 DEF RestoreBusStep
<1>4. CASE RemoveList(p)
  <2>1. UNCHANGED <<sysEnv, base, genFile, exported, unrecorded, tainted>>
        /\ cleanFile' = NoFile /\ pc[p] = "rm_list"
    BY <1>4 DEF RemoveList
  <2>2. CASE cleanFile = NoFile
    BY <2>1, <2>2, FrameIsNoStep DEF LedgerFrame
  <2>3. CASE cleanFile # NoFile
    <3>1. genFile # NoGen
      BY <2>3, OpenLedger
    <3>2. ~tainted => \A n \in Owed : sysEnv[n] = base[n]
      BY <1>p, <2>1 DEF RestoreInv, SoundInv, Progress, Restored
    <3>3. Listed' = {}
      BY <2>1 DEF Listed, Entries
    <3>4. Ledger!Close
      BY <2>1, <2>3, <3>1, <3>2, <3>3 DEF Ledger!Close, Ledger!Due, Owed
    <3>5. QED  BY <3>4 DEF LedgerStep, Ledger!Next
  <2>4. QED  BY <2>2, <2>3
<1>5. CASE RemovePre(p)
  BY <1>5, FrameIsNoStep DEF RemovePre, LedgerFrame
<1>6. CASE RemoveGen(p)
  <2>1. UNCHANGED <<sysEnv, base, exported, unrecorded, tainted, cleanFile>> /\ cleanFile = NoFile
    BY <1>p, <1>6 DEF RemoveGen, Inv, FileInv
  <2>2. QED  BY <2>1 DEF LedgerStep, Ledger!lvars, Listed, Entries
<1>7. CASE Sweep(p)
  BY <1>7, FrameIsNoStep DEF Sweep, LedgerFrame
<1>8. QED  BY <1>1, <1>2, <1>3, <1>4, <1>5, <1>6, <1>7 DEF Restore

\* begin_generation notes the environment and, last, opens a ledger.
LEMMA BeginIsLedgerStep ==
    ASSUME Inv, Start \/ WriteGen \/ WritePre \/ WriteList
    PROVE  LedgerStep
<1> USE DEF Goto, unitVars, buses, files, locals, history
<1>p. "prepare" \in Procs
  BY DEF Procs
<1>1. CASE Start
  <2>1. UNCHANGED <<sysEnv, genFile, cleanFile, exported, unrecorded>>
        /\ base' = (IF NoStateFiles THEN sysEnv ELSE base)
        /\ tainted' = (tainted /\ ~NoStateFiles)
    BY <1>1 DEF Start
  <2>2. Listed' = Listed
    BY <2>1 DEF Listed, Entries
  <2>3. CASE NoStateFiles
    <3>1. cleanFile = NoFile /\ cleanFile' = NoFile
      BY <2>1, <2>3 DEF NoStateFiles
    <3>2. Ledger!Note
      BY <2>1, <2>2, <2>3, <3>1 DEF Ledger!Note
    <3>3. QED  BY <3>2 DEF LedgerStep, Ledger!Next
  <2>4. CASE ~NoStateFiles
    <3>1. tainted' = tainted
      BY <2>1, <2>4 DEF Inv, TypeOK
    <3>2. QED  BY <2>1, <2>4, <3>1, FrameIsNoStep DEF LedgerFrame
  <2>5. QED  BY <2>3, <2>4
<1>2. CASE WriteGen
  <2>1. UNCHANGED <<sysEnv, base, exported, unrecorded, tainted, cleanFile>> /\ cleanFile = NoFile
    BY <1>p, <1>2 DEF WriteGen, Inv, FileInv, NoStateFiles
  <2>2. QED  BY <2>1 DEF LedgerStep, Ledger!lvars, Listed, Entries
<1>3. CASE WritePre
  <2>1. UNCHANGED <<sysEnv, genFile, cleanFile, exported, unrecorded>>
        /\ base' = sysEnv /\ tainted' \in BOOLEAN
    BY <1>3 DEF WritePre
  <2>2. cleanFile = NoFile /\ cleanFile' = NoFile
    BY <1>p, <1>3, <2>1 DEF WritePre, Inv, FileInv
  <2>3. Listed' = Listed
    BY <2>1 DEF Listed, Entries
  <2>4. Ledger!Note
    BY <2>1, <2>2, <2>3 DEF Ledger!Note
  <2>5. QED  BY <2>4 DEF LedgerStep, Ledger!Next
<1>4. CASE WriteList
  <2>1. UNCHANGED <<sysEnv, base, genFile, tainted>>
        /\ exported' = {} /\ unrecorded' = {} /\ cleanFile' = {}
    BY <1>4 DEF WriteList
  <2>2. cleanFile = NoFile /\ cleanFile' # NoFile /\ genFile \in Gens
    BY <1>p, <1>4, <2>1, EmptyListIsAFile DEF WriteList, Inv, FileInv, TypeOK
  <2>3. Listed = {} /\ Listed' = {}
    BY <2>1, <2>2 DEF Listed, Entries
  <2>4. Ledger!Open(genFile)
    BY <2>1, <2>2, <2>3 DEF Ledger!Open
  <2>5. QED  BY <2>2, <2>4 DEF LedgerStep, Ledger!Next
<1>5. QED  BY <1>1, <1>2, <1>3, <1>4

\* A recorder enters its names, then lends them.
LEMMA RecordIsLedgerStep ==
    ASSUME Inv, RecInv, ~Detached, NEW p \in {"prepare", "watcher", "finalize"}, Record(p)
    PROVE  LedgerStep
<1> USE DEF Goto, unitVars, buses, files, locals, history
<1>p. p \in Procs
  BY DEF Procs
<1>o. pc[p] \in {"rec_write", "apply"} => cleanFile # NoFile
  BY DEF Inv, FileInv, OrderInv, Running, LoadedSteps, RecordSteps
<1>1. CASE RecordRead(p) \/ RecordRefused(p)
  BY <1>1, FrameIsNoStep DEF RecordRead, RecordRefused, LedgerFrame
<1>2. CASE RecordWrite(p)
  <2>1. UNCHANGED <<sysEnv, base, genFile, exported, tainted>> /\ pc[p] = "rec_write"
        /\ unrecorded' = unrecorded \ RecordNames(p)
    BY <1>2 DEF RecordWrite
  <2>2. Listed' = Listed \cup RecordNames(p)
    BY <1>p, <1>2, RecordWriteLists
  <2>3. RecordNames(p) \in SUBSET Names
    BY DefinedNames DEF RecordNames
  <2>4. cleanFile # NoFile /\ genFile # NoGen
    BY <1>o, <2>1, OpenLedger
  <2>5. cleanFile' # NoFile
    <3>1. CASE cleanFile' = cleanFile
      BY <2>4, <3>1
    <3>2. CASE cleanFile' = seen[p] \cup Tagged(RecordNames(p))
      <4>1. seen[p] \subseteq Entry /\ genFile \in Gens
        BY <1>p, <2>4, OpenLedger DEF Inv, TypeOK
      <4>2. Tagged(RecordNames(p)) \subseteq Entry
        BY <2>3, <4>1 DEF Tagged, Entry
      <4>3. cleanFile' \in SUBSET Entry
        BY <3>2, <4>1, <4>2
      <4>4. QED  BY <4>3, SessionAssumption DEF Entry
    <3>3. QED  BY <1>2, <3>1, <3>2 DEF RecordWrite
  <2>6. Ledger!Enter(RecordNames(p))
    BY <2>1, <2>2, <2>4, <2>5 DEF Ledger!Enter
  <2>7. QED  BY <2>3, <2>6 DEF LedgerStep, Ledger!Next
<1>3. CASE ApplyOnSystemd(p)
  <2>1. UNCHANGED <<base, genFile, cleanFile, unrecorded, tainted>> /\ pc[p] = "apply"
        /\ exported' = exported \cup Defined(out[p])
        /\ sysEnv' = SetVars(sysEnv, out[p])
    BY <1>3 DEF ApplyOnSystemd, SetOnSystemd
  <2>2. sysEnv \in Env /\ out[p] \in Env /\ sysEnv' \in Env
    BY <1>p, <2>1, EnvClosure DEF Inv, TypeOK
  <2>3. \A n \in Names \ Defined(out[p]) : sysEnv'[n] = sysEnv[n]
    BY <2>1, <2>2, SetVarsElsewhere
  <2>4. Listed' = Listed
    BY <2>1 DEF Listed, Entries
  <2>5. cleanFile # NoFile /\ genFile # NoGen
    BY <1>o, <2>1, OpenLedger
  <2>6. Defined(out[p]) \subseteq Listed \cup NEVER_CLEANUP /\ Defined(out[p]) \in SUBSET Names
    BY <1>p, <2>1 DEF RecInv, Defined
  <2>7. Ledger!Lend(Defined(out[p]))
    BY <2>1, <2>2, <2>3, <2>4, <2>5, <2>6 DEF Ledger!Lend
  <2>8. QED  BY <2>6, <2>7 DEF LedgerStep, Ledger!Next
<1>4. CASE ApplyOnDBus(p)
  BY <1>4, FrameIsNoStep DEF ApplyOnDBus, SetOnDBus, LedgerFrame
<1>5. QED  BY <1>1, <1>2, <1>3, <1>4 DEF Record

\* The compositor publishes, and a death may lose the record.
LEMMA OthersAreLedgerSteps ==
    ASSUME Inv,
           \/ TakeSnapshot \/ WriteAux \/ RunLoader \/ DropOnDBus \/ DropOnSystemd
           \/ WatchStart \/ WatchDelta \/ FinalizeStart \/ CompositorPublishes
           \/ Stop \/ PrepareDies \/ CleanupDies
           \/ \E p \in Helpers : HelperDies(p)
    PROVE  LedgerStep
<1> USE DEF Goto, unitVars, buses, files, locals, history
<1>1. CASE TakeSnapshot \/ WriteAux \/ RunLoader \/ WatchStart \/ FinalizeStart
  BY <1>1, FrameIsNoStep
     DEF TakeSnapshot, WriteAux, RunLoader, WatchStart, FinalizeStart, LedgerFrame
<1>2. CASE WatchDelta
  BY <1>2, FrameIsNoStep DEF WatchDelta, LedgerFrame
<1>3. CASE Stop
  BY <1>3, FrameIsNoStep DEF Stop, LedgerFrame
<1>4. CASE \E p \in Helpers : HelperDies(p)
  BY <1>4, FrameIsNoStep DEF HelperDies, LedgerFrame
<1>5. CASE DropOnDBus
  BY <1>5, FrameIsNoStep DEF DropOnDBus, UnsetOnDBus, LedgerFrame
<1>6. CASE DropOnSystemd
  <2>1. UnsetOnSystemd("prepare")
        /\ UNCHANGED <<base, genFile, cleanFile, exported, unrecorded, tainted>>
    BY <1>6 DEF DropOnSystemd
  <2>2. QED  BY <2>1, UnsetOnSystemdRetracts DEF Procs
<1>7. CASE CompositorPublishes
  <2>1. PICK e \in CompositorEnvs :
           /\ sysEnv' = SetVars(sysEnv, e)
           /\ unrecorded' = unrecorded \cup (Defined(e) \ Listed)
    BY <1>7 DEF CompositorPublishes
  <2>2. UNCHANGED <<base, genFile, cleanFile, exported, tainted>>
    BY <1>7 DEF CompositorPublishes
  <2>3. sysEnv \in Env /\ e \in Env /\ sysEnv' \in Env
    BY <2>1, SessionAssumption, EnvClosure DEF Inv, TypeOK
  <2>4. \A n \in Names \ Defined(e) : sysEnv'[n] = sysEnv[n]
    BY <2>1, <2>3, SetVarsElsewhere
  <2>5. Listed' = Listed
    BY <2>2 DEF Listed, Entries
  <2>6. Ledger!Publish(Defined(e)) /\ Defined(e) \in SUBSET Names
    BY <2>1, <2>2, <2>3, <2>4, <2>5, DefinedNames DEF Ledger!Publish
  <2>7. QED  BY <2>6 DEF LedgerStep, Ledger!Next
<1>8. CASE PrepareDies \/ CleanupDies
  <2>1. UNCHANGED <<sysEnv, base, genFile, cleanFile, exported, unrecorded>>
        /\ (tainted' = tainted \/ tainted' = TRUE)
    BY <1>8 DEF PrepareDies, CleanupDies, Inv, TypeOK
  <2>2. Listed' = Listed
    BY <2>1 DEF Listed, Entries
  <2>3. CASE tainted' = tainted
    BY <2>1, <2>3, FrameIsNoStep DEF LedgerFrame
  <2>4. CASE tainted' = TRUE
    <3>1. Ledger!Lose
      BY <2>1, <2>2, <2>4 DEF Ledger!Lose
    <3>2. QED  BY <3>1 DEF LedgerStep, Ledger!Next
  <2>5. QED  BY <2>1, <2>3, <2>4
<1>9. QED  BY <1>1, <1>2, <1>3, <1>4, <1>5, <1>6, <1>7, <1>8

\* Every step of the session state is one of the ledger, or none.
LEMMA StepIsLedgerStep ==
    ASSUME Inv, RecInv, RestoreInv, ~Detached, [Next]_vars
    PROVE  [Ledger!Next]_(Ledger!lvars)
<1>1. LedgerStep
  <2>1. CASE UNCHANGED vars
    BY <2>1, FrameIsNoStep
       DEF vars, unitVars, buses, files, locals, history, LedgerFrame
  <2>2. CASE Next
    BY <2>2, RestoreIsLedgerStep, BeginIsLedgerStep, RecordIsLedgerStep, OthersAreLedgerSteps
       DEF Next, Prepare, Watcher, Finalize, Cleanup
  <2>3. QED  BY <2>1, <2>2
<1>2. QED  BY <1>1 DEF LedgerStep

-----------------------------------------------------------------------------

\* begin_generation, append_cleanup and restore_and_clear_locked implement the
\* ledger, whatever is interleaved with them and whoever dies: entries are made
\* before exports and kept until the list is unlinked, and it is unlinked only
\* when the environment is back.  It rests on the two invariants of the restore.
THEOREM SessionKeepsLedger == ~Detached => (Spec => ImplementsLedger)
<1> SUFFICES ASSUME ~Detached PROVE Spec => ImplementsLedger
  OBVIOUS
<1>1. Init => RecInv /\ RestoreInv
  BY InitRestoreInv
<1>2. Inv /\ RecInv /\ [Next]_vars => RecInv'
  BY RecInvNext
<1>3. Inv /\ RecInv /\ RestoreInv /\ [Next]_vars => RestoreInv'
  BY RestoreInvNext
<1>4. Inv /\ RecInv /\ RestoreInv /\ [Next]_vars => [Ledger!Next]_(Ledger!lvars)
  BY StepIsLedgerStep
<1>5. QED
  BY <1>1, <1>2, <1>3, <1>4, InitIsLedgerInit, SessionInvariant, PTL
     DEF Spec, ImplementsLedger, Ledger!Spec
=============================================================================
