--------------------------- MODULE UnitFilesProofs ---------------------------
(***************************************************************************)
(* Theorems about UnitFiles, for any number of runs, files and contents:   *)
(* what the manifest claims is what the last batches put there, foreign    *)
(* files are kept, a failed batch leaves nothing, and a start finds the    *)
(* units it wants.                                                         *)
(***************************************************************************)
EXTENDS UnitFiles, TLAPS

-----------------------------------------------------------------------------
(* The inductive invariant.                                                *)

\* wsmr has written what may be claimed, and what any run's copy claims.
ClaimsWritten ==
    /\ \A n \in Paths : owned[n] \subseteq wrote[n]
    /\ \A r \in Runs : \A n \in Paths : mem[r][n] # NoFile => mem[r][n] \in wrote[n]

\* Nobody but wsmr can miss what is at n.
Ours(n) == disk[n] = NoFile \/ disk[n] \in wrote[n]

\* n is as r wants it, or an unwanted file that r's plan leaves.
Settled(r, n) ==
    disk[n] = want[r][n] \/ (want[r][n] = NoFile /\ disk[n] = before[r][n])

\* The steps of a planner, those at which a run has changed files, and those at
\* which it holds a copy of the manifest.
PlanSteps  == {"plan", "plan_rm"}
BatchSteps == {"apply", "rollback"}
UnderWay   == {"plan", "plan_rm", "apply"}

\* What r's plan says of a file is still justified, and what was read before a
\* change that is still to come is still there.
PlanInv(r, n) ==
    /\ prev[r][n] = Keep \/ todo[r][n] # Keep => disk[n] = before[r][n]
    /\ prev[r][n] # Keep => prev[r][n] = before[r][n]
    /\ prev[r][n] # Keep /\ todo[r][n] = Keep => Ours(n)
    /\ (todo[r][n] = NoFile \/ (n \in Static /\ todo[r][n] \in Contents)) => Ours(n)
    /\ want[r] # Nothing =>
           /\ todo[r][n] = Keep => Settled(r, n)
           /\ todo[r][n] # Keep => todo[r][n] = want[r][n]

\* What a failed batch knows of a file that it changed, or did not change.
BatchInv(r, n) ==
    /\ prev[r][n] = Keep => disk[n] = before[r][n]
    /\ prev[r][n] # Keep => prev[r][n] = before[r][n] /\ Ours(n)

\* All of that, for a file that r has read and nobody else touched since.
RunInv(r, n) ==
    /\ pc[r] \in PlanSteps => disk[n] = before[r][n]
    /\ pc[r] = "apply" => PlanInv(r, n)
    /\ pc[r] = "rollback" => BatchInv(r, n)
    /\ pc[r] = "failed" => disk[n] = before[r][n]
    /\ pc[r] \in {"reload", "done"} /\ want[r] # Nothing => Settled(r, n)

\* Outside of a batch a run has put and replaced nothing, a removal wants no
\* files, and a batch that failed has no plan left.
FreshInv(r) ==
    /\ pc[r] \notin BatchSteps => prev[r] = AllKeep /\ put[r] = AllKeep
    /\ pc[r] = "plan_rm" => want[r] = Nothing
    /\ pc[r] = "rollback" => todo[r] = AllKeep

\* r's copy of the manifest claims what r's batch put at a path, and elsewhere
\* what may still be claimed.
ClaimInv(r, n) ==
    /\ pc[r] \in UnderWay /\ put[r][n] = Keep /\ mem[r][n] # NoFile => mem[r][n] \in owned[n]
    /\ pc[r] = "apply" /\ put[r][n] # Keep => mem[r][n] = put[r][n]

\* What Inv says of one run.
OwnInv(r) ==
    /\ FreshInv(r)
    /\ \A n \in Paths : ClaimInv(r, n)
    /\ \A n \in Seen(r) : RunInv(r, n)

Inv ==
    /\ FilesTypeOK
    /\ ManifestTruthful
    /\ ClaimsWritten
    /\ \A r \in Runs : OwnInv(r)

-----------------------------------------------------------------------------
(* Types.                                                                  *)

LEMMA SpecialFiles ==
    /\ Nothing \in Files
    /\ AllKeep \in MaybeFiles
    /\ Files \subseteq MaybeFiles
BY DEF Nothing, AllKeep, Files, MaybeFiles

\* A change of one file keeps the types of what it changes.
LEMMA ChangeTypes ==
    ASSUME FilesTypeOK, NEW r \in Runs, NEW n \in Paths, NEW content \in Contents \cup {NoFile},
           Change(r, n, content)
    PROVE  disk' \in Files /\ needReload' \in BOOLEAN /\ raced' \in [Runs -> SUBSET Paths]
BY DEF Change, Touch, Files, FilesTypeOK

\* One entry of one run's files is set.
LEMMA EntryTypes ==
    ASSUME NEW f \in [Runs -> MaybeFiles], NEW r \in Runs, NEW n \in Paths,
           NEW v \in Contents \cup {NoFile, Keep}
    PROVE  [f EXCEPT ![r][n] = v] \in [Runs -> MaybeFiles]
BY DEF MaybeFiles

\* The steps that plan keep the types.
LEMMA PlanTypes ==
    ASSUME FilesTypeOK, NEW r \in Runs,
           LoadManifest(r) \/ ReadFile(r) \/ PlanGenerate(r) \/ PlanRemoveAll(r)
    PROVE  FilesTypeOK'
<1> USE UnitFilesAssumption, SpecialFiles DEF FilesTypeOK, Goto, history
<1>1. CASE LoadManifest(r)
  <2>1. /\ pc' \in [Runs -> {"idle", "plan", "plan_rm", "apply", "rollback",
                             "failed", "reload", "done"}]
        /\ want' \in [Runs -> Files] /\ unread' \in [Runs -> SUBSET Paths]
    <3>1. CASE \E c \in Configs :
                 /\ Goto(r, "plan")
                 /\ want' = [want EXCEPT ![r] = c]
                 /\ unread' = [unread EXCEPT ![r] = Paths]
      BY <3>1
    <3>2. CASE \E marked \in RemovalMarks :
                 /\ Goto(r, "plan_rm")
                 /\ want' = [want EXCEPT ![r] = Nothing]
                 /\ unread' = [unread EXCEPT ![r] = {n \in marked : manifest[n] # NoFile}]
      BY <3>2 DEF Paths
    <3>3. QED  BY <1>1, <3>1, <3>2 DEF LoadManifest, Asked
  <2>2. mem' \in [Runs -> Files] /\ raced' \in [Runs -> SUBSET Paths]
        /\ before' \in [Runs -> MaybeFiles]
    BY <1>1 DEF LoadManifest
  <2>3. QED  BY <1>1, <2>1, <2>2 DEF LoadManifest
<1>2. CASE ReadFile(r)
  <2>1. PICK n \in unread[r] :
          /\ unread' = [unread EXCEPT ![r] = @ \ {n}]
          /\ before' = [before EXCEPT ![r][n] = disk[n]]
    BY <1>2 DEF ReadFile
  <2>2. n \in Paths /\ disk[n] \in Contents \cup {NoFile, Keep}
    BY DEF Files
  <2>3. before' \in [Runs -> MaybeFiles]
    BY <2>1, <2>2, EntryTypes
  <2>4. unread' \in [Runs -> SUBSET Paths]
    BY <2>1
  <2>5. QED  BY <1>2, <2>3, <2>4 DEF ReadFile
<1>3. CASE PlanGenerate(r)
  <2>1. CASE Quit(r)
    BY <1>3, <2>1 DEF PlanGenerate, Quit, DropPlan
  <2>2. CASE ~Quit(r)
    <3>1. /\ pc' = [pc EXCEPT ![r] = "apply"]
          /\ todo' = [todo EXCEPT ![r] = Generation(r)]
          /\ UNCHANGED <<disk, manifest, needReload, wrote, owned>>
          /\ UNCHANGED <<want, unread, before, skipped, mem, prev, put, raced>>
      BY <1>3, <2>2 DEF PlanGenerate
    <3>2. Generation(r) \in MaybeFiles
      BY DEF Generation, MaybeFiles, Files
    <3>3. todo' \in [Runs -> MaybeFiles]
      BY <3>1, <3>2
    <3>4. QED  BY <3>1, <3>3
  <2>3. QED  BY <2>1, <2>2
<1>4. CASE PlanRemoveAll(r)
  <2> DEFINE read == {n \in Paths : before[r][n] # Keep}
             ours == {n \in read : before[r][n] = NoFile \/ Verify(r, n)}
             files == [n \in Paths |-> IF n \in ours THEN NoFile ELSE Keep]
  <2>1. /\ todo' = [todo EXCEPT ![r] = files]
        /\ skipped' = [skipped EXCEPT ![r] = read \ ours]
    BY <1>4 DEF PlanRemoveAll
  <2>2. files \in MaybeFiles
    BY DEF MaybeFiles
  <2>3. todo' \in [Runs -> MaybeFiles]
    <3> HIDE DEF files
    <3>1. QED  BY <2>1, <2>2
  <2>4. skipped' \in [Runs -> SUBSET Paths]
    BY <2>1
  <2>5. QED  BY <1>4, <2>3, <2>4 DEF PlanRemoveAll
<1>5. QED  BY <1>1, <1>2, <1>3, <1>4

\* The steps of a batch keep the types.
LEMMA BatchTypes ==
    ASSUME FilesTypeOK, NEW r \in Runs,
           ReadPrevious(r) \/ ApplyWrite(r) \/ ApplyRemove(r) \/ ApplyFails(r) \/ Rollback(r)
    PROVE  FilesTypeOK'
<1> USE UnitFilesAssumption, SpecialFiles DEF FilesTypeOK
<1>1. CASE ReadPrevious(r)
  <2>1. PICK n \in Pending(r) : prev' = [prev EXCEPT ![r][n] = disk[n]]
    BY <1>1 DEF ReadPrevious, Pending
  <2>2. n \in Paths /\ disk[n] \in Contents \cup {NoFile, Keep}
    BY DEF Pending, PendingWrites, PendingRemoves, Files
  <2>3. prev' \in [Runs -> MaybeFiles]
    BY <2>1, <2>2, EntryTypes
  <2>4. QED  BY <1>1, <2>3 DEF ReadPrevious, plan, history
<1>2. CASE ApplyWrite(r)
  <2>1. PICK n \in PendingWrites(r) :
          /\ Change(r, n, todo[r][n])
          /\ mem' = [mem EXCEPT ![r][n] = todo[r][n]]
          /\ wrote' = [wrote EXCEPT ![n] = @ \cup {todo[r][n]}]
          /\ put' = [put EXCEPT ![r][n] = todo[r][n]]
          /\ todo' = [todo EXCEPT ![r][n] = Keep]
    BY <1>2 DEF ApplyWrite
  <2>2. n \in Paths /\ todo[r][n] \in Contents
    BY DEF PendingWrites
  <2>3. disk' \in Files /\ needReload' \in BOOLEAN /\ raced' \in [Runs -> SUBSET Paths]
    BY <2>1, <2>2, ChangeTypes
  <2>4. mem' \in [Runs -> Files] /\ wrote' \in [Paths -> SUBSET Contents]
    BY <2>1, <2>2 DEF Files
  <2>5. put' \in [Runs -> MaybeFiles] /\ todo' \in [Runs -> MaybeFiles]
    BY <2>1, <2>2, EntryTypes
  <2>6. QED  BY <1>2, <2>3, <2>4, <2>5 DEF ApplyWrite
<1>3. CASE ApplyRemove(r)
  <2>1. PICK n \in PendingRemoves(r) :
          /\ Change(r, n, NoFile)
          /\ mem' = [mem EXCEPT ![r][n] = NoFile]
          /\ put' = [put EXCEPT ![r][n] = NoFile]
          /\ todo' = [todo EXCEPT ![r][n] = Keep]
    BY <1>3 DEF ApplyRemove
  <2>2. n \in Paths
    BY DEF PendingRemoves
  <2>3. disk' \in Files /\ needReload' \in BOOLEAN /\ raced' \in [Runs -> SUBSET Paths]
    BY <2>1, <2>2, ChangeTypes
  <2>4. mem' \in [Runs -> Files]
    BY <2>1, <2>2 DEF Files
  <2>5. put' \in [Runs -> MaybeFiles] /\ todo' \in [Runs -> MaybeFiles]
    BY <2>1, <2>2, EntryTypes
  <2>6. QED  BY <1>3, <2>3, <2>4, <2>5 DEF ApplyRemove
<1>4. CASE ApplyFails(r)
  <2>1. OnlyApplied(r) \in MaybeFiles
    BY DEF OnlyApplied, MaybeFiles
  <2>2. prev' \in [Runs -> MaybeFiles]
    BY <1>4, <2>1 DEF ApplyFails
  <2>3. QED  BY <1>4, <2>2 DEF ApplyFails, Goto, DropPlan, history
<1>5. CASE Rollback(r)
  <2>1. PICK n \in Applied(r) :
          /\ prev' = [prev EXCEPT ![r][n] = Keep]
          /\ put' = [put EXCEPT ![r][n] = Keep]
          /\ \/ Change(r, n, prev[r][n])
             \/ /\ raced' = [raced EXCEPT ![r] = @ \cup {n}]
                /\ UNCHANGED <<disk, needReload>>
    BY <1>5 DEF Rollback
  <2>2. n \in Paths /\ prev[r][n] \in Contents \cup {NoFile}
    BY DEF Applied, MaybeFiles
  <2>3. disk' \in Files /\ needReload' \in BOOLEAN /\ raced' \in [Runs -> SUBSET Paths]
    <3>1. CASE Change(r, n, prev[r][n])
      BY <2>2, <3>1, ChangeTypes
    <3>2. CASE /\ raced' = [raced EXCEPT ![r] = @ \cup {n}]
               /\ UNCHANGED <<disk, needReload>>
      BY <2>2, <3>2
    <3>3. QED  BY <2>1, <3>1, <3>2
  <2>4. prev' \in [Runs -> MaybeFiles] /\ put' \in [Runs -> MaybeFiles]
    BY <2>1, <2>2, EntryTypes
  <2>5. QED  BY <1>5, <2>3, <2>4 DEF Rollback, plan
<1>6. QED  BY <1>1, <1>2, <1>3, <1>4, <1>5

\* The steps that end a batch or a run keep the types.
LEMMA EndTypes ==
    ASSUME FilesTypeOK, NEW r \in Runs,
           RolledBack(r) \/ NothingChanged(r) \/ SaveManifest(r) \/ Reload(r) \/ Die(r)
    PROVE  FilesTypeOK'
<1> USE UnitFilesAssumption, SpecialFiles DEF FilesTypeOK, Goto, DropPlan
<1>1. ASSUME NEW step \in {"failed", "reload", "done"}, Finish(r, step)
      PROVE  /\ pc' \in [Runs -> {"idle", "plan", "plan_rm", "apply", "rollback",
                                  "failed", "reload", "done"}]
             /\ todo' \in [Runs -> MaybeFiles] /\ skipped' \in [Runs -> SUBSET Paths]
             /\ mem' \in [Runs -> Files] /\ prev' \in [Runs -> MaybeFiles]
             /\ put' \in [Runs -> MaybeFiles] /\ UNCHANGED <<want, unread, before, raced>>
  BY <1>1 DEF Finish
<1>2. CASE RolledBack(r)
  BY <1>1, <1>2 DEF RolledBack
<1>3. CASE NothingChanged(r)
  BY <1>1, <1>3 DEF NothingChanged
<1>4. CASE SaveManifest(r)
  <2>1. manifest' \in Files
    BY <1>4 DEF SaveManifest, Files
  <2>2. \A n \in Paths : ({put[r][n]} \ {NoFile}) \subseteq Contents \/ put[r][n] = Keep
    BY DEF MaybeFiles
  <2>3. NowOwned(r) \in [Paths -> SUBSET Contents]
    BY <2>2 DEF NowOwned
  <2>4. owned' \in [Paths -> SUBSET Contents]
    BY <1>4, <2>3 DEF SaveManifest
  <2>5. QED  BY <1>1, <1>4, <2>1, <2>4 DEF SaveManifest
<1>5. CASE Reload(r)
  BY <1>1, <1>5 DEF Reload
<1>6. CASE Die(r)
  BY <1>6 DEF Die, Quit
<1>7. QED  BY <1>2, <1>3, <1>4, <1>5, <1>6

\* Every step keeps the types.
LEMMA TypeNext ==
    ASSUME FilesTypeOK, [Next]_vars
    PROVE  FilesTypeOK'
<1>1. ASSUME NEW r \in Runs, Step(r) PROVE FilesTypeOK'
  BY <1>1, PlanTypes, BatchTypes, EndTypes DEF Step
<1>2. ASSUME NEW n \in Paths, Foreign(n) PROVE FilesTypeOK'
  BY <1>2, UnitFilesAssumption DEF Foreign, Files, FilesTypeOK, locals, plan
<1>3. CASE UNCHANGED vars
  BY <1>3 DEF vars, locals, plan, history, FilesTypeOK
<1>4. QED  BY <1>1, <1>2, <1>3 DEF Next

LEMMA InitTypes == Init => FilesTypeOK
<1> SUFFICES ASSUME Init PROVE FilesTypeOK
  OBVIOUS
<1>1. disk \in Files /\ manifest \in Files /\ want \in [Runs -> Files]
      /\ mem \in [Runs -> Files]
  BY SpecialFiles DEF Init
<1>2. todo \in [Runs -> MaybeFiles] /\ prev \in [Runs -> MaybeFiles]
      /\ before \in [Runs -> MaybeFiles] /\ put \in [Runs -> MaybeFiles]
  BY SpecialFiles DEF Init
<1>3. /\ wrote \in [Paths -> SUBSET Contents] /\ owned \in [Paths -> SUBSET Contents]
      /\ skipped \in [Runs -> SUBSET Paths] /\ raced \in [Runs -> SUBSET Paths]
      /\ unread \in [Runs -> SUBSET Paths]
  BY DEF Init
<1>4. QED  BY <1>1, <1>2, <1>3 DEF Init, FilesTypeOK

\* The variables hold values of their kind.
THEOREM FilesTypeCorrect == Spec => []FilesTypeOK
BY InitTypes, TypeNext, PTL DEF Spec

-----------------------------------------------------------------------------
(* One run's step, seen from another run.                                  *)

\* A change by r of one file leaves the other files alone, and those who have read
\* it learn of it.
LEMMA ChangeTouches ==
    ASSUME FilesTypeOK, NEW r \in Runs, NEW m \in Paths, NEW content,
           Change(r, m, content)
    PROVE  /\ \A n \in Paths \ {m} : disk'[n] = disk[n]
           /\ disk'[m] = content
           /\ raced'[r] = raced[r]
           /\ \A q \in Runs \ {r} : /\ raced[q] \subseteq raced'[q]
                                    /\ before[q][m] # Keep => m \in raced'[q]
BY DEF Change, Touch, FilesTypeOK, Files

\* A run keeps its locals, and a file it has read is still what it was.
Undisturbed(q) ==
    /\ pc'[q] = pc[q] /\ want'[q] = want[q] /\ todo'[q] = todo[q] /\ mem'[q] = mem[q]
    /\ prev'[q] = prev[q] /\ before'[q] = before[q] /\ put'[q] = put[q]
    /\ raced[q] \subseteq raced'[q]
    /\ \A n \in Paths \ raced'[q] : before[q][n] # Keep => disk'[n] = disk[n]

WrittenGrows == \A n \in Paths : wrote[n] \subseteq wrote'[n]

\* What a run under way has loaded may still be claimed.
ClaimsStay(q) == pc[q] \in UnderWay => \A n \in Paths : owned[n] \subseteq owned'[n]

LEMMA OthersUndisturbed ==
    ASSUME FilesTypeOK, NEW r \in Runs, Step(r), NEW q \in Runs, q # r
    PROVE  Undisturbed(q)
<1> USE DEF Goto, DropPlan, Finish, Quit, locals, plan, history, Undisturbed, FilesTypeOK
<1>1. CASE LoadManifest(r)
  BY <1>1 DEF LoadManifest, Asked
<1>2. CASE ReadFile(r)
  BY <1>2 DEF ReadFile
<1>3. CASE PlanGenerate(r)
  BY <1>3 DEF PlanGenerate
<1>4. CASE PlanRemoveAll(r)
  BY <1>4 DEF PlanRemoveAll
<1>5. CASE ReadPrevious(r)
  BY <1>5 DEF ReadPrevious
<1>6. CASE ApplyWrite(r)
  <2>1. PICK m \in PendingWrites(r) :
          /\ Change(r, m, todo[r][m])
          /\ mem' = [mem EXCEPT ![r][m] = todo[r][m]]
          /\ put' = [put EXCEPT ![r][m] = todo[r][m]]
          /\ todo' = [todo EXCEPT ![r][m] = Keep]
    BY <1>6 DEF ApplyWrite
  <2>2. m \in Paths
    BY DEF PendingWrites
  <2>3. raced[q] \subseteq raced'[q]
        /\ \A n \in Paths \ raced'[q] : before[q][n] # Keep => disk'[n] = disk[n]
    BY <2>1, <2>2, ChangeTouches
  <2>4. QED  BY <1>6, <2>1, <2>3 DEF ApplyWrite
<1>7. CASE ApplyRemove(r)
  <2>1. PICK m \in PendingRemoves(r) :
          /\ Change(r, m, NoFile)
          /\ mem' = [mem EXCEPT ![r][m] = NoFile]
          /\ put' = [put EXCEPT ![r][m] = NoFile]
          /\ todo' = [todo EXCEPT ![r][m] = Keep]
    BY <1>7 DEF ApplyRemove
  <2>2. m \in Paths
    BY DEF PendingRemoves
  <2>3. raced[q] \subseteq raced'[q]
        /\ \A n \in Paths \ raced'[q] : before[q][n] # Keep => disk'[n] = disk[n]
    BY <2>1, <2>2, ChangeTouches
  <2>4. QED  BY <1>7, <2>1, <2>3 DEF ApplyRemove
<1>8. CASE ApplyFails(r)
  BY <1>8 DEF ApplyFails
<1>9. CASE Rollback(r)
  <2>1. PICK m \in Applied(r) :
          /\ prev' = [prev EXCEPT ![r][m] = Keep]
          /\ put' = [put EXCEPT ![r][m] = Keep]
          /\ \/ Change(r, m, prev[r][m])
             \/ /\ raced' = [raced EXCEPT ![r] = @ \cup {m}]
                /\ UNCHANGED <<disk, needReload>>
    BY <1>9 DEF Rollback
  <2>2. m \in Paths
    BY DEF Applied
  <2>3. raced[q] \subseteq raced'[q]
        /\ \A n \in Paths \ raced'[q] : before[q][n] # Keep => disk'[n] = disk[n]
    BY <2>1, <2>2, ChangeTouches
  <2>4. QED  BY <1>9, <2>1, <2>3 DEF Rollback
<1>10. CASE RolledBack(r) \/ NothingChanged(r)
  BY <1>10 DEF RolledBack, NothingChanged
<1>11. CASE SaveManifest(r)
  BY <1>11 DEF SaveManifest
<1>12. CASE Reload(r) \/ Die(r)
  BY <1>12 DEF Reload, Die
<1>13. QED
  BY <1>1, <1>2, <1>3, <1>4, <1>5, <1>6, <1>7, <1>8, <1>9, <1>10, <1>11, <1>12 DEF Step

\* Somebody else's change disturbs no run.
LEMMA ForeignDisturbsNone ==
    ASSUME FilesTypeOK, NEW m \in Paths, Foreign(m), NEW q \in Runs
    PROVE  Undisturbed(q)
BY DEF Foreign, Undisturbed, FilesTypeOK, Files, locals, plan

\* Only a save changes what may be claimed.
LEMMA OnlySaves ==
    ASSUME NEW r \in Runs, Step(r), ~SaveManifest(r)
    PROVE  owned' = owned /\ manifest' = manifest
BY DEF Step, LoadManifest, ReadFile, PlanGenerate, PlanRemoveAll, ReadPrevious, ApplyWrite,
       ApplyRemove, ApplyFails, Rollback, RolledBack, NothingChanged, Reload, Die, history

\* A save by one run leaves others what they have loaded.
LEMMA OthersClaimsStay ==
    ASSUME FilesTypeOK, NEW r \in Runs, Step(r), NEW q \in Runs, q # r
    PROVE  ClaimsStay(q)
<1>1. CASE SaveManifest(r)
  BY <1>1 DEF SaveManifest, NowOwned, Overlapped, ClaimsStay, UnderWay
<1>2. CASE ~SaveManifest(r)
  BY <1>2, OnlySaves DEF ClaimsStay
<1>3. QED  BY <1>1, <1>2

\* What wsmr has written it has written for ever.
LEMMA Grows ==
    ASSUME FilesTypeOK, [Next]_vars
    PROVE  WrittenGrows
<1> USE DEF WrittenGrows, history
<1>1. ASSUME NEW r \in Runs, ApplyWrite(r) PROVE WrittenGrows
  BY <1>1 DEF ApplyWrite, FilesTypeOK
<1>2. ASSUME NEW r \in Runs, Step(r), ~ApplyWrite(r) PROVE wrote' = wrote
  BY <1>2 DEF Step, LoadManifest, ReadFile, PlanGenerate, PlanRemoveAll, ReadPrevious,
              ApplyRemove, ApplyFails, Rollback, RolledBack, NothingChanged, SaveManifest,
              Reload, Die
<1>3. ASSUME NEW n \in Paths, Foreign(n) PROVE wrote' = wrote
  BY <1>3 DEF Foreign
<1>4. CASE UNCHANGED vars
  BY <1>4 DEF vars
<1>5. QED  BY <1>1, <1>2, <1>3, <1>4 DEF Next

\* An undisturbed run keeps its part of the invariant.
LEMMA UndisturbedKeeps ==
    ASSUME Inv, NEW q \in Runs, Undisturbed(q), ClaimsStay(q), WrittenGrows
    PROVE  OwnInv(q)'
<1>1. FreshInv(q)'
  BY DEF Inv, OwnInv, FreshInv, Undisturbed, AllKeep, Nothing
<1>2. \A n \in Paths : ClaimInv(q, n)'
  BY DEF Inv, OwnInv, ClaimInv, Undisturbed, ClaimsStay
<1>3. ASSUME NEW n \in Seen(q)' PROVE RunInv(q, n)'
  <2>1. n \in Paths /\ n \in Seen(q) /\ disk'[n] = disk[n]
    BY <1>3 DEF Seen, Undisturbed
  <2>2. RunInv(q, n)
    BY <2>1 DEF Inv, OwnInv
  <2>3. Ours(n) => Ours(n)'
    BY <2>1 DEF Ours, WrittenGrows
  <2>4. Settled(q, n) => Settled(q, n)'
    BY <2>1 DEF Settled, Undisturbed
  <2>5. PlanInv(q, n) => PlanInv(q, n)'
    BY <2>1, <2>3, <2>4 DEF PlanInv, Undisturbed, Nothing
  <2>6. BatchInv(q, n) => BatchInv(q, n)'
    BY <2>1, <2>3 DEF BatchInv, Undisturbed
  <2>7. QED  BY <2>1, <2>2, <2>4, <2>5, <2>6 DEF RunInv, Undisturbed, Nothing
<1>4. QED  BY <1>1, <1>2, <1>3 DEF OwnInv

-----------------------------------------------------------------------------
(* One run's step, seen from itself.                                       *)

\* A run that ends a batch, or all of its work, keeps its part when what it goes
\* on to needs no more than it has.
LEMMA FinishKeeps ==
    ASSUME Inv, NEW r \in Runs, NEW step \in {"failed", "reload", "done"}, Finish(r, step),
           UNCHANGED disk,
           step = "failed" => \A n \in Seen(r) : disk[n] = before[r][n],
           step # "failed" /\ want[r] # Nothing => \A n \in Seen(r) : Settled(r, n)
    PROVE  OwnInv(r)'
<1>1. /\ pc'[r] = step /\ prev'[r] = AllKeep /\ put'[r] = AllKeep
      /\ UNCHANGED <<want, before, raced>>
  BY DEF Finish, Goto, DropPlan, Inv, FilesTypeOK
<1>2. FreshInv(r)'
  BY <1>1 DEF FreshInv, AllKeep
<1>3. \A n \in Paths : ClaimInv(r, n)'
  BY <1>1 DEF ClaimInv, UnderWay
<1>4. ASSUME NEW n \in Seen(r)' PROVE RunInv(r, n)'
  <2>1. n \in Seen(r)
    BY <1>1, <1>4 DEF Seen
  <2>2. Settled(r, n)' <=> Settled(r, n)
    BY <1>1 DEF Settled
  <2>3. QED  BY <1>1, <2>1, <2>2 DEF RunInv, PlanSteps, Nothing
<1>5. QED  BY <1>2, <1>3, <1>4 DEF OwnInv

\* A run that quits has nothing to keep.
LEMMA QuitKeeps ==
    ASSUME Inv, NEW r \in Runs, Quit(r)
    PROVE  OwnInv(r)'
<1>1. pc'[r] = "idle" /\ prev'[r] = AllKeep /\ put'[r] = AllKeep
  BY DEF Quit, Goto, DropPlan, Inv, FilesTypeOK
<1>2. QED
  BY <1>1 DEF OwnInv, FreshInv, ClaimInv, RunInv, PlanSteps, UnderWay, Nothing, AllKeep

\* Loading the manifest copies true claims only, and nothing has been read yet.
LEMMA LoadKeeps ==
    ASSUME Inv, NEW r \in Runs, LoadManifest(r)
    PROVE  OwnInv(r)'
<1>1. /\ mem'[r] = manifest /\ before'[r] = AllKeep /\ owned' = owned
      /\ prev'[r] = prev[r] /\ put'[r] = put[r] /\ pc[r] \in {"idle", "done"}
  BY DEF LoadManifest, Inv, FilesTypeOK
<1>2. pc'[r] \in PlanSteps /\ (pc'[r] = "plan_rm" => want'[r] = Nothing)
  <2>1. CASE pc' = [pc EXCEPT ![r] = "plan"]
    BY <2>1 DEF Inv, FilesTypeOK, PlanSteps
  <2>2. CASE pc' = [pc EXCEPT ![r] = "plan_rm"] /\ want' = [want EXCEPT ![r] = Nothing]
    BY <2>2 DEF Inv, FilesTypeOK, PlanSteps
  <2>3. QED  BY <2>1, <2>2 DEF LoadManifest, Asked, Goto
<1>3. prev[r] = AllKeep /\ put[r] = AllKeep
  BY <1>1 DEF Inv, OwnInv, FreshInv, BatchSteps
<1>4. FreshInv(r)'
  BY <1>1, <1>2, <1>3 DEF FreshInv, PlanSteps, AllKeep, Nothing
<1>5. \A n \in Paths : ClaimInv(r, n)'
  BY <1>1, <1>2 DEF ClaimInv, PlanSteps, Inv, ManifestTruthful
<1>6. Seen(r)' = {}
  BY <1>1 DEF Seen, AllKeep
<1>7. QED  BY <1>4, <1>5, <1>6 DEF OwnInv

\* What has been read is there.
LEMMA ReadKeeps ==
    ASSUME Inv, NEW r \in Runs, ReadFile(r)
    PROVE  OwnInv(r)'
<1>1. PICK m \in unread[r] : before' = [before EXCEPT ![r][m] = disk[m]]
  BY DEF ReadFile
<1>2. /\ pc[r] \in PlanSteps /\ m \in Paths
      /\ UNCHANGED <<disk, pc, want, todo, mem, prev, put, owned, raced>>
  BY DEF ReadFile, PlanSteps, Inv, FilesTypeOK, history
<1>3. before'[r][m] = disk[m] /\ \A n \in Paths \ {m} : before'[r][n] = before[r][n]
  BY <1>1, <1>2 DEF Inv, FilesTypeOK, MaybeFiles
<1>4. FreshInv(r)' /\ \A n \in Paths : ClaimInv(r, n)'
  BY <1>2 DEF Inv, OwnInv, FreshInv, ClaimInv, AllKeep, Nothing
<1>5. ASSUME NEW n \in Seen(r)' PROVE RunInv(r, n)'
  <2>1. n \in Paths /\ (n # m => n \in Seen(r))
    BY <1>2, <1>3, <1>5 DEF Seen
  <2>2. disk[n] = before'[r][n]
    BY <1>2, <1>3, <2>1 DEF Inv, OwnInv, RunInv
  <2>3. QED  BY <1>2, <2>2 DEF RunInv, PlanSteps
<1>6. QED  BY <1>4, <1>5 DEF OwnInv

\* A file the manifest vouches for, and that nobody touched since it was read, is
\* ours.
LEMMA VerifiedIsOurs ==
    ASSUME Inv, NEW r \in Runs, NEW n \in Seen(r), pc[r] \in PlanSteps, Verify(r, n)
    PROVE  Ours(n)
BY DEF Verify, Ours, Inv, OwnInv, RunInv, ClaimsWritten, Seen

\* A plan to generate is justified when it is made.
LEMMA PlanGenerateKeeps ==
    ASSUME Inv, NEW r \in Runs, PlanGenerate(r)
    PROVE  OwnInv(r)'
<1>1. CASE Quit(r)
  BY <1>1, QuitKeeps
<1>2. CASE ~Quit(r)
  <2>1. /\ Conflicts(r) = {} /\ pc[r] = "plan"
        /\ pc' = [pc EXCEPT ![r] = "apply"]
        /\ todo' = [todo EXCEPT ![r] = Generation(r)]
        /\ UNCHANGED <<disk, wrote, owned, want, before, mem, prev, put, raced>>
    BY <1>2 DEF PlanGenerate, Goto
  <2>2. pc'[r] = "apply" /\ prev[r] = AllKeep /\ put[r] = AllKeep
    BY <2>1 DEF Inv, OwnInv, FilesTypeOK, FreshInv, BatchSteps
  <2>3. ASSUME NEW n \in Seen(r)' PROVE RunInv(r, n)'
    <3>1. n \in Paths /\ n \in Seen(r)
      BY <2>1, <2>3 DEF Seen
    <3>2. todo'[r][n] = IF n \in PlannedWrites(r) THEN want[r][n]
                        ELSE IF n \in PlannedRemoves(r) THEN NoFile ELSE Keep
      BY <2>1, <3>1 DEF Inv, FilesTypeOK, Generation
    <3>3. prev'[r][n] = Keep
      BY <2>1, <2>2, <3>1 DEF AllKeep
    <3>4. disk[n] = before[r][n]
      BY <2>1, <3>1 DEF Inv, OwnInv, RunInv, PlanSteps
    <3>5. Verify(r, n) => Ours(n)
      BY <2>1, <3>1, VerifiedIsOurs DEF PlanSteps
    <3>6. want[r][n] \in Contents \cup {NoFile}
          /\ (n \in PlannedWrites(r) => want[r][n] \in Contents)
      BY <3>1 DEF PlannedWrites, Inv, FilesTypeOK, Files
    <3>7. (todo'[r][n] = NoFile \/ (n \in Static /\ todo'[r][n] \in Contents)) => Ours(n)
      BY <3>2, <3>4, <3>5, <3>6, UnitFilesAssumption
         DEF PlannedWrites, PlannedRemoves, Ours
    <3>8. todo'[r][n] = Keep => Settled(r, n)'
      <4>1. n \notin PlannedWrites(r) => want[r][n] = NoFile \/ before[r][n] = want[r][n]
        BY <2>1, <3>1, <3>6 DEF PlannedWrites, Conflicts, Paths
      <4>2. todo'[r][n] = Keep => n \notin PlannedWrites(r)
        BY <3>2, <3>6, UnitFilesAssumption
      <4>3. QED  BY <2>1, <3>4, <4>1, <4>2 DEF Settled
    <3>9. todo'[r][n] # Keep => todo'[r][n] = want'[r][n]
      BY <2>1, <3>2 DEF PlannedRemoves
    <3>10. PlanInv(r, n)'
      <4>1. Ours(n)' <=> Ours(n)
        BY <2>1 DEF Ours
      <4>2. QED  BY <2>1, <3>3, <3>4, <3>7, <3>8, <3>9, <4>1 DEF PlanInv
    <3>11. QED  BY <2>2, <3>10 DEF RunInv, PlanSteps
  <2>4. FreshInv(r)'
    BY <2>2 DEF FreshInv, BatchSteps
  <2>5. \A n \in Paths : ClaimInv(r, n)'
    BY <2>1, <2>2 DEF Inv, OwnInv, ClaimInv, UnderWay, AllKeep
  <2>6. QED  BY <2>3, <2>4, <2>5 DEF OwnInv
<1>3. QED  BY <1>1, <1>2

\* A plan to remove is justified when it is made.
LEMMA PlanRemoveKeeps ==
    ASSUME Inv, NEW r \in Runs, PlanRemoveAll(r)
    PROVE  OwnInv(r)'
<1>1. todo' = [todo EXCEPT ![r] =
          [n \in Paths |-> IF n \in {m \in {k \in Paths : before[r][k] # Keep} :
                                        before[r][m] = NoFile \/ Verify(r, m)}
                           THEN NoFile ELSE Keep]]
  BY DEF PlanRemoveAll
<1>2. /\ pc'[r] = "apply" /\ pc[r] = "plan_rm"
      /\ UNCHANGED <<disk, want, mem, prev, put, before, wrote, owned, raced>>
  BY DEF PlanRemoveAll, Goto, history, Inv, FilesTypeOK
<1>3. want[r] = Nothing /\ prev[r] = AllKeep /\ put[r] = AllKeep
  BY <1>2 DEF Inv, OwnInv, FreshInv, BatchSteps
<1>4. ASSUME NEW n \in Seen(r)' PROVE RunInv(r, n)'
  <2>1. n \in Paths /\ n \in Seen(r)
    BY <1>2, <1>4 DEF Seen
  <2>2. prev'[r][n] = Keep
    BY <1>2, <1>3, <2>1 DEF AllKeep
  <2>3. todo'[r][n] \in {NoFile, Keep}
        /\ (todo'[r][n] = NoFile => before[r][n] = NoFile \/ Verify(r, n))
    BY <1>1, <2>1, UnitFilesAssumption DEF Inv, FilesTypeOK
  <2>4. disk[n] = before[r][n]
    BY <1>2, <2>1 DEF Inv, OwnInv, RunInv, PlanSteps
  <2>5. todo'[r][n] = NoFile => Ours(n)'
    BY <1>2, <2>1, <2>3, <2>4, VerifiedIsOurs DEF Ours, PlanSteps
  <2>6. todo'[r][n] \notin Contents
    BY <2>3, UnitFilesAssumption
  <2>7. PlanInv(r, n)'
    BY <1>2, <1>3, <2>2, <2>4, <2>5, <2>6 DEF PlanInv, Nothing
  <2>8. QED  BY <1>2, <2>7 DEF RunInv, PlanSteps
<1>5. FreshInv(r)'
  BY <1>2 DEF FreshInv, BatchSteps
<1>6. \A n \in Paths : ClaimInv(r, n)'
  BY <1>2, <1>3 DEF Inv, OwnInv, ClaimInv, UnderWay, AllKeep
<1>7. QED  BY <1>4, <1>5, <1>6 DEF OwnInv

\* What is read before a change is what the planner found.
LEMMA ReadPreviousKeeps ==
    ASSUME Inv, NEW r \in Runs, ReadPrevious(r)
    PROVE  OwnInv(r)'
<1>1. PICK m \in Pending(r) : prev' = [prev EXCEPT ![r][m] = disk[m]]
  BY DEF ReadPrevious, Pending
<1>2. /\ pc[r] = "apply" /\ m \in Paths /\ todo[r][m] # Keep
      /\ UNCHANGED <<disk, pc, want, todo, mem, put, before, wrote, owned, raced>>
  BY UnitFilesAssumption
     DEF ReadPrevious, Pending, PendingWrites, PendingRemoves, plan, history
<1>3. prev'[r][m] = disk[m] /\ \A n \in Paths \ {m} : prev'[r][n] = prev[r][n]
  BY <1>1, <1>2 DEF Inv, FilesTypeOK, MaybeFiles
<1>4. FreshInv(r)'
  BY <1>2 DEF FreshInv, BatchSteps
<1>5. \A n \in Paths : ClaimInv(r, n)'
  BY <1>2 DEF Inv, OwnInv, ClaimInv
<1>6. ASSUME NEW n \in Seen(r)' PROVE RunInv(r, n)'
  <2>1. n \in Paths /\ n \in Seen(r)
    BY <1>2, <1>6 DEF Seen
  <2>2. PlanInv(r, n)
    BY <1>2, <2>1 DEF Inv, OwnInv, RunInv
  <2>3. PlanInv(r, n)'
    <3>1. (Ours(n)' <=> Ours(n)) /\ (Settled(r, n)' <=> Settled(r, n))
      BY <1>2 DEF Ours, Settled
    <3>2. CASE n = m
      BY <1>2, <1>3, <2>2, <3>1, <3>2 DEF PlanInv, Nothing
    <3>3. CASE n # m
      BY <1>2, <1>3, <2>1, <2>2, <3>1, <3>3 DEF PlanInv, Nothing
    <3>4. QED  BY <3>2, <3>3
  <2>4. QED  BY <1>2, <2>3 DEF RunInv, PlanSteps
<1>7. QED  BY <1>4, <1>5, <1>6 DEF OwnInv

\* A write or a removal of the batch: afterwards the file is ours, and its old
\* content known.
LEMMA ApplyKeeps ==
    ASSUME Inv, NEW r \in Runs, WrittenGrows, NEW m \in Current(r), pc[r] = "apply",
           Change(r, m, todo[r][m]),
           mem' = [mem EXCEPT ![r][m] = todo[r][m]],
           put' = [put EXCEPT ![r][m] = todo[r][m]],
           todo' = [todo EXCEPT ![r][m] = Keep],
           todo[r][m] # NoFile => todo[r][m] \in wrote'[m],
           UNCHANGED <<pc, want, before, prev, owned>>
    PROVE  OwnInv(r)'
<1>1. m \in Paths /\ todo[r][m] \in Contents \cup {NoFile} /\ todo[r][m] # Keep
      /\ prev[r][m] # Keep
  BY UnitFilesAssumption DEF Current, Pending, PendingWrites, PendingRemoves
<1>2. raced'[r] = raced[r] /\ disk'[m] = todo[r][m]
      /\ \A n \in Paths \ {m} : disk'[n] = disk[n]
  BY <1>1, ChangeTouches DEF Inv
<1>3. /\ todo'[r][m] = Keep /\ mem'[r][m] = todo[r][m] /\ put'[r][m] = todo[r][m]
      /\ \A n \in Paths \ {m} : /\ todo'[r][n] = todo[r][n]
                                /\ mem'[r][n] = mem[r][n] /\ put'[r][n] = put[r][n]
  BY <1>1 DEF Inv, FilesTypeOK, Files, MaybeFiles
<1>4. FreshInv(r)'
  BY DEF FreshInv, BatchSteps
<1>5. ASSUME NEW n \in Paths PROVE ClaimInv(r, n)'
  <2>1. CASE n = m
    BY <1>1, <1>3, <2>1 DEF ClaimInv
  <2>2. CASE n # m
    BY <1>3, <1>5, <2>2 DEF Inv, OwnInv, ClaimInv
  <2>3. QED  BY <2>1, <2>2
<1>6. ASSUME NEW n \in Seen(r)' PROVE RunInv(r, n)'
  <2>1. n \in Paths /\ n \in Seen(r)
    BY <1>2, <1>6 DEF Seen
  <2>2. PlanInv(r, n)
    BY <2>1 DEF Inv, OwnInv, RunInv
  <2>3. CASE n = m
    <3>1. Ours(n)'
      BY <1>2, <2>3 DEF Ours
    <3>2. want[r] # Nothing => Settled(r, n)'
      BY <1>1, <1>2, <2>2, <2>3 DEF PlanInv, Settled
    <3>3. PlanInv(r, n)'
      BY <1>1, <1>3, <2>2, <2>3, <3>1, <3>2, UnitFilesAssumption DEF PlanInv, Nothing
    <3>4. QED  BY <3>3 DEF RunInv, PlanSteps
  <2>4. CASE n # m
    <3>1. disk'[n] = disk[n] /\ todo'[r][n] = todo[r][n]
      BY <1>2, <1>3, <2>1, <2>4
    <3>2. Ours(n) => Ours(n)'
      BY <2>1, <3>1 DEF Ours, WrittenGrows
    <3>3. PlanInv(r, n)'
      BY <2>2, <3>1, <3>2 DEF PlanInv, Settled, Nothing
    <3>4. QED  BY <3>3 DEF RunInv, PlanSteps
  <2>5. QED  BY <2>3, <2>4
<1>7. QED  BY <1>4, <1>5, <1>6 DEF OwnInv

LEMMA ApplyWriteKeeps ==
    ASSUME Inv, NEW r \in Runs, ApplyWrite(r), WrittenGrows
    PROVE  OwnInv(r)'
<1>1. PICK m \in Current(r) \cap PendingWrites(r) :
        /\ Change(r, m, todo[r][m])
        /\ mem' = [mem EXCEPT ![r][m] = todo[r][m]]
        /\ wrote' = [wrote EXCEPT ![m] = @ \cup {todo[r][m]}]
        /\ put' = [put EXCEPT ![r][m] = todo[r][m]]
        /\ todo' = [todo EXCEPT ![r][m] = Keep]
  BY DEF ApplyWrite
<1>2. todo[r][m] \in wrote'[m]
  BY <1>1 DEF PendingWrites, Inv, FilesTypeOK
<1>3. pc[r] = "apply" /\ UNCHANGED <<pc, want, before, prev, owned>>
  BY DEF ApplyWrite
<1>4. QED  BY <1>1, <1>2, <1>3, ApplyKeeps

LEMMA ApplyRemoveKeeps ==
    ASSUME Inv, NEW r \in Runs, ApplyRemove(r), WrittenGrows
    PROVE  OwnInv(r)'
<1>1. PICK m \in Current(r) \cap PendingRemoves(r) :
        /\ Change(r, m, NoFile)
        /\ mem' = [mem EXCEPT ![r][m] = NoFile]
        /\ put' = [put EXCEPT ![r][m] = NoFile]
        /\ todo' = [todo EXCEPT ![r][m] = Keep]
  BY DEF ApplyRemove
<1>2. todo[r][m] = NoFile
  BY <1>1 DEF PendingRemoves
<1>3. pc[r] = "apply" /\ UNCHANGED <<pc, want, before, prev, owned>>
  BY DEF ApplyRemove
<1>4. QED  BY <1>1, <1>2, <1>3, ApplyKeeps

\* A failure drops the plan and keeps what is known of the files that were changed;
\* the one that failed, and those after it, are as the planner found them.
LEMMA ApplyFailsKeeps ==
    ASSUME Inv, NEW r \in Runs, ApplyFails(r)
    PROVE  OwnInv(r)'
<1>1. /\ pc[r] = "apply" /\ pc'[r] = "rollback" /\ todo'[r] = AllKeep
      /\ prev'[r] = OnlyApplied(r)
      /\ UNCHANGED <<disk, wrote, before, raced>>
  BY DEF ApplyFails, Goto, DropPlan, history, Inv, FilesTypeOK
<1>2. ASSUME NEW n \in Seen(r)' PROVE RunInv(r, n)'
  <2>1. n \in Paths /\ PlanInv(r, n)
    BY <1>1, <1>2 DEF Inv, OwnInv, RunInv, Seen
  <2>2. n \in Pending(r) <=> todo[r][n] # Keep
    BY <2>1, UnitFilesAssumption
       DEF Pending, PendingWrites, PendingRemoves, Inv, FilesTypeOK, MaybeFiles
  <2>3. prev'[r][n] = IF todo[r][n] = Keep THEN prev[r][n] ELSE Keep
    BY <1>1, <2>1, <2>2 DEF OnlyApplied, Applied
  <2>4. BatchInv(r, n)'
    BY <1>1, <2>1, <2>3 DEF PlanInv, BatchInv, Ours
  <2>5. QED  BY <1>1, <2>4 DEF RunInv, PlanSteps
<1>3. FreshInv(r)' /\ \A n \in Paths : ClaimInv(r, n)'
  BY <1>1 DEF FreshInv, ClaimInv, BatchSteps, UnderWay, AllKeep
<1>4. QED  BY <1>2, <1>3 DEF OwnInv

\* A step of the rollback: the file is as it was, or counts as touched.
LEMMA RollbackKeeps ==
    ASSUME Inv, NEW r \in Runs, Rollback(r)
    PROVE  OwnInv(r)'
<1>1. PICK m \in Applied(r) :
        /\ prev' = [prev EXCEPT ![r][m] = Keep]
        /\ \/ Change(r, m, prev[r][m])
           \/ /\ raced' = [raced EXCEPT ![r] = @ \cup {m}]
              /\ UNCHANGED <<disk, needReload>>
  BY DEF Rollback
<1>2. m \in Paths /\ prev[r][m] # Keep
  BY DEF Applied
<1>3. FilesTypeOK /\ pc[r] = "rollback" /\ UNCHANGED <<pc, todo, want, before, wrote>>
  BY DEF Rollback, plan, Inv
<1>4. /\ raced[r] \subseteq raced'[r]
      /\ m \notin raced'[r] => disk'[m] = prev[r][m]
      /\ \A n \in Paths \ {m} : disk'[n] = disk[n]
  BY <1>1, <1>2, <1>3, ChangeTouches DEF FilesTypeOK
<1>5. prev'[r][m] = Keep /\ \A n \in Paths \ {m} : prev'[r][n] = prev[r][n]
  BY <1>1, <1>2, <1>3 DEF FilesTypeOK, MaybeFiles
<1>6. ASSUME NEW n \in Seen(r)' PROVE RunInv(r, n)'
  <2>1. n \in Paths /\ n \in Seen(r) /\ n \notin raced'[r]
    BY <1>3, <1>4, <1>6 DEF Seen
  <2>2. BatchInv(r, n)
    BY <1>3, <2>1 DEF Inv, OwnInv, RunInv
  <2>3. BatchInv(r, n)'
    BY <1>2, <1>3, <1>4, <1>5, <2>1, <2>2 DEF BatchInv, Ours
  <2>4. QED  BY <1>3, <2>3 DEF RunInv, PlanSteps
<1>7. FreshInv(r)' /\ \A n \in Paths : ClaimInv(r, n)'
  BY <1>3 DEF Inv, OwnInv, FreshInv, ClaimInv, BatchSteps, UnderWay, AllKeep
<1>8. QED  BY <1>6, <1>7 DEF OwnInv

\* The ends of a batch.
LEMMA EndsKeep ==
    ASSUME Inv, NEW r \in Runs,
           RolledBack(r) \/ NothingChanged(r) \/ SaveManifest(r) \/ Reload(r)
    PROVE  OwnInv(r)'
<1>1. CASE RolledBack(r)
  <2>1. Finish(r, "failed") /\ UNCHANGED disk /\ pc[r] = "rollback" /\ Applied(r) = {}
    BY <1>1 DEF RolledBack
  <2>2. \A n \in Paths : todo[r][n] = Keep
    BY <2>1 DEF Inv, OwnInv, FreshInv, AllKeep
  <2>3. \A n \in Paths : prev[r][n] = Keep
    BY <2>1, <2>2, UnitFilesAssumption DEF Applied, Pending, PendingWrites, PendingRemoves
  <2>4. \A n \in Seen(r) : disk[n] = before[r][n]
    BY <2>1, <2>3 DEF Inv, OwnInv, RunInv, BatchInv, Seen
  <2>5. QED  BY <2>1, <2>4, FinishKeeps
<1>2. ASSUME pc[r] = "apply", Pending(r) = {}, want[r] # Nothing
      PROVE  \A n \in Seen(r) : Settled(r, n)
  <2> SUFFICES ASSUME NEW n \in Seen(r) PROVE Settled(r, n)
    OBVIOUS
  <2>1. todo[r][n] = Keep
    BY <1>2 DEF Pending, PendingWrites, PendingRemoves, Seen, Inv, FilesTypeOK, MaybeFiles
  <2>2. QED  BY <1>2, <2>1 DEF Inv, OwnInv, RunInv, PlanInv
<1>3. CASE NothingChanged(r)
  <2>1. Finish(r, "done") /\ UNCHANGED disk /\ pc[r] = "apply" /\ Pending(r) = {}
    BY <1>3 DEF NothingChanged
  <2>2. QED  BY <1>2, <2>1, FinishKeeps
<1>4. CASE SaveManifest(r)
  <2>1. PICK step \in {"reload", "done"} : Finish(r, step)
    BY <1>4 DEF SaveManifest
  <2>2. UNCHANGED disk /\ pc[r] = "apply" /\ Pending(r) = {}
    BY <1>4 DEF SaveManifest
  <2>3. QED  BY <1>2, <2>1, <2>2, FinishKeeps
<1>5. CASE Reload(r)
  <2>1. Finish(r, "done") /\ UNCHANGED disk /\ pc[r] = "reload"
    BY <1>5 DEF Reload
  <2>2. want[r] # Nothing => \A n \in Seen(r) : Settled(r, n)
    BY <2>1 DEF Inv, OwnInv, RunInv
  <2>3. QED  BY <2>1, <2>2, FinishKeeps
<1>6. QED  BY <1>1, <1>3, <1>4, <1>5

-----------------------------------------------------------------------------
(* The invariant and the theorems.                                         *)

\* A save claims what the batch put at a path, and elsewhere what could be claimed
\* before.
LEMMA SavedClaims ==
    ASSUME Inv, NEW r \in Runs, SaveManifest(r)
    PROVE  /\ ManifestTruthful'
           /\ \A n \in Paths : owned'[n] \subseteq wrote[n]
<1> SUFFICES ASSUME NEW n \in Paths
             PROVE  /\ manifest'[n] # NoFile => manifest'[n] \in owned'[n]
                    /\ owned'[n] \subseteq wrote[n]
  BY DEF ManifestTruthful
<1>1. /\ pc[r] = "apply"
      /\ manifest'[n] \in {mem[r][n], NoFile}
      /\ owned'[n] = IF put[r][n] = Keep THEN owned[n]
                     ELSE ({put[r][n]} \ {NoFile})
                              \cup (IF Overlapped(r) THEN owned[n] ELSE {})
  BY DEF SaveManifest, NowOwned
<1>2. /\ put[r][n] = Keep /\ mem[r][n] # NoFile => mem[r][n] \in owned[n]
      /\ put[r][n] # Keep => mem[r][n] = put[r][n]
  BY <1>1 DEF Inv, OwnInv, ClaimInv, UnderWay
<1>3. owned[n] \subseteq wrote[n] /\ (mem[r][n] # NoFile => mem[r][n] \in wrote[n])
  BY DEF Inv, ClaimsWritten
<1>4. QED  BY <1>1, <1>2, <1>3

\* The manifest claims no more than it may.
LEMMA ManifestKeeps ==
    ASSUME Inv, [Next]_vars, WrittenGrows
    PROVE  ManifestTruthful' /\ \A n \in Paths : owned'[n] \subseteq wrote'[n]
<1>1. ASSUME NEW r \in Runs, SaveManifest(r)
      PROVE  ManifestTruthful' /\ \A n \in Paths : owned'[n] \subseteq wrote'[n]
  BY <1>1, SavedClaims DEF WrittenGrows
<1>2. ASSUME NEW n \in Paths, Foreign(n) PROVE owned' = owned /\ manifest' = manifest
  BY <1>2 DEF Foreign
<1>3. CASE UNCHANGED vars
  BY <1>3 DEF vars, history, Inv, ManifestTruthful, ClaimsWritten
<1>4. CASE owned' = owned /\ manifest' = manifest
  BY <1>4 DEF Inv, ManifestTruthful, ClaimsWritten, WrittenGrows
<1>5. QED  BY <1>1, <1>2, <1>3, <1>4, OnlySaves DEF Next

\* What is loaded has been written, and what a run writes too.
LEMMA CopiesWritten ==
    ASSUME Inv, [Next]_vars, WrittenGrows
    PROVE  \A r \in Runs : \A n \in Paths : mem'[r][n] # NoFile => mem'[r][n] \in wrote'[n]
<1> DEFINE Copy(r) == \A n \in Paths : mem'[r][n] # NoFile => mem'[r][n] \in wrote'[n]
<1>1. ASSUME NEW r \in Runs, mem'[r] = mem[r] \/ mem'[r] = Nothing PROVE Copy(r)
  BY <1>1 DEF Inv, ClaimsWritten, WrittenGrows, Nothing
<1>2. ASSUME NEW r \in Runs, Step(r) PROVE Copy(r)
  <2>1. CASE LoadManifest(r)
    <3>1. mem'[r] = manifest
      BY <2>1 DEF LoadManifest, Inv, FilesTypeOK
    <3>2. QED  BY <3>1 DEF Inv, ManifestTruthful, ClaimsWritten, WrittenGrows
  <2>2. CASE ApplyWrite(r)
    <3>1. PICK m \in PendingWrites(r) :
            /\ mem' = [mem EXCEPT ![r][m] = todo[r][m]]
            /\ wrote' = [wrote EXCEPT ![m] = @ \cup {todo[r][m]}]
      BY <2>2 DEF ApplyWrite
    <3>2. mem'[r][m] \in wrote'[m]
          /\ \A n \in Paths \ {m} : mem'[r][n] = mem[r][n]
      BY <3>1 DEF PendingWrites, Inv, FilesTypeOK, Files
    <3>3. QED  BY <3>2 DEF Inv, ClaimsWritten, WrittenGrows
  <2>3. CASE ApplyRemove(r)
    <3>1. PICK m \in PendingRemoves(r) : mem' = [mem EXCEPT ![r][m] = NoFile]
      BY <2>3 DEF ApplyRemove
    <3>2. \A n \in Paths : mem'[r][n] \in {mem[r][n], NoFile}
      BY <3>1 DEF PendingRemoves, Inv, FilesTypeOK, Files
    <3>3. QED  BY <3>2 DEF Inv, ClaimsWritten, WrittenGrows
  <2>4. CASE ~LoadManifest(r) /\ ~ApplyWrite(r) /\ ~ApplyRemove(r)
    <3>1. mem'[r] = mem[r] \/ mem'[r] = Nothing
      BY <1>2, <2>4
         DEF Step, ReadFile, PlanGenerate, PlanRemoveAll, ReadPrevious, ApplyFails, Rollback,
             RolledBack, NothingChanged, SaveManifest, Reload, Die, Finish, Quit, DropPlan,
             Inv, FilesTypeOK
    <3>2. QED  BY <1>1, <3>1
  <2>5. QED  BY <2>1, <2>2, <2>3, <2>4
<1>3. ASSUME NEW r \in Runs, Step(r), NEW q \in Runs, q # r PROVE Copy(q)
  BY <1>1, <1>3, OthersUndisturbed DEF Inv, Undisturbed
<1>4. ASSUME NEW n \in Paths, Foreign(n), NEW q \in Runs PROVE Copy(q)
  BY <1>1, <1>4, ForeignDisturbsNone DEF Inv, Undisturbed
<1>5. CASE UNCHANGED vars
  BY <1>1, <1>5 DEF vars, locals
<1>6. QED  BY <1>2, <1>3, <1>4, <1>5 DEF Next

\* Every step of a run keeps that run's part.
LEMMA OwnKeeps ==
    ASSUME Inv, NEW r \in Runs, Step(r), WrittenGrows
    PROVE  OwnInv(r)'
<1>1. CASE Die(r)
  BY <1>1, QuitKeeps DEF Die
<1>2. QED
  BY <1>1, LoadKeeps, ReadKeeps, PlanGenerateKeeps, PlanRemoveKeeps, ReadPreviousKeeps,
     ApplyWriteKeeps, ApplyRemoveKeeps, ApplyFailsKeeps, RollbackKeeps, EndsKeep DEF Step

\* Every step keeps the invariant.
LEMMA FilesInvNext ==
    ASSUME Inv, [Next]_vars
    PROVE  Inv'
<1>1. FilesTypeOK' /\ WrittenGrows
  BY TypeNext, Grows DEF Inv
<1>2. ManifestTruthful' /\ ClaimsWritten'
  BY <1>1, ManifestKeeps, CopiesWritten DEF ClaimsWritten
<1>3. CASE UNCHANGED vars
  <2>1. \A q \in Runs : Undisturbed(q) /\ ClaimsStay(q)
    BY <1>3 DEF vars, locals, plan, history, Undisturbed, ClaimsStay
  <2>2. QED  BY <1>1, <1>2, <2>1, UndisturbedKeeps DEF Inv
<1>4. ASSUME NEW r \in Runs, Step(r) PROVE \A q \in Runs : OwnInv(q)'
  <2> SUFFICES ASSUME NEW q \in Runs PROVE OwnInv(q)'
    OBVIOUS
  <2>1. CASE q = r
    BY <1>1, <1>4, <2>1, OwnKeeps
  <2>2. CASE q # r
    <3>1. Undisturbed(q) /\ ClaimsStay(q)
      BY <1>4, <2>2, OthersUndisturbed, OthersClaimsStay DEF Inv
    <3>2. QED  BY <1>1, <3>1, UndisturbedKeeps
  <2>3. QED  BY <2>1, <2>2
<1>5. ASSUME NEW n \in Paths, Foreign(n) PROVE \A q \in Runs : OwnInv(q)'
  <2>1. \A q \in Runs : Undisturbed(q) /\ ClaimsStay(q)
    BY <1>5, ForeignDisturbsNone DEF Inv, Foreign, ClaimsStay
  <2>2. QED  BY <1>1, <2>1, UndisturbedKeeps
<1>6. CASE Next
  <2>1. \A q \in Runs : OwnInv(q)'
    BY <1>4, <1>5, <1>6 DEF Next
  <2>2. QED  BY <1>1, <1>2, <2>1 DEF Inv
<1>7. QED  BY <1>3, <1>6

\* The invariant holds of every behaviour.
THEOREM FilesInvariant == Spec => []Inv
<1>1. Init => Inv
  <2> SUFFICES ASSUME Init PROVE Inv
    OBVIOUS
  <2>1. FilesTypeOK
    BY InitTypes
  <2>2. \A r \in Runs : OwnInv(r)
    BY DEF Init, OwnInv, FreshInv, ClaimInv, RunInv, PlanSteps, BatchSteps, UnderWay
  <2>3. ManifestTruthful /\ ClaimsWritten
    BY DEF Init, ManifestTruthful, ClaimsWritten, Nothing
  <2>4. QED  BY <2>1, <2>2, <2>3 DEF Inv
<1>2. QED  BY <1>1, FilesInvNext, PTL DEF Spec

\* The manifest claims at a path only what the last batches to change it that went
\* through put there, for any number of overlapping, failing and dying runs.
THEOREM ManifestIsTruthful == Spec => []ManifestTruthful
<1>1. Inv => ManifestTruthful
  BY DEF Inv
<1>2. QED  BY <1>1, FilesInvariant, PTL

\* A failed batch has left every file it alone looked at as it was.
THEOREM FailureLeavesNothing == Spec => []FailedBatchLeavesNothing
<1>1. Inv => FailedBatchLeavesNothing
  BY DEF Inv, OwnInv, FailedBatchLeavesNothing, RunInv
<1>2. QED  BY <1>1, FilesInvariant, PTL

\* A start that goes on to the session has the units it wants.
THEOREM StartHasItsUnits == Spec => []StartFindsItsUnits
<1>1. Inv => StartFindsItsUnits
  BY DEF Inv, OwnInv, StartFindsItsUnits, RunInv, Settled
<1>2. QED  BY <1>1, FilesInvariant, PTL

\* A run only ever changes what justifies the change.
LEMMA KeepsForeign ==
    ASSUME Inv, NEW r \in Runs, Step(r), NEW n \in Seen(r),
           disk'[n] # disk[n], disk[n] # NoFile
    PROVE  disk[n] \in wrote[n] \/ (n \in Dropins /\ disk'[n] \in wrote'[n])
<1> USE DEF Inv, OwnInv, Seen
<1>1. CASE ApplyWrite(r)
  <2>1. PICK m \in PendingWrites(r) :
          /\ Change(r, m, todo[r][m])
          /\ wrote' = [wrote EXCEPT ![m] = @ \cup {todo[r][m]}]
    BY <1>1 DEF ApplyWrite
  <2>2. m \in Paths /\ todo[r][m] \in Contents /\ pc[r] = "apply"
    BY <1>1 DEF PendingWrites, ApplyWrite
  <2>3. n = m /\ disk'[n] \in wrote'[n]
    BY <2>1, <2>2, ChangeTouches DEF FilesTypeOK
  <2>4. n \in Static => Ours(n)
    BY <2>2, <2>3 DEF RunInv, PlanInv
  <2>5. QED  BY <2>3, <2>4 DEF Ours, Paths
<1>2. CASE ApplyRemove(r)
  <2>1. PICK m \in PendingRemoves(r) : Change(r, m, NoFile)
    BY <1>2 DEF ApplyRemove
  <2>2. m \in Paths /\ todo[r][m] = NoFile /\ pc[r] = "apply"
    BY <1>2 DEF PendingRemoves, ApplyRemove
  <2>3. n = m
    BY <2>1, <2>2, ChangeTouches
  <2>4. QED  BY <2>2, <2>3 DEF RunInv, PlanInv, Ours
<1>3. CASE Rollback(r)
  <2>1. PICK m \in Applied(r) : Change(r, m, prev[r][m]) \/ UNCHANGED disk
    BY <1>3 DEF Rollback
  <2>2. m \in Paths /\ prev[r][m] # Keep /\ pc[r] = "rollback"
    BY <1>3 DEF Applied, Rollback
  <2>3. n = m
    BY <2>1, <2>2, ChangeTouches
  <2>4. QED  BY <2>2, <2>3 DEF RunInv, BatchInv, Ours
<1>4. CASE ~ApplyWrite(r) /\ ~ApplyRemove(r) /\ ~Rollback(r)
  <2>1. disk' = disk
    BY <1>4 DEF Step, LoadManifest, ReadFile, PlanGenerate, PlanRemoveAll, ReadPrevious,
                ApplyFails, RolledBack, NothingChanged, SaveManifest, Reload, Die
  <2>2. QED  BY <2>1
<1>5. QED  BY <1>1, <1>2, <1>3, <1>4

\* wsmr never removes somebody else's file, nor replaces a graph unit that
\* somebody else put there, unless it was changed behind the plan's back.
THEOREM ForeignKept == Spec => ForeignFilesKept
<1>1. Inv /\ [Next]_vars =>
        [\A r \in Runs : \A n \in Seen(r) :
            (disk'[n] # disk[n] /\ disk[n] # NoFile /\ Step(r))
                => \/ disk[n] \in wrote[n]
                   \/ n \in Dropins /\ disk'[n] \in wrote'[n]]_vars
  BY KeepsForeign
<1>2. QED  BY <1>1, FilesInvariant, PTL DEF Spec, ForeignFilesKept
=============================================================================
