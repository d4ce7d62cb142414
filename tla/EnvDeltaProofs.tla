--------------------------- MODULE EnvDeltaProofs ---------------------------
(***************************************************************************)
(* EnvDelta for every set of names and values, every choice of the lists   *)
(* and every pair of environments.  DeltaInv says, phase by phase, what    *)
(* the activation environment and the cleanup list are in terms of the two *)
(* snapshots; the two properties are then set algebra.                     *)
(***************************************************************************)
EXTENDS EnvDelta, TLAPS

AfterSet   == SetVars(pre, ChangesSet(pre, post))
AfterUnset == UnsetVars(AfterSet, ChangesUnset(pre, post))

DeltaInv ==
    /\ DeltaTypeOK
    /\ phase = "loaded" => sys = pre /\ listed = {}
    /\ phase = "recorded" => sys = pre
    /\ phase \in {"recorded", "set", "running"} => listed = ChangesCleanup(pre, post)
    /\ phase = "set" => sys = AfterSet
    /\ phase = "running" => sys = AfterUnset
    /\ phase = "restored" =>
          sys = SetVars(UnsetVars(AfterUnset,
                                  ToUnset(ChangesCleanup(pre, post), pre, AfterUnset)), pre)

\* The bus updates and the delta stay within the environments.
LEMMA EnvOperators ==
    ASSUME NEW e \in Env, NEW f \in Env, NEW names
    PROVE  /\ SetVars(e, f) \in Env
           /\ UnsetVars(e, names) \in Env
           /\ ChangesSet(e, f) \in Env
           /\ ChangesCleanup(e, f) \subseteq Names
BY PolicyAssumption
   DEF Env, SetVars, UnsetVars, ChangesSet, ChangesCleanup, ExportNames, Defined

LEMMA DeltaInit == Init => DeltaInv
BY DEF Init, DeltaInv, DeltaTypeOK

LEMMA DeltaNext == DeltaInv /\ [Next]_vars => DeltaInv'
<1> SUFFICES ASSUME DeltaInv, [Next]_vars PROVE DeltaInv'
    OBVIOUS
<1> USE DEF DeltaInv, DeltaTypeOK
<1>1. CASE RecordCleanup
    BY <1>1, EnvOperators DEF RecordCleanup, AfterSet, AfterUnset
<1>2. CASE ApplySet
    BY <1>2, EnvOperators DEF ApplySet, AfterSet, AfterUnset
<1>3. CASE ApplyUnset
    <2>1. sys' \in Env
        BY <1>3, EnvOperators DEF ApplyUnset, AfterSet
    <2> QED BY <1>3, <2>1 DEF ApplyUnset, AfterSet, AfterUnset
<1>4. CASE RestorePre
    <2>1. sys' \in Env
        BY <1>4, EnvOperators DEF RestorePre
    <2> QED BY <1>4, <2>1 DEF RestorePre, AfterSet, AfterUnset
<1>5. CASE UNCHANGED vars
    BY <1>5 DEF vars, AfterSet, AfterUnset
<1> QED BY <1>1, <1>2, <1>3, <1>4, <1>5 DEF Next, AtRest

\* The environment and the list are, in every phase, what the code computes.
THEOREM DeltaInvariant == Spec => []DeltaInv
BY DeltaInit, DeltaNext, PTL DEF Spec

\* Every variable keeps its type.
THEOREM DeltaTypeCorrect == Spec => []DeltaTypeOK
<1>1. DeltaInv => DeltaTypeOK
    BY DEF DeltaInv
<1> QED BY <1>1, DeltaInvariant, PTL

\* What prepare-env's set followed by its unset leave of one variable.
LEMMA UnsetIsEffective ==
    ASSUME pre \in Env, post \in Env, NEW n \in Names
    PROVE  AfterUnset[n] = Effective(n)
BY PolicyAssumption
   DEF AfterUnset, AfterSet, Effective, Env, SetVars, UnsetVars, ChangesSet, ChangesUnset,
       ExportNames, Defined, never_export, always_unset

\* prepare-env's set and unset give the loader's environment filtered by the
\* policy, whatever the variable lists are: compute_changes as the code has it.
THEOREM AppliedIsLoaders == Spec => []AppliedMatchesLoader
<1>1. DeltaInv => AppliedMatchesLoader
    BY UnsetIsEffective DEF DeltaInv, DeltaTypeOK, AppliedMatchesLoader
<1> QED BY <1>1, DeltaInvariant, PTL

\* What a restore leaves of one variable.
LEMMA RestoreIsPre ==
    ASSUME pre \in Env, post \in Env, NEW n \in Names,
           AfterUnset \in Env,
           AfterUnset[n] = Effective(n)
    PROVE  SetVars(UnsetVars(AfterUnset,
                        ToUnset(ChangesCleanup(pre, post), pre, AfterUnset)), pre)[n]
              = IF n \in NEVER_CLEANUP /\ pre[n] = Absent THEN Effective(n) ELSE pre[n]
<1> DEFINE gone == ToUnset(ChangesCleanup(pre, post), pre, AfterUnset)
<1>1. SetVars(UnsetVars(AfterUnset, gone), pre)[n]
        = IF pre[n] # Absent THEN pre[n] ELSE IF n \in gone THEN Absent ELSE AfterUnset[n]
    BY DEF SetVars, UnsetVars
<1>2. CASE pre[n] # Absent
    BY <1>1, <1>2
<1>3. CASE pre[n] = Absent /\ n \in NEVER_CLEANUP
    <2>1. n \notin gone
        BY <1>3 DEF ToUnset
    <2> QED BY <1>1, <1>3, <2>1
<1>4. CASE pre[n] = Absent /\ n \notin NEVER_CLEANUP
    <2>1. n \in gone \/ AfterUnset[n] = Absent
        <3>1. CASE Effective(n) = Absent
            BY <3>1
        <3>2. CASE Effective(n) # Absent
            <4>1. n \in ExportNames(pre, post)
                BY <1>4, <3>2
                   DEF Effective, ExportNames, Defined, never_export, always_unset
            <4>2. n \in ChangesCleanup(pre, post)
                BY <4>1, <1>4 DEF ChangesCleanup
            <4> QED BY <4>2, <3>2, <1>4 DEF ToUnset, Defined
        <3> QED BY <3>1, <3>2
    <2> QED BY <1>1, <1>4, <2>1
<1> QED BY <1>2, <1>3, <1>4

\* cleanup-env undoes exactly what prepare-env did, protected variables apart:
\* changes.cleanup with always_cleanup covers every export that env_pre does
\* not, for any content of the lists.
THEOREM DeltaUndone == Spec => []DeltaIsUndone
<1>1. DeltaInv => DeltaIsUndone
    <2> SUFFICES ASSUME DeltaInv, phase = "restored", NEW n \in Names
                 PROVE  sys[n] = IF n \in NEVER_CLEANUP /\ pre[n] = Absent
                                 THEN Effective(n) ELSE pre[n]
        BY DEF DeltaIsUndone
    <2>1. pre \in Env /\ post \in Env
        BY DEF DeltaInv, DeltaTypeOK
    <2>2. AfterUnset \in Env
        BY <2>1, EnvOperators DEF AfterUnset, AfterSet
    <2>3. AfterUnset[n] = Effective(n)
        BY <2>1, UnsetIsEffective
    <2> QED BY <2>1, <2>2, <2>3, RestoreIsPre DEF DeltaInv
<1> QED BY <1>1, DeltaInvariant, PTL
=============================================================================
