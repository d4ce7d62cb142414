------------------------------ MODULE EnvDelta ------------------------------
(***************************************************************************)
(* One undisturbed session, for every environment before it and every      *)
(* result of the shell loader: prepare-env applies compute_changes, and    *)
(* cleanup-env undoes it from the list and the snapshot.  SessionState     *)
(* puts the same steps under concurrency and failure; this module is about *)
(* the set algebra of src/env/delta.rs and of restore_and_clear_locked.    *)
(***************************************************************************)
EXTENDS EnvPolicy

VARIABLES
    pre,      \* env_pre, also the saved snapshot
    post,     \* env_post
    sys,      \* the activation environment
    listed,   \* the cleanup list
    phase     \* "loaded", "recorded", "set", "running", "restored"

vars == <<pre, post, sys, listed, phase>>

Init ==
    /\ pre \in Env
    /\ post \in Env
    /\ sys = pre
    /\ listed = {}
    /\ phase = "loaded"

\* state::append_cleanup(changes.cleanup)
RecordCleanup ==
    /\ phase = "loaded"
    /\ listed' = listed \cup ChangesCleanup(pre, post)
    /\ phase' = "recorded"
    /\ UNCHANGED <<pre, post, sys>>

\* bus.set_systemd_vars(&changes.set)
ApplySet ==
    /\ phase = "recorded"
    /\ sys' = SetVars(sys, ChangesSet(pre, post))
    /\ phase' = "set"
    /\ UNCHANGED <<pre, post, listed>>

\* bus.unset_systemd_vars(&changes.unset)
ApplyUnset ==
    /\ phase = "set"
    /\ sys' = UnsetVars(sys, ChangesUnset(pre, post))
    /\ phase' = "running"
    /\ UNCHANGED <<pre, post, listed>>

\* restore_and_clear_locked: unset, then set the snapshot.
RestorePre ==
    /\ phase = "running"
    /\ sys' = SetVars(UnsetVars(sys, ToUnset(listed, pre, sys)), pre)
    /\ listed' = {}
    /\ phase' = "restored"
    /\ UNCHANGED <<pre, post>>

\* The machine is at rest until the next session, which is another behaviour.
AtRest == phase = "restored" /\ UNCHANGED vars

Next == RecordCleanup \/ ApplySet \/ ApplyUnset \/ RestorePre \/ AtRest

Spec == Init /\ [][Next]_vars

-----------------------------------------------------------------------------

\* The variables hold values of their kind.
DeltaTypeOK ==
    /\ pre \in Env
    /\ post \in Env
    /\ sys \in Env
    /\ listed \subseteq Names
    /\ phase \in {"loaded", "recorded", "set", "running", "restored"}

\* What one variable must be while the session runs: absent if it is always
\* unset; as it was, or removed with the loader, if it is never exported; as the
\* loader left it otherwise.
Effective(n) ==
    IF n \in always_unset THEN Absent
    ELSE IF n \in never_export THEN IF post[n] = Absent THEN Absent ELSE pre[n]
    ELSE post[n]

\* prepare-env's set followed by its unset gives exactly the loader's
\* environment filtered by the policy: the two sets never work against each
\* other and nothing is forgotten.
AppliedMatchesLoader ==
    phase = "running" => \A n \in Names : sys[n] = Effective(n)

\* cleanup-env brings back exactly the snapshot, except that a protected
\* (NEVER_CLEANUP) variable the session introduced stays: changes.cleanup and
\* always_cleanup together cover all that prepare-env exports and all that it
\* unsets is in the snapshot.
DeltaIsUndone ==
    phase = "restored" =>
        \A n \in Names :
            sys[n] = IF n \in NEVER_CLEANUP /\ pre[n] = Absent THEN Effective(n) ELSE pre[n]
=============================================================================
