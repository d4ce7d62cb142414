------------------------------ MODULE EnvPolicy ------------------------------
(***************************************************************************)
(* The pure part of wsmr's environment handling: the variable classes of   *)
(* src/varnames.rs, the delta of src/env/delta.rs, the set of names that   *)
(* src/session/state.rs unsets, and the effect of the two bus updates of   *)
(* src/sysd/dbus.rs on one activation environment.                         *)
(*                                                                         *)
(* An environment is a total function on Names; Absent stands for "no such *)
(* variable".  Names are the names filter::keep_name accepts: the code     *)
(* never sees any other name.                                              *)
(***************************************************************************)

CONSTANTS
    Names,               \* the variable names in play
    Values,              \* the values a variable can have
    Absent,              \* "not set"
    Empty,               \* the empty string, a value like any other
    SESSION_SPECIFIC,    \* the lists of src/varnames.rs
    ALWAYS_EXPORT,
    NEVER_EXPORT_BASE,
    ALWAYS_UNSET_BASE,
    ALWAYS_CLEANUP_BASE,
    NEVER_CLEANUP

ASSUME PolicyAssumption ==
    /\ Absent \notin Values
    /\ Empty \in Values
    /\ SESSION_SPECIFIC \subseteq Names
    /\ ALWAYS_EXPORT \subseteq Names
    /\ NEVER_EXPORT_BASE \subseteq Names
    /\ ALWAYS_UNSET_BASE \subseteq Names
    /\ ALWAYS_CLEANUP_BASE \subseteq Names
    /\ NEVER_CLEANUP \subseteq Names

-----------------------------------------------------------------------------

never_export   == NEVER_EXPORT_BASE \cup SESSION_SPECIFIC
always_unset   == ALWAYS_UNSET_BASE \cup SESSION_SPECIFIC
always_cleanup == ALWAYS_CLEANUP_BASE \cup SESSION_SPECIFIC

Env == [Names -> Values \cup {Absent}]

EmptyEnv == [n \in Names |-> Absent]

\* The variables an environment holds: the keys of the code's map.
Defined(e) == {n \in Names : e[n] # Absent}

-----------------------------------------------------------------------------
(* compute_changes: its three results, one operator each.                  *)

\* New or changed in post, plus the forced exports, minus the exclusions.
ExportNames(pre, post) ==
    LET differing == {n \in Defined(post) : pre[n] # post[n]}
        forced    == {n \in ALWAYS_EXPORT : n \in Defined(post)}
    IN  (differing \cup forced) \ (never_export \cup always_unset)

\* EnvChanges.set, as the partial environment that is exported.
ChangesSet(pre, post) ==
    [n \in Names |-> IF n \in ExportNames(pre, post) THEN post[n] ELSE Absent]

\* EnvChanges.unset.
ChangesUnset(pre, post) ==
    (Defined(pre) \ Defined(post)) \cup (always_unset \cap Defined(pre))

\* EnvChanges.cleanup.
ChangesCleanup(pre, post) == ExportNames(pre, post) \ NEVER_CLEANUP

-----------------------------------------------------------------------------
(* What the bus calls do to an activation environment.                     *)

\* SetEnvironment, and UpdateActivationEnvironment with the variables' values.
SetVars(e, vars) == [n \in Names |-> IF vars[n] # Absent THEN vars[n] ELSE e[n]]

\* Mutant: the names leave the domain instead of becoming Absent.
UnsetVars_Shrinks(e, names) == [n \in Names \ names |-> e[n]]

\* UnsetEnvironment.
UnsetVars(e, names) == [n \in Names |-> IF n \in names THEN Absent ELSE e[n]]

\* UpdateActivationEnvironment with empty strings: the D-Bus daemon has no
\* call that removes a variable.
BlankVars(e, names) == [n \in Names |-> IF n \in names THEN Empty ELSE e[n]]

\* Mutant: the cleanup list is not consulted.
ToUnset_NoListed(listed, pre, sys) ==
    {n \in always_cleanup \ NEVER_CLEANUP : n \in Defined(sys) /\ n \notin Defined(pre)}

\* The names that restore_and_clear_locked unsets.
ToUnset(listed, pre, sys) ==
    {n \in (listed \cup always_cleanup) \ NEVER_CLEANUP :
        n \in Defined(sys) /\ n \notin Defined(pre)}
=============================================================================
