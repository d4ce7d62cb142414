--------------------------- MODULE SessionLedger ---------------------------
(***************************************************************************)
(* What the session state of src/session/state.rs promises, with no files, *)
(* processes or locks: a ledger of the variables one session at a time has *)
(* put into the activation environment.  A ledger is opened empty, only    *)
(* grows while it is open, names a variable before wsmr lends it to the    *)
(* environment, and is closed only when the environment is again what it   *)
(* was before the session.  SessionRefinement maps SessionState to it.     *)
(***************************************************************************)
CONSTANTS
    Names,          \* environment variables
    Env,            \* environments: functions from Names
    Absent,         \* the value of a variable that is not set
    Gens,           \* sessions
    NoGen,          \* no ledger is open
    NEVER_CLEANUP,  \* variables that are left as they are
    Scrubbed        \* variables that are always put back

VARIABLES
    env,      \* the activation environment
    before,   \* the one from before the session
    gen,      \* the session whose ledger is open, or NoGen
    listed,   \* the names in the ledger
    lent,     \* the names wsmr has exported for it
    loose,    \* the names that somebody else has published, and no one listed
    sound     \* before is known

lvars == <<env, before, gen, listed, lent, loose, sound>>

\* The names whose earlier state is owed when the ledger is closed.
Due == {n \in Names : \/ before[n] # Absent
                      \/ n \notin NEVER_CLEANUP /\ (n \in Scrubbed \/ n \notin loose)}

Init ==
    /\ env \in Env
    /\ before = env
    /\ gen = NoGen
    /\ listed = {}
    /\ lent = {}
    /\ loose = {}
    /\ sound = TRUE

\* With no ledger open, the environment is taken down as the one to return to.
Note ==
    /\ gen = NoGen
    /\ before' = env
    /\ sound' \in BOOLEAN
    /\ UNCHANGED <<env, gen, listed, lent, loose>>

Open(g) ==
    /\ gen = NoGen
    /\ gen' = g
    /\ lent' = {}
    /\ loose' = {}
    /\ UNCHANGED <<env, before, listed, sound>>

Enter(names) ==
    /\ gen # NoGen
    /\ listed' = listed \cup names
    /\ loose' = loose \ names
    /\ UNCHANGED <<env, before, gen, lent, sound>>

Lend(names) ==
    /\ gen # NoGen
    /\ names \subseteq listed \cup NEVER_CLEANUP
    /\ lent' = lent \cup names
    /\ env' \in Env
    /\ \A n \in Names \ names : env'[n] = env[n]
    /\ UNCHANGED <<before, gen, listed, loose, sound>>

Publish(names) ==
    /\ env' \in Env
    /\ \A n \in Names \ names : env'[n] = env[n]
    /\ loose' = loose \cup (names \ listed)
    /\ UNCHANGED <<before, gen, listed, lent, sound>>

\* The environment is changed without being added to: a session's variable is
\* unset, or a variable returns to what the record of the environment says.
Retract ==
    /\ env' \in Env
    /\ \A n \in Names : env'[n] \in {env[n], Absent}
    /\ UNCHANGED <<before, gen, listed, lent, loose, sound>>

Return ==
    /\ env' \in Env
    /\ sound => \A n \in Names : env'[n] \in {env[n], before[n]}
    /\ UNCHANGED <<before, gen, listed, lent, loose, sound>>

Close ==
    /\ gen # NoGen
    /\ sound => \A n \in Due : env[n] = before[n]
    /\ gen' = NoGen
    /\ listed' = {}
    /\ UNCHANGED <<env, before, lent, loose, sound>>

\* The record of the environment is lost.
Lose ==
    /\ sound' = FALSE
    /\ UNCHANGED <<env, before, gen, listed, lent, loose>>

Next ==
    \/ Note
    \/ \E g \in Gens : Open(g)
    \/ \E names \in SUBSET Names : Enter(names) \/ Lend(names) \/ Publish(names)
    \/ Retract
    \/ Return
    \/ Close
    \/ Lose

Spec == Init /\ [][Next]_lvars
=============================================================================
