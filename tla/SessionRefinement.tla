------------------------- MODULE SessionRefinement -------------------------
(***************************************************************************)
(* The session state keeps the promises of SessionLedger.  A ledger is     *)
(* open while the cleanup list exists: it is written last when a           *)
(* generation begins and unlinked first when it ends, so that every crash  *)
(* in between leaves no ledger, and not a wrong one.                       *)
(***************************************************************************)
EXTENDS SessionState

Ledger == INSTANCE SessionLedger WITH
    Scrubbed <- always_cleanup,
    env    <- sysEnv,
    before <- base,
    gen    <- IF cleanFile = NoFile THEN NoGen ELSE genFile,
    listed <- Listed,
    lent   <- exported,
    loose  <- unrecorded,
    sound  <- ~tainted

\* begin_generation, append_cleanup and restore_and_clear_locked, interleaved
\* with the exports and with every death, act as one ledger does: an entry once
\* made is kept until the ledger is closed, nothing is exported that has no
\* entry, and the list is unlinked only when the environment is back.
ImplementsLedger == Ledger!Spec
=============================================================================
