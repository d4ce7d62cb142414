--------------------------- MODULE MCSessionState ---------------------------
(***************************************************************************)
(* Small instances of SessionState.  One name stands for each class of     *)
(* variable the code tells apart: PATH is force-exported and always        *)
(* scrubbed, WAYLAND_DISPLAY always unset and always scrubbed,             *)
(* SSH_AUTH_SOCK protected from cleanup, and FOO is in no list.            *)
(***************************************************************************)
EXTENDS SessionRefinement, TLC

\* An environment from the variables it holds.
E(some) == [n \in Names |-> IF n \in DOMAIN some THEN some[n] ELSE Absent]

\* A login shell's PATH, and a FOO of the user's own.
MCInitialEnvs == { E("PATH" :> "a"), E("PATH" :> "a" @@ "FOO" :> "a") }

\* The shell sets things, or drops things.
MCLoaderEnvs ==
    { E("PATH" :> "b" @@ "FOO" :> "b" @@ "SSH_AUTH_SOCK" :> "b"),
      E("SSH_AUTH_SOCK" :> "b") }

OneInitialEnv == { E("PATH" :> "a") }

OneLoaderEnv == { E("PATH" :> "b" @@ "FOO" :> "b") }

\* The compositor's socket, and something else of its own.
MCCompositorEnvs == { E("WAYLAND_DISPLAY" :> "b" @@ "FOO" :> "b") }

\* finalize with an extra variable.
MCFinalizeEnvs == { E("WAYLAND_DISPLAY" :> "b" @@ "FOO" :> "a") }

\* The smallest instance in which two processes export different names.
NoInitialEnv == { EmptyEnv }
FooLoaderEnv == { E("FOO" :> "b") }
SocketFinalizeEnvs == { E("WAYLAND_DISPLAY" :> "b") }

GenSymmetry == Permutations(Gens)
=============================================================================
