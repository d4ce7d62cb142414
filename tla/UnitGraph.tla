----------------------------- MODULE UnitGraph -----------------------------
(***************************************************************************)
(* The unit graph that wsmr generates (src/units/templates.rs, GRAPH), as  *)
(* the relations its [Unit] sections state.  A unit is a pair of its kind  *)
(* and its instance: the compositor's id, or Shared for a unit of which    *)
(* there is one.  bindpid@ has one instance per wsmr start, which is named *)
(* by the compositor it starts.  "apps" stands for the units that are      *)
(* PartOf=graphical-session.target: the app daemon, the slices, autostart. *)
(***************************************************************************)
EXTENDS Naturals

CONSTANTS Ids       \* compositor ids

Shared == "shared"

ASSUME GraphAssumption == Shared \notin Ids

PerId  == {"envelope", "pre", "session", "wm", "env", "bindpid"}
Common == {"gspre", "gs", "shutdown", "waitenv", "apps"}
Units  == (PerId \X Ids) \cup (Common \X {Shared})

Of(kinds, i) == {<<k, IF k \in PerId THEN i ELSE Shared>> : k \in kinds}

\* A function as an explicit table, which TLC computes once.
Tabulated(f) == CHOOSE g \in {f} : g = f

\* A relation given per kind, over the units.
Table(rows(_)) == Tabulated([u \in Units |-> Of(rows(u[1]), u[2])])

\* bindpid@, waitenv and what is behind "apps" have only the dependencies on
\* shutdown, see Conflicts, and on graphical-session.target, see PartOf.
RequiresRow(k) ==
    CASE k = "pre"     -> {"env"}
      [] k = "session" -> {"pre", "wm"}
      [] k = "wm"      -> {"pre"}
      [] OTHER         -> {}

BindsToRow(k) ==
    CASE k = "envelope" -> {"env", "wm"}
      [] k = "pre"      -> {"gspre"}
      [] k = "session"  -> {"gs"}
      [] k = "wm"       -> {"session"}
      [] k = "env"      -> {"pre"}
      [] OTHER          -> {}

WantsRow(k) ==
    CASE k = "session"       -> {"waitenv"}
      [] k \in {"wm", "env"} -> {"envelope"}
      [] OTHER               -> {}

PropagatesStopToRow(k) ==
    CASE k = "envelope" -> {"wm"}
      [] k = "pre"      -> {"gspre"}
      [] k = "session"  -> {"gs"}
      [] k = "wm"       -> {"session", "gs"}
      [] k = "env"      -> {"pre"}
      [] OTHER          -> {}

PartOfRow(k) == IF k = "apps" THEN {"gs"} ELSE {}

\* Mutant: the compositor is not ordered after the environment.
AfterRow_CompositorUnordered(k) ==
    CASE k = "session"  -> {"gspre"}
      [] k = "waitenv"  -> {"gspre"}
      [] k = "apps"     -> {"gs"}
      [] k = "shutdown" -> {"gspre", "gs", "pre", "session", "env", "waitenv", "bindpid", "apps"}
      [] k = "envelope" -> {"shutdown"}
      [] OTHER          -> {}

\* After=; what has Before=wayland-session-shutdown.target is listed there.
AfterRow(k) ==
    CASE k = "session"  -> {"gspre"}
      [] k = "wm"       -> {"pre", "gspre"}
      [] k = "waitenv"  -> {"gspre"}
      [] k = "apps"     -> {"gs"}
      [] k = "shutdown" -> {"gspre", "gs", "pre", "session", "wm", "env",
                            "waitenv", "bindpid", "apps"}
      [] k = "envelope" -> {"shutdown"}
      [] OTHER          -> {}

BeforeRow(k) ==
    CASE k = "envelope" -> {"env", "wm"}
      [] k = "pre"      -> {"gspre"}
      [] k = "session"  -> {"gs"}
      [] k = "wm"       -> {"session", "gs"}
      [] k = "env"      -> {"pre", "gspre"}
      [] k = "waitenv"  -> {"gs"}
      [] OTHER          -> {}

Requires         == Table(RequiresRow)
BindsTo          == Table(BindsToRow)
Wants            == Table(WantsRow)
PropagatesStopTo == Table(PropagatesStopToRow)
PartOf           == Table(PartOfRow)

Shutdown == <<"shutdown", Shared>>

\* Conflicts=wayland-session-shutdown.target, or the other way round: all of
\* them.
Conflicts == Tabulated([u \in Units |-> IF u = Shutdown THEN Units \ {u} ELSE {Shutdown}])

\* u is ordered before v.  shutdown is After= the units of every compositor.
IsBefore == Tabulated([u \in Units |->
    {v \in Units : \/ v \in Of(BeforeRow(u[1]), u[2])
                   \/ u \in Of(AfterRow(v[1]), v[2])
                   \/ v = Shutdown /\ u[1] \in AfterRow("shutdown")
                   \/ u = Shutdown /\ v[1] = "envelope"}])

IsAfter == Tabulated([u \in Units |-> {v \in Units : u \in IsBefore[v]}])

\* StopWhenUnneeded=yes; the graphical-session targets are systemd's own and
\* have it as well.
StopWhenUnneeded ==
    {u \in Units : u[1] \in {"envelope", "pre", "session", "shutdown", "env", "gspre", "gs"}}

\* Mutant: the pid's end is not noticed.
OnSuccess_NotBindpid == {u \in Units : u[1] \in {"wm", "env"}}

\* OnSuccess= and OnFailure=wayland-session-shutdown.target.
OnSuccess == {u \in Units : u[1] \in {"wm", "env", "bindpid"}}
OnFailure == OnSuccess \cup {<<"waitenv", Shared>>}

\* Mutant: OnSuccessJobMode and OnFailureJobMode as systemd has them.
OnJobMode_Replace == "replace"

OnJobMode == "replace-irreversibly"

-----------------------------------------------------------------------------
(* What systemd derives: the units a start pulls in, those a stop takes    *)
(* along, those that keep a unit needed.                                   *)

PullsIn == Tabulated([u \in Units |-> Requires[u] \cup BindsTo[u] \cup Wants[u]])

TakesAlong == Tabulated([u \in Units |->
    PropagatesStopTo[u] \cup {v \in Units : u \in Requires[v] \cup BindsTo[v] \cup PartOf[v]}])

FailsStart == Tabulated([u \in Units |-> {v \in Units : u \in Requires[v] \cup BindsTo[v]}])

\* The paths of a relation that includes every unit's own, at twice the length.
Twice(rel) == Tabulated([u \in Units |-> UNION {rel[v] : v \in rel[u]}])

\* The units reachable along a relation, the unit itself included: in 16 steps,
\* there being 11 kinds.
Reach(rel) == Twice(Twice(Twice(Twice([u \in Units |-> {u} \cup rel[u]]))))

StartWith == Reach(PullsIn)
StopWith  == Reach(TakesAlong)
FailsWith == Reach(FailsStart)

\* Units that bind to u, or that u propagates its stop to: these are stopped
\* when u stops by itself.
StopsOnStop == Tabulated([u \in Units |-> {v \in Units : u \in BindsTo[v] \/ v \in PropagatesStopTo[u]}])

KeepsNeeded == Tabulated(
    [u \in Units |-> {v \in Units : u \in Requires[v] \cup BindsTo[v] \cup Wants[v]}])
=============================================================================
