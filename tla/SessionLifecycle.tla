-------------------------- MODULE SessionLifecycle --------------------------
(***************************************************************************)
(* From wsmr start to the end of the session, over the unit graph: the     *)
(* anchor process (src/session/start.rs, libexec/signal-handler.sh), the   *)
(* services' processes, wsmr stop (src/session/stop.rs), and in between    *)
(* systemd's job engine.  The engine is systemd's and not wsmr's: it is    *)
(* modelled as far as the templates rely on it, as systemd.unit(5) and     *)
(* org.freedesktop.systemd1(5) describe it.                                *)
(*                                                                         *)
(* A job is "none", "start" while it waits, "starting" once the unit's     *)
(* process runs, or "stop", and may be irreversible.  A target is active   *)
(* or inactive at once.  prepare-env runs while an env unit is activating, *)
(* cleanup-env while it is deactivating.                                   *)
(***************************************************************************)
EXTENDS UnitGraph

CONSTANTS
    Orderly    \* a wsmr start begins when no other start or stop is under way

ASSUME LifecycleAssumption == Orderly \in BOOLEAN

VARIABLES
    st,       \* st[u]: ActiveState, "failed" counting as "inactive"
    job,      \* job[u]: its job
    anchor,   \* anchor[i]: where the wsmr start of i is, see Anchors
    stop      \* the wsmr stop that is running: <<>>, <<i>> while it waits, or
              \* <<i, "ok">>

vars == <<st, job, anchor, stop>>

Anchors == {"none", "checked", "bound", "up", "stopping"}
States  == {"inactive", "activating", "active", "deactivating"}

NoJob == [type |-> "none", hard |-> FALSE]
Job(type, mode) == [type |-> type, hard |-> mode = "replace-irreversibly"]
Starting(j) == j.type \in {"start", "starting"}

Env(i)      == <<"env", i>>
Wm(i)       == <<"wm", i>>
Envelope(i) == <<"envelope", i>>
BindPid(i)  == <<"bindpid", i>>
Services == {u \in Units : u[1] \in {"env", "wm", "waitenv", "bindpid"}}

Up(u) == st[u] \in {"active", "activating"}

-----------------------------------------------------------------------------
(* Transactions: what a request adds to a set of jobs j.                   *)

\* A request that would reverse a job is refused if the job is irreversible,
\* and in mode "fail" also if it is not.
Refused(j, starts, stops, mode) ==
    LET firm(u) == j[u].hard \/ mode = "fail"
    IN \/ \E u \in starts : j[u].type = "stop" /\ firm(u)
       \/ \E u \in stops : Starting(j[u]) /\ firm(u)

\* Jobs that change nothing are dropped; a job of the same type stays, and is
\* irreversible from now on if the request is.
Firmer(one, mode) == [one EXCEPT !.hard = @ \/ Job(one.type, mode).hard]

Installed(j, starts, stops, mode) ==
    Tabulated([u \in Units |->
        IF u \in starts /\ (st[u] # "active" \/ j[u].type = "stop")
        THEN IF Starting(j[u]) THEN Firmer(j[u], mode) ELSE Job("start", mode)
        ELSE IF u \in stops /\ (st[u] # "inactive" \/ Starting(j[u]))
        THEN IF j[u].type = "stop" THEN Firmer(j[u], mode) ELSE Job("stop", mode)
        ELSE j[u]])

\* What the start of u stops, by conflict.
StartStops == Tabulated(
    [u \in Units |-> UNION {UNION {StopWith[c] : c \in Conflicts[v]} : v \in StartWith[u]}])

\* The jobs u's job waits for.  A start waits for what comes before the unit
\* and for a stop on either side of it; stops run in the reverse order.
WaitsFor(j, u) ==
    IF Starting(j[u])
    THEN {v \in IsAfter[u] : j[v].type # "none"} \cup {v \in IsBefore[u] : j[v].type = "stop"}
    ELSE {v \in IsBefore[u] : j[v].type = "stop"}

\* Jobs that would wait for each other are refused.  The order of the graph has
\* one cycle, through shutdown: shutdown is before an envelope, that is before
\* its services, and they are before shutdown.
Cyclic(j) ==
    \E u \in IsBefore[Shutdown] : \E v \in IsBefore[u] \cap IsAfter[Shutdown] :
        {j[Shutdown].type, j[u].type, j[v].type} = {"stop"}

Started(j, u, mode) == Installed(j, StartWith[u], StartStops[u], mode)
Stopped(j, us) == Installed(j, {}, UNION {StopWith[u] : u \in us}, "replace")

StartRefused(j, u, mode) ==
    Refused(j, StartWith[u], StartStops[u], mode) \/ Cyclic(Started(j, u, mode))
StopRefused(j, u, mode) ==
    Refused(j, {}, StopWith[u], mode) \/ Cyclic(Stopped(j, {u}))

\* OnSuccess= or OnFailure= of one of us.
Triggered(j, us, trigger) ==
    IF us \cap trigger = {} \/ StartRefused(j, Shutdown, OnJobMode) THEN j
    ELSE Started(j, Shutdown, OnJobMode)

Done(j, u) == [j EXCEPT ![u] = NoJob]

\* The start of u failed: so do the starts that wait for it.
StartFailed(j, u) ==
    LET lost == {v \in FailsWith[u] : Starting(j[v])}
    IN Triggered(Tabulated([v \in Units |-> IF v \in lost THEN NoJob ELSE j[v]]), lost, OnFailure)

\* u stops without having been told to: what binds to it is stopped.
Unexpected(j, u) == Stopped(j, {v \in StopsOnStop[u] : Up(v)})

-----------------------------------------------------------------------------
(* The job engine.                                                         *)

Run(u) == job[u].type # "none" /\ WaitsFor(job, u) = {}

Set(u, state) == st' = [st EXCEPT ![u] = state]

RunTarget(u) ==
    /\ u \notin Services
    /\ Run(u)
    /\ Set(u, IF Starting(job[u]) THEN "active" ELSE "inactive")
    /\ job' = Done(job, u)
    /\ UNCHANGED <<anchor, stop>>

\* ensure_bindpid: a session that no pid is bound to is bound to the leader of
\* the login session, which ends after the anchor.  An error on the way (no
\* session id, a bus that does not answer) is only logged.
ensure_bindpid(j, i) ==
    IF (\E k \in Ids : Up(BindPid(k))) \/ StartRefused(j, BindPid(i), "replace") THEN {j}
    ELSE {j, Started(j, BindPid(i), "replace")}

\* Type=exec is up with its process, the others when their process says so.
\* prepare-env, which env's process is, begins with ensure_bindpid.
RunService(u) ==
    /\ u \in Services
    /\ Run(u)
    /\ Starting(job[u])
    /\ \/ /\ st[u] = "inactive"
          /\ u[1] = "bindpid"
          /\ Set(u, "active")
          /\ job' = Done(job, u)
       \/ /\ st[u] = "inactive"
          /\ u[1] # "bindpid"
          /\ Set(u, "activating")
          /\ LET j == [job EXCEPT ![u].type = "starting"]
             IN job' \in (IF u[1] = "env" THEN ensure_bindpid(j, u[2]) ELSE {j})
       \/ /\ st[u] = "active"
          /\ job' = Done(job, u)
          /\ UNCHANGED st
    /\ UNCHANGED <<anchor, stop>>

\* The processes are told to go, if there are any.
RunStop(u) ==
    /\ u \in Services
    /\ Run(u)
    /\ job[u].type = "stop"
    /\ \/ Up(u) /\ Set(u, "deactivating") /\ UNCHANGED job
       \/ st[u] = "inactive" /\ job' = Done(job, u) /\ UNCHANGED st
    /\ UNCHANGED <<anchor, stop>>

\* They are gone: by themselves, or killed when TimeoutStopSec is over.  For an
\* env unit this is the end of cleanup-env, well or not.
ServiceGone(u) ==
    /\ u \in Services
    /\ st[u] = "deactivating"
    /\ Set(u, "inactive")
    /\ job' = CASE job[u].type = "starting" -> StartFailed(job, u)
              [] job[u].type = "stop"     -> Triggered(Done(job, u), {u}, OnSuccess)
              [] OTHER                    -> Triggered(job, {u}, OnSuccess)
    /\ UNCHANGED <<anchor, stop>>

\* StopWhenUnneeded.
Unneeded(u) ==
    /\ u \in StopWhenUnneeded
    /\ st[u] = "active"
    /\ job[u] = NoJob
    /\ \A v \in KeepsNeeded[u] : st[v] = "inactive" /\ job[v] = NoJob
    /\ ~StopRefused(job, u, "fail")
    /\ job' = Stopped(job, {u})
    /\ UNCHANGED <<st, anchor, stop>>

-----------------------------------------------------------------------------
(* The processes of the services.                                          *)

\* prepare-env returns.
PrepareEnds(i) ==
    /\ st[Env(i)] = "activating"
    /\ job[Env(i)].type = "starting"
    /\ Set(Env(i), "active")
    /\ job' = Done(job, Env(i))
    /\ UNCHANGED <<anchor, stop>>

\* The compositor is ready: finalize, or the watcher's READY=1.
Ready(i) ==
    /\ st[Wm(i)] = "activating"
    /\ job[Wm(i)].type = "starting"
    /\ Set(Wm(i), "active")
    /\ job' = Done(job, Wm(i))
    /\ UNCHANGED <<anchor, stop>>

\* The main process of u ends, or its start times out: prepare-env fails, the
\* compositor exits, crashes or never becomes ready.
ServiceEnds(u) ==
    /\ u[1] \in {"env", "wm"}
    /\ st[u] = "activating" \/ (u[1] = "wm" /\ st[u] = "active")
    /\ Set(u, "deactivating")
    /\ job' = IF job[u].type = "stop" THEN job ELSE Unexpected(job, u)
    /\ UNCHANGED <<anchor, stop>>

\* waitenv sees the variables, or does not in time.
WaitenvEnds(ok) ==
    LET u == <<"waitenv", Shared>>
    IN /\ st[u] = "activating"
       /\ Set(u, "inactive")
       /\ job' = IF ok \/ job[u].type = "stop" THEN Done(job, u)
                 ELSE Triggered(Done(job, u), {u}, OnFailure)
       /\ UNCHANGED <<anchor, stop>>

\* aux waitpid: the pid is gone.
WaitpidEnds(i) ==
    /\ st[BindPid(i)] = "active"
    /\ anchor[i] = "none"
    /\ Set(BindPid(i), "inactive")
    /\ job' = Triggered(Done(job, BindPid(i)), {BindPid(i)}, OnSuccess)
    /\ UNCHANGED <<anchor, stop>>

\* An application is started in the session, as a unit of its own.
AppStarts ==
    /\ st[<<"gs", Shared>>] = "active"
    /\ st[<<"apps", Shared>>] = "inactive"
    /\ ~StartRefused(job, <<"apps", Shared>>, "replace")
    /\ job' = Started(job, <<"apps", Shared>>, "replace")
    /\ UNCHANGED <<st, anchor, stop>>

-----------------------------------------------------------------------------
(* wsmr start, which becomes the anchor.                                   *)

Moves(i, to) == anchor' = [anchor EXCEPT ![i] = to]

is_active == \E u \in Units : u[1] \in {"gspre", "pre", "gs", "session", "wm"} /\ Up(u)

UnderWay(i) == anchor[i] \in {"checked", "bound"} \/ Starting(job[<<"pre", i>>])

\* refuse_if_active.  The pid is a new one, and so is its bindpid unit.
StartChecks(i) ==
    /\ anchor[i] = "none"
    /\ st[BindPid(i)] = "inactive"
    /\ Orderly => stop = <<>> /\ \A k \in Ids : ~UnderWay(k)
    /\ ~is_active
    /\ Moves(i, "checked")
    /\ UNCHANGED <<st, job, stop>>

\* systemctl --user start wayland-session-bindpid@<pid>; an error ends start.
StartBinds(i) ==
    /\ anchor[i] = "checked"
    /\ job[BindPid(i)] = NoJob
    /\ st[BindPid(i)] = "inactive"
    /\ IF StartRefused(job, BindPid(i), "replace")
       THEN Moves(i, "none") /\ UNCHANGED job
       ELSE job' = Started(job, BindPid(i), "replace") /\ UNCHANGED anchor
    /\ UNCHANGED <<st, stop>>

Bound(i) ==
    /\ anchor[i] = "checked"
    /\ st[BindPid(i)] = "active"
    /\ Moves(i, "bound")
    /\ UNCHANGED <<st, job, stop>>

\* signal-handler.sh: systemctl --user start --wait <envelope>.
AnchorStarts(i) ==
    /\ anchor[i] = "bound"
    /\ IF StartRefused(job, Envelope(i), "replace")
       THEN Moves(i, "none") /\ UNCHANGED job
       ELSE Moves(i, "up") /\ job' = Started(job, Envelope(i), "replace")
    /\ UNCHANGED <<st, stop>>

\* TERM, HUP or INT: systemctl --user stop <envelope>, once.
Signal(i) ==
    /\ anchor[i] = "up"
    /\ Moves(i, "stopping")
    /\ job' = IF StopRefused(job, Envelope(i), "replace") THEN job
              ELSE Stopped(job, {Envelope(i)})
    /\ UNCHANGED <<st, stop>>

\* finish: the envelope is down again.
AnchorEnds(i) ==
    /\ anchor[i] \in {"up", "stopping"}
    /\ st[Envelope(i)] = "inactive"
    /\ job[Envelope(i)] = NoJob
    /\ Moves(i, "none")
    /\ UNCHANGED <<st, job, stop>>

\* SIGKILL, a closed login session, or an error of start.
AnchorDies(i) ==
    /\ anchor[i] # "none"
    /\ Moves(i, "none")
    /\ UNCHANGED <<st, job, stop>>

-----------------------------------------------------------------------------
(* wsmr stop.                                                              *)

\* stop_wm: the compositor's unit, in mode "fail", which a start that is not
\* finished turns into an error.
stop_wm(i) ==
    /\ stop = <<>>
    /\ Up(Wm(i))
    /\ ~StopRefused(job, Wm(i), "fail")
    /\ job' = Stopped(job, {Wm(i)})
    /\ stop' = <<i>>
    /\ UNCHANGED <<st, anchor>>

\* wait_for_job: the job is gone; or it is not, and the time is up.
JobGone(i) ==
    /\ stop = <<i>>
    /\ job[Wm(i)].type # "stop"
    /\ stop' = <<i, "ok">>
    /\ UNCHANGED <<st, job, anchor>>

\* Mutants: a bound that returns as if the job were gone, or with no result the
\* caller knows.
TimedOut_Ok(i) ==
    /\ stop = <<i>>
    /\ job[Wm(i)].type = "stop"
    /\ stop' = <<i, "ok">>
    /\ UNCHANGED <<st, job, anchor>>

TimedOut_Reported(i) ==
    /\ stop = <<i>>
    /\ job[Wm(i)].type = "stop"
    /\ stop' = <<i, "late">>
    /\ UNCHANGED <<st, job, anchor>>

TimedOut(i) ==
    /\ stop = <<i>>
    /\ job[Wm(i)].type = "stop"
    /\ stop' = <<>>
    /\ UNCHANGED <<st, job, anchor>>

StopReturns(i) ==
    /\ stop = <<i, "ok">>
    /\ stop' = <<>>
    /\ UNCHANGED <<st, job, anchor>>

-----------------------------------------------------------------------------

Init ==
    /\ st = [u \in Units |-> "inactive"]
    /\ job = [u \in Units |-> NoJob]
    /\ anchor = [i \in Ids |-> "none"]
    /\ stop = <<>>

Manager(u) == RunTarget(u) \/ RunService(u) \/ RunStop(u) \/ ServiceGone(u) \/ Unneeded(u)

Ends ==
    \/ \E i \in Ids : PrepareEnds(i) \/ Ready(i) \/ WaitpidEnds(i)
    \/ \E u \in Units : ServiceEnds(u)
    \/ \E ok \in BOOLEAN : WaitenvEnds(ok)

Anchor(i) ==
    \/ StartChecks(i)
    \/ StartBinds(i)
    \/ Bound(i)
    \/ AnchorStarts(i)
    \/ Signal(i)
    \/ AnchorEnds(i)
    \/ AnchorDies(i)

Stopper(i) == stop_wm(i) \/ JobGone(i) \/ TimedOut(i) \/ StopReturns(i)

Next ==
    \/ \E u \in Units : Manager(u)
    \/ Ends
    \/ AppStarts
    \/ \E i \in Ids : Anchor(i) \/ Stopper(i)

Spec == Init /\ [][Next]_vars

\* systemd runs its jobs and kills what does not go; a start that is not
\* answered times out; a pid that is gone is noticed.
FairSpec ==
    /\ Spec
    /\ \A u \in Units : WF_vars(Manager(u))
    /\ \A i \in Ids : WF_vars(PrepareEnds(i) \/ ServiceEnds(Env(i)))
    /\ \A i \in Ids : WF_vars(WaitpidEnds(i)) /\ WF_vars(AnchorEnds(i))
    /\ WF_vars(\E ok \in BOOLEAN : WaitenvEnds(ok))

-----------------------------------------------------------------------------
(* Properties.                                                             *)

\* The variables hold values of their kind; no target is ever in between.
LifecycleTypeOK ==
    /\ st \in [Units -> States]
    /\ job \in [Units -> [type : {"none", "start", "starting", "stop"}, hard : BOOLEAN]]
    /\ anchor \in [Ids -> Anchors]
    /\ stop \in {<<>>} \cup {<<i>> : i \in Ids} \cup {<<i, "ok">> : i \in Ids}
    /\ \A u \in Units \ Services : st[u] \in {"active", "inactive"}

\* cleanup-env undoes the session's environment only when the compositor is
\* gone and cannot come: it is not up, and has no start to wait for.
CleanupLast ==
    \A i \in Ids : st[Env(i)] = "deactivating" =>
        st[Wm(i)] = "inactive" /\ ~Starting(job[Wm(i)])

\* As long as starts do not overlap, the environment of one session is not
\* prepared while another session still has its own: not while that one is up,
\* nor while it is being taken down, however it came to its end.  This is more
\* than state.rs claims, which takes the case of NoLateCleanup for an open race.
OneSessionAtATime ==
    Orderly => \A i, k \in Ids :
        (i # k /\ st[Env(i)] = "activating") => st[Env(k)] = "inactive"

\* wsmr stop that reports success has stopped the compositor.
StopOkMeansDown ==
    [][\A i \in Ids : (stop = <<i>> /\ stop' = <<i, "ok">>) => st[Wm(i)] = "inactive"]_vars

\* A session whose compositor ends, whose anchor is gone or gets a signal, or
\* that wsmr stop has been told to stop (whether it then waited long enough or
\* not), goes down completely: its environment unit ends, cleanup-env included.
TeardownCompletes ==
    \A i \in Ids :
        (\/ st[Wm(i)] = "deactivating"
         \/ anchor[i] = "none" /\ st[BindPid(i)] = "active"
         \/ anchor[i] = "stopping"
         \/ stop = <<i>>)
            ~> (st[Env(i)] = "inactive" /\ st[Wm(i)] = "inactive")

(* A statement of the documentation that the code does not satisfy.        *)

\* wsmr start rejects "an already-active graphical session", starting ones
\* included: without any care on the caller's side, no two sessions have their
\* environment units up.
SecondStartRejected ==
    \A i, k \in Ids : i # k => ~(Up(Env(i)) /\ Up(Env(k)))

\* The race that src/session/state.rs:27-33 leaves open: "an old session's
\* `cleanup-env` ... is *still running* at the exact moment a brand new session's
\* `prepare-env` starts".  Between starts that do not overlap there is none
\* (OneSessionAtATime); between others there is.
NoLateCleanup ==
    \A i, k \in Ids : ~(st[Env(i)] = "deactivating" /\ st[Env(k)] = "activating")
=============================================================================
