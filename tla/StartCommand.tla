---------------------------- MODULE StartCommand ----------------------------
(***************************************************************************)
(* wsmr start (src/main.rs, src/session/start.rs) as a login shell runs it *)
(* after wsmr check may-start, or a display manager without it; and the    *)
(* first half of aux prepare-env (src/session/prepare.rs), which takes     *)
(* over the login environment that start leaves in env_login.  Unit-file   *)
(* generation is one step here (UnitFiles has its parts), the systemd job  *)
(* engine is in SessionLifecycle.                                          *)
(***************************************************************************)
EXTENDS MayStart, CompResolve, Integers

CONSTANTS
    StartModes,   \* option records of start
    Starts,       \* what start can be called with: records [input, mode, env]
    ManagerXcds,  \* XDG_CURRENT_DESKTOP of the user manager
    Logins,       \* the user's login sessions: records [sid, seat, vt]
    NoFile        \* no such file

\* Login variables as pam_systemd sets them: an id and a seat that are both
\* there are those of one login session.
NamesLogin(env) ==
    /\ DOMAIN env = {"sid", "seat", "vt"}
    /\ (env.sid # "" /\ env.seat # "") => \E l \in Logins : env.sid = l.sid /\ env.seat = l.seat

ASSUME StartAssumption ==
    /\ StartModes \subseteq [dry_run : BOOLEAN, only_generate : BOOLEAN, hardcode : BOOLEAN,
                             warn : Int, abort : Int]
    /\ \A s \in Starts : s.mode \in StartModes
    /\ \A s \in Starts : NamesLogin(s.env)
    /\ ManagerXcds \subseteq Seq(STRING)

\* ResolveInput: words, an action only after the id of an entry, and names,
\* which come out of split_colon here.
ASSUME InputAssumption ==
    \A s \in Starts :
        /\ s.input.cmdline \in Seq(Words)
        /\ \A i \in DOMAIN s.input.cmdline :
              ~s.input.cmdline[i].entry => s.input.cmdline[i].action = NoAction
        /\ s.input.names \in Seq(STRING)
        /\ s.input.exclusive \in BOOLEAN
        /\ s.input.xcd \in Seq(STRING)
        /\ \A from \in {s.input.names, s.input.xcd} :
              from # <<"">> /\ \A i \in DOMAIN from : from[i] \notin DOMAIN Parts

VARIABLES
    phase,        \* the next step of start; "check" while may-start runs
    mode,         \* its options
    input,        \* its ResolveInput
    comp,         \* CompGlobals
    changes,      \* the plan writes or removes something
    did,          \* what start has done to the system, in order
    result,       \* how it ended
    active,       \* a session unit is active or activating: others see to that
    reached,      \* the system has reached graphical.target
    timeUp,       \* the time given with -g or -G is over
    loginEnv,     \* the login variables start was given
    env_login,    \* file
    env_session,  \* file
    prep,         \* the next step of prepare-env
    penv,         \* prepare-env's env_login
    fgvt          \* the foreground VT

startVars == <<phase, mode, input, comp, changes, did, result>>
worldVars == <<active, reached, timeUp, fgvt>>
loginVars == <<loginEnv, env_login, env_session, prep, penv>>
vars      == <<checkVars, startVars, worldVars, loginVars>>

NoComp  == Failed
Nothing == [sid |-> "", seat |-> "", vt |-> 0]

-----------------------------------------------------------------------------
(* check may-start && exec start                                           *)

CheckStep ==
    /\ phase = "check"
    /\ CheckNext
    /\ UNCHANGED <<startVars, worldVars, loginVars>>

\* The check is a process of its own: what it knew is gone with it.
ForgetCheck ==
    /\ answer' = [p \in Probes |-> Unasked]
    /\ silent' = {} /\ visible' = {} /\ errors' = {}
    /\ sysbus' = FALSE
    /\ copts' = CHOOSE o \in CheckOpts : TRUE
    /\ checkExit' = "gone"
    /\ UNCHANGED probe

\* exec wsmr start ...: CompGlobals::resolve and -F come first.
StartBegins ==
    /\ phase = "check"
    /\ checkExit = "0"
    /\ ForgetCheck
    /\ \E s \in Starts :
          /\ input' = s.input
          /\ mode' = s.mode
          /\ loginEnv' = s.env
          /\ comp' = apply_hardcode(resolve(s.input), s.mode.hardcode)
    /\ IF comp'.ok THEN phase' = "gate" /\ UNCHANGED result
       ELSE phase' = "end" /\ result' = "error"
    /\ UNCHANGED <<changes, did, worldVars, env_login, env_session, prep, penv>>

-----------------------------------------------------------------------------
(* session::start::run                                                     *)

Ends(how) == phase' = "end" /\ result' = how
Goes(to)  == phase' = to /\ UNCHANGED result

\* Any call of a step may fail, which ends start with an error.
Fails(step) ==
    /\ phase = step
    /\ Ends("error")
    /\ UNCHANGED <<checkVars, mode, input, comp, changes, did, worldVars, loginVars>>

\* resolve_gst_gate: -G before -g, negative means off.
resolve_gst_gate(m) ==
    IF m.abort >= 0 THEN "abort" ELSE IF m.warn >= 0 THEN "warn" ELSE "disabled"

SkipGate == mode.only_generate \/ mode.dry_run \/ resolve_gst_gate(mode) = "disabled"

\* Mutant: the gate's time-out is a result of its own.
GstGate_TimesOut ==
    /\ phase = "gate"
    /\ \/ (SkipGate \/ reached) /\ Goes("refuse")
       \/ ~SkipGate /\ ~reached /\ timeUp /\ Ends("timeout")
    /\ UNCHANGED <<checkVars, mode, input, comp, changes, did, worldVars, loginVars>>

\* wait_for_unit looks before it checks the clock, and polls in between.
GstGate ==
    /\ phase = "gate"
    /\ \/ SkipGate /\ Goes("refuse")
       \/ ~SkipGate /\ reached /\ Goes("refuse")
       \/ /\ ~SkipGate /\ ~reached /\ timeUp
          /\ IF resolve_gst_gate(mode) = "abort" THEN Ends("refused") ELSE Goes("refuse")
    /\ UNCHANGED <<checkVars, mode, input, comp, changes, did, worldVars, loginVars>>

RefuseIfActive ==
    /\ phase = "refuse"
    /\ IF active THEN Ends("refused") ELSE Goes("plan")
    /\ UNCHANGED <<checkVars, mode, input, comp, changes, did, worldVars, loginVars>>

\* Mutant: the plan is applied before its conflicts are looked at.
Plan_ApplyFirst ==
    /\ phase = "plan"
    /\ \E c \in BOOLEAN, conflict \in BOOLEAN :
          /\ changes' = c
          /\ did' = IF c THEN Append(did, "units") ELSE did
          /\ IF conflict THEN Ends("refused")
             ELSE IF mode.dry_run THEN Ends("dry_run") ELSE Goes("apply")
    /\ UNCHANGED <<checkVars, mode, input, comp, worldVars, loginVars>>

\* plan_generate reads; a conflict is an error, in a dry run after the report.
Plan ==
    /\ phase = "plan"
    /\ \E c \in BOOLEAN, conflict \in BOOLEAN :
          /\ changes' = c
          /\ IF conflict THEN Ends("refused")
             ELSE IF mode.dry_run THEN Ends("dry_run") ELSE Goes("apply")
    /\ UNCHANGED <<checkVars, mode, input, comp, did, worldVars, loginVars>>

\* Mutant: the manager is not reloaded.
Apply_NoReload ==
    /\ phase = "apply"
    /\ did' = IF changes THEN Append(did, "units") ELSE did
    /\ Goes("generated")
    /\ UNCHANGED <<checkVars, mode, input, comp, changes, worldVars, loginVars>>

Apply ==
    /\ phase = "apply"
    /\ did' = IF changes THEN Append(did, "units") ELSE did
    /\ Goes(IF changes THEN "reload" ELSE "generated")
    /\ UNCHANGED <<checkVars, mode, input, comp, changes, worldVars, loginVars>>

Reload ==
    /\ phase = "reload"
    /\ did' = Append(did, "reload")
    /\ Goes("generated")
    /\ UNCHANGED <<checkVars, mode, input, comp, changes, worldVars, loginVars>>

Generated ==
    /\ phase = "generated"
    /\ IF mode.only_generate THEN Ends("generated") ELSE Goes("bindpid")
    /\ UNCHANGED <<checkVars, mode, input, comp, changes, did, worldVars, loginVars>>

\* systemctl --user start wayland-session-bindpid@<own pid>, and its status.
BindPid ==
    /\ phase = "bindpid"
    /\ did' = Append(did, "bindpid")
    /\ Goes("save_login")
    /\ UNCHANGED <<checkVars, mode, input, comp, changes, worldVars, loginVars>>

\* save_login_envs: first env_login, then env_session.conf.
SaveLogin ==
    /\ phase = "save_login"
    /\ env_login' = loginEnv
    /\ did' = Append(did, "env_login")
    /\ Goes("save_session")
    /\ UNCHANGED <<checkVars, mode, input, comp, changes, worldVars,
                   loginEnv, env_session, prep, penv>>

SaveSession ==
    /\ phase = "save_session"
    /\ env_session' = loginEnv
    /\ did' = Append(did, "env_session")
    /\ Goes("exec")
    /\ UNCHANGED <<checkVars, mode, input, comp, changes, worldVars,
                   loginEnv, env_login, prep, penv>>

\* systemd-cat -> sh signal-handler.sh <envelope>: start is the anchor now.
BecomeAnchor ==
    /\ phase = "exec"
    /\ Ends("anchor")
    /\ prep' = "load"
    /\ UNCHANGED <<checkVars, mode, input, comp, changes, did, worldVars,
                   loginEnv, env_login, env_session, penv>>

StartSteps == {"gate", "refuse", "plan", "apply", "reload", "bindpid",
               "save_login", "save_session", "exec"}

Start ==
    \/ StartBegins
    \/ GstGate
    \/ RefuseIfActive
    \/ Plan
    \/ Apply
    \/ Reload
    \/ Generated
    \/ BindPid
    \/ SaveLogin
    \/ SaveSession
    \/ BecomeAnchor
    \/ \E step \in StartSteps : Fails(step)

-----------------------------------------------------------------------------
(* prepare-env up to its snapshot (the rest is in SessionState).           *)

\* load_env, and the file is removed: it serves one session.
LoadLogin ==
    /\ prep = "load"
    /\ penv' = IF env_login = NoFile THEN Nothing ELSE env_login
    /\ env_login' = NoFile
    /\ prep' = "deduce"
    /\ UNCHANGED <<checkVars, startVars, worldVars, loginEnv, env_session>>

\* Both are there: nothing to deduce.
DeduceNothing ==
    /\ prep = "deduce"
    /\ penv.seat # "" /\ penv.sid # ""
    /\ prep' = "ready"
    /\ UNCHANGED <<checkVars, startVars, worldVars, loginEnv, env_login, env_session, penv>>

\* Mutant: only what is missing is filled in.
deduce_session_with_FillsGaps(env, login) ==
    [env EXCEPT !.sid  = IF env.sid = "" THEN login.sid ELSE env.sid,
                !.seat = IF env.seat = "" THEN login.seat ELSE env.seat]

deduce_session_with(env, login) == [env EXCEPT !.sid = login.sid, !.seat = login.seat]

\* XDG_VTNR, or else the foreground VT; session_by_vt takes the first of the
\* user's sessions on it; env_session.conf is written again.
Deduce ==
    /\ prep = "deduce"
    /\ penv.seat = "" \/ penv.sid = ""
    /\ LET vt == IF penv.vt = 0 THEN fgvt ELSE penv.vt
       IN \E l \in {l \in Logins : l.vt = vt} :
             /\ penv' = deduce_session_with([penv EXCEPT !.vt = vt], l)
             /\ env_session' = penv'
    /\ prep' = "ready"
    /\ UNCHANGED <<checkVars, startVars, worldVars, loginEnv, env_login>>

\* No session on that VT, or a bus that does not answer: the unit fails.
DeduceFails ==
    /\ prep = "deduce"
    /\ penv.seat = "" \/ penv.sid = ""
    /\ prep' = "failed"
    /\ UNCHANGED <<checkVars, startVars, worldVars, loginEnv, env_login, env_session, penv>>

\* The environment unit is started again without a new wsmr start.
PrepareAgain ==
    /\ prep \in {"ready", "failed"}
    /\ prep' = "load"
    /\ UNCHANGED <<checkVars, startVars, worldVars, loginEnv, env_login, env_session, penv>>

PrepareLogin == LoadLogin \/ DeduceNothing \/ Deduce \/ DeduceFails \/ PrepareAgain

-----------------------------------------------------------------------------
(* The rest of the system.                                                 *)

\* Another session comes or goes, boot goes on, time passes, the user
\* switches to another VT.
World ==
    /\ phase # "check"
    /\ \/ active' = ~active /\ UNCHANGED <<reached, timeUp, fgvt>>
       \/ reached' = TRUE /\ UNCHANGED <<active, timeUp, fgvt>>
       \/ phase = "gate" /\ timeUp' = TRUE /\ UNCHANGED <<active, reached, fgvt>>
       \/ fgvt' \in Vts \ {0} /\ UNCHANGED <<active, reached, timeUp>>
    /\ UNCHANGED <<checkVars, startVars, loginVars>>

Init ==
    /\ CheckInit
    /\ phase = "check"
    /\ mode = [dry_run |-> FALSE, only_generate |-> FALSE, hardcode |-> FALSE,
               warn |-> 0, abort |-> 0]
    /\ input = [cmdline |-> <<>>, names |-> <<>>, exclusive |-> FALSE, xcd |-> <<>>]
    /\ comp = NoComp
    /\ changes = FALSE
    /\ did = <<>>
    /\ result = "none"
    /\ active = FALSE
    /\ reached = FALSE
    /\ timeUp = FALSE
    /\ loginEnv = Nothing
    /\ env_login = NoFile
    /\ env_session = NoFile
    /\ prep = "none"
    /\ penv = Nothing
    /\ fgvt = 1

Next == CheckStep \/ Start \/ PrepareLogin \/ World

Spec == Init /\ [][Next]_vars

-----------------------------------------------------------------------------
(* Properties.                                                             *)

\* The variables hold values of their kind.
StartTypeOK ==
    /\ copts \in CheckOpts
    /\ phase \in StartSteps \cup {"check", "generated", "end"}
    /\ result \in {"none", "error", "refused", "dry_run", "generated", "anchor"}
    /\ changes \in BOOLEAN
    /\ did \in Seq({"units", "reload", "bindpid", "env_login", "env_session"})
    /\ prep \in {"none", "load", "deduce", "ready", "failed"}

\* "A refusal (already active, or a plan conflict) or --dry-run never
\* generates, writes, or reloads", and -o does nothing but generate: whatever
\* the system does between the checks.
RefusalTouchesNothing ==
    /\ result \in {"refused", "dry_run"} => did = <<>>
    /\ mode.only_generate => \A i \in DOMAIN did : did[i] \in {"units", "reload"}

\* The anchor runs only over a manager that has loaded what was generated, a
\* session bound to its pid, and both login environments on file; and in this
\* order, so that a step that fails leaves nothing that depends on it.
AnchorReady ==
    /\ result = "anchor" => {"bindpid", "env_login", "env_session"} \subseteq Range(did)
    /\ \A i \in DOMAIN did :
          /\ did[i] = "bindpid" => (changes => "reload" \in Range(SubSeq(did, 1, i - 1)))
          /\ did[i] = "env_login" => "bindpid" \in Range(SubSeq(did, 1, i - 1))

\* The session variables that prepare-env works with name one login session:
\* the seat never belongs to another session than the id, also when only one
\* of them came from the login shell and the user has switched VTs since.
LoginPairConsistent ==
    prep = "ready" => \E l \in Logins : penv.sid = l.sid /\ penv.seat = l.seat

\* aux resolves the first word of the drop-in by its base name, an entry's Exec
\* too where it is an absolute path: start does not ask of that name that it is
\* a compositor id and not an entry's, and the units of such an entry fail.
Resolvable ==
    comp.ok /\ (first_is_absolute(comp) => is_wm_id(comp.bin) /\ ~comp.cmdline[1].entry)

\* The cases where the drop-in can carry what start resolved: an absolute path,
\* a bare executable, or an entry given by its id without an action whose
\* command line is one word; and the line of the drop-in is read as written.
Carried ==
    LET word == Head(input.cmdline)
    IN /\ LineUntouched(service_dropin(comp))
       /\ \/ first_is_absolute(comp)
          \/ ~word.entry /\ word.at = "bare"
          \/ word.entry /\ word.at = "bare" /\ word.action = NoAction /\ Len(comp.cmdline) = 1

\* The cases where the services find the desktop names again.  An entry has to
\* be a session's by its id, which is all they know of it: one given by its
\* path is looked up in vain, or another one is found; and its action, which
\* they do not know, must not decide what the default name is.  And what the
\* drop-in carries has to be read as it was written, too.
NamesCarried ==
    LET word == Head(input.cmdline)
        drop == preloader_dropin(comp)
    IN /\ LineUntouched(drop.cmdline) /\ NamesUntouched(drop.names)
       /\ \/ first_is_absolute(comp)
          \/ ~word.entry
          \/ /\ word.at = "bare"
             /\ EntryUsable(EntryOf(word), NoAction)
             /\ word.action = NoAction \/ comp.exclusive \/ comp.names # <<comp.bin>>

\* In those cases what start resolved survives the way through the units, where
\* each of the two services resolves it again from its instance name and its
\* drop-in: aux exec runs the same command line, and prepare-env exports the same
\* desktop names (exactly those where they are exclusive or the user manager has none of
\* its own, and otherwise at least those, unless they were the default).
UnitsRoundTrip ==
    Resolvable =>
        /\ Carried =>
              LET again == ExecutedAs(comp, Head(input.cmdline).entry)
              IN again.ok /\ again.cmdline = comp.cmdline
        /\ NamesCarried =>
              \A xcd \in ManagerXcds :
                 LET again == PreparedAs(comp, Head(input.cmdline).entry, xcd)
                 IN /\ again.ok
                    /\ (comp.exclusive \/ xcd = <<>>) => again.names = comp.names
                    /\ comp.names # <<comp.bin>> => Range(comp.names) \subseteq Range(again.names)

(* Statements of the documentation that the code does not satisfy.         *)

\* "Desktop names exactly as passed on the CLI via -D (recorded in the drop-in
\* so a regenerated unit re-passes them verbatim)": at least where they are
\* exclusive, so that the drop-in records nothing else.
NamesRepassedVerbatim ==
    LET names == preloader_dropin(comp).names
    IN (comp.ok /\ comp.exclusive) => (~NamesRefused(names) /\ NamesRead(names) = comp.cliNames)

\* cli_args are the "CLI-supplied compositor args (after arg0)": a session
\* entry given by its id is executed with the command line start resolved,
\* each argument once, where the drop-in is read as written.
EntryArgsOnce ==
    (comp.ok /\ Head(input.cmdline).entry /\ Head(input.cmdline).at = "bare"
             /\ Head(input.cmdline).action = NoAction /\ LineUntouched(service_dropin(comp)))
        => ExecutedAs(comp, TRUE).cmdline = comp.cmdline
=============================================================================
