------------------------------ MODULE AppLaunch ------------------------------
(***************************************************************************)
(* wsmr app (src/app/launch.rs): a request is resolved to one systemd-run  *)
(* command per instance; a single one replaces the process, several are    *)
(* spawned one after the other and then waited for.  What systemd-run and  *)
(* the applications do is the children's side.                             *)
(***************************************************************************)
EXTENDS DesktopEntries, FieldCodes, UnitNaming, FiniteSets

CONSTANTS
    DataDirs,    \* the data directories in order: sets of files [id, listed, file],
                 \* listed telling whether read_dir can open the directory of the file
    Executables, \* what util::which finds
    Requests,    \* AppOpts
    Hexes,       \* what random_hex8 can return
    Shapes,      \* Shapes[s]: the escaped form of the name s, for unit names
    Desktops,    \* first_desktop(), in the same form
    MaxUnits     \* units that others may start while the request runs

ASSUME LaunchAssumption ==
    /\ DataDirs \in Seq(Range(DataDirs))
    /\ Desktops \subseteq Name
    /\ \A s \in DOMAIN Shapes : Shapes[s] \in Name
    /\ \A r \in Requests : /\ r.kind \in {"nothing", "entry", "command"}
                           /\ r.type \in {"scope", "service"}
                           /\ r.args \in Seq(STRING)
                           /\ r.kind = "nothing" => r.args = <<>>
                           /\ r.unit # [kind |-> "none"] => r.unit.len \in Nat

\* What the parser makes of an Exec: the command word, then tokens.
ASSUME EntriesAssumption ==
    \A e \in {r.path : r \in Requests}
             \cup UNION {{f.file : f \in DataDirs[i]} : i \in DOMAIN DataDirs} :
        e.kind = "entry" =>
            \A a \in {""} \cup DOMAIN e.groups :
                ExecLine(e, a) # <<>> => Tail(ExecLine(e, a)) \in Seq(Token)

VARIABLES
    req,         \* the request
    step,        \* "resolve", "exec", "spawn", "wait", "end"
    source,      \* the desktop entry it was resolved from, if any
    argvs,       \* resolve's result
    child,       \* child[i]: the i-th systemd-run: "running", "ok", "failed"
    waited,      \* how many were waited for
    all_ok,
    result,      \* "none", "ok", "error", "replaced", "killed"
    units        \* transient unit names in use at the user manager

vars == <<req, step, source, argvs, child, waited, all_ok, result, units>>

None == [kind |-> "none"]

-----------------------------------------------------------------------------
(* resolve: the command lines, then one unit per command line.             *)

\* load_entry: the given path, or the first match under applications.
load_entry(r) == IF r.path # None THEN {Parsed(r.path)} ELSE find_entry(DataDirs, r.target)

\* resolve_target for an entry.
EntryLines(r, e) ==
    IF e.kind # "entry" THEN <<>>
    ELSE IF ~check_basic(e, r.action, Executables) THEN <<>>
    ELSE gen_entry_args(Tail(ExecLine(e, r.action)), r.args, e.icon)

\* ... and for a command: found on PATH, its arguments as they are.
CommandLines(r) ==
    IF r.target \notin Executables THEN <<>>
    ELSE <<[i \in DOMAIN r.args |-> Put("argv", r.args[i], FALSE)]>>

\* The command lines a request can come to: none of it on an error, one empty
\* one for the bare terminal.
resolve_target(r, e) ==
    CASE r.kind = "nothing" -> IF r.terminal THEN << <<>> >> ELSE <<>>
      [] r.kind = "entry"   -> EntryLines(r, e)
      [] r.kind = "command" -> CommandLines(r)

want_terminal(r, e) == r.terminal \/ (r.kind = "entry" /\ e.terminal)

\* -a, or the entry's id, or a DESKTOP_ENTRY_ID hint, or the command's name;
\* the terminal on its own is "terminal".
app_name(r) ==
    IF r.app # "" THEN r.app
    ELSE IF r.kind = "nothing" THEN "terminal"
    ELSE IF r.kind = "command" /\ r.hint # "" THEN r.hint
    ELSE r.target

ASSUME ShapesAssumption == \A r \in Requests : app_name(r) \in DOMAIN Shapes

\* Several instances never share a name: -u is ignored for them.  full is the
\* length before anything was cut off; only properties read it.
UnitNames(r, n, desktop, hex) ==
    [i \in 1..n |->
        IF n = 1 /\ r.unit # None
        THEN [len |-> r.unit.len, full |-> r.unit.len, id |-> "explicit"]
        ELSE [len  |-> auto_unit_name(r.type, desktop, Shapes[app_name(r)]),
              full |-> l_static(r.type) + Width(desktop) + Width(Shapes[app_name(r)]),
              id   |-> hex[i]]]

\* resolve_slice and resolve_unit_name refuse, the latter for one instance.
OptionsOk(r, n) ==
    /\ r.propertiesOk
    /\ r.slice \in {"a", "b", "s", "other.slice"}
    /\ (n = 1 /\ r.unit # None) => r.unit.suffixOk /\ r.unit.len <= 255

\* build_argv, as far as the units it makes can be told apart.
build_argv(r, e, line, unit) ==
    [unit |-> unit, type |-> r.type, term |-> want_terminal(r, e),
     setenv |-> r.type = "service", words |-> line]

Resolve ==
    /\ step = "resolve"
    /\ \E e \in (IF req.kind = "entry" THEN load_entry(req) ELSE {None}),
          desktop \in Desktops, termOk \in BOOLEAN :
          LET lines == resolve_target(req, e)
              n     == Len(lines)
          IN \E hex \in [1..n -> Hexes] :
                IF n = 0 \/ ~OptionsOk(req, n) \/ (want_terminal(req, e) /\ ~termOk)
                THEN /\ step' = "end"
                     /\ result' = "error"
                     /\ UNCHANGED <<source, argvs>>
                ELSE /\ argvs' = [i \in 1..n |->
                                     build_argv(req, e, lines[i], UnitNames(req, n, desktop, hex)[i])]
                     /\ source' = e
                     /\ step' = IF n = 1 THEN "exec" ELSE "spawn"
                     /\ UNCHANGED result
    /\ UNCHANGED <<req, child, waited, all_ok, units>>

-----------------------------------------------------------------------------
(* run                                                                     *)

\* systemd-run in place of wsmr.  A name in use is its error to report.
Exec ==
    /\ step = "exec"
    /\ \/ /\ result' = "replaced"
          /\ child' = <<IF argvs[1].unit.id \in units THEN "failed" ELSE "running">>
          /\ units' = units \cup {argvs[1].unit.id}
       \/ result' = "error" /\ UNCHANGED <<child, units>>
    /\ step' = "end"
    /\ UNCHANGED <<req, source, argvs, waited, all_ok>>

\* spawn, in order.  systemd-run fails at once where the unit exists already.
Spawn ==
    /\ step = "spawn"
    /\ LET unit == argvs[Len(child) + 1].unit.id
       IN /\ child' = Append(child, IF unit \in units THEN "failed" ELSE "running")
          /\ units' = units \cup {unit}
    /\ step' = IF Len(child) + 1 = Len(argvs) THEN "wait" ELSE "spawn"
    /\ UNCHANGED <<req, source, argvs, waited, all_ok, result>>

\* A spawn fails: run returns, and the children it has are nobody's.
SpawnFails ==
    /\ step = "spawn"
    /\ step' = "end"
    /\ result' = "error"
    /\ UNCHANGED <<req, source, argvs, child, waited, all_ok, units>>

\* Mutant: the last child decides.
Wait_LastCounts ==
    /\ step = "wait"
    /\ waited < Len(child)
    /\ child[waited + 1] # "running"
    /\ all_ok' = (child[waited + 1] = "ok")
    /\ waited' = waited + 1
    /\ UNCHANGED <<req, step, source, argvs, child, result, units>>

Wait ==
    /\ step = "wait"
    /\ waited < Len(child)
    /\ child[waited + 1] # "running"
    /\ all_ok' = (all_ok /\ child[waited + 1] = "ok")
    /\ waited' = waited + 1
    /\ UNCHANGED <<req, step, source, argvs, child, result, units>>

Finish ==
    /\ step = "wait"
    /\ waited = Len(child)
    /\ step' = "end"
    /\ result' = IF all_ok THEN "ok" ELSE "error"
    /\ UNCHANGED <<req, source, argvs, child, waited, all_ok, units>>

\* wsmr app is killed; what it has started goes on.
Killed ==
    /\ step \in {"resolve", "spawn", "wait"}
    /\ step' = "end"
    /\ result' = "killed"
    /\ UNCHANGED <<req, source, argvs, child, waited, all_ok, units>>

-----------------------------------------------------------------------------
(* The children, and other launches.                                       *)

\* systemd-run ends, and with --collect its unit goes.
ChildEnds(i) ==
    /\ child[i] = "running"
    /\ \E how \in {"ok", "failed"} : child' = [child EXCEPT ![i] = how]
    /\ units' = units \ {argvs[i].unit.id}
    /\ UNCHANGED <<req, step, source, argvs, waited, all_ok, result>>

OthersStart ==
    /\ Cardinality(units) < MaxUnits
    /\ \E h \in Hexes \cup {"explicit"} : units' = units \cup {h}
    /\ UNCHANGED <<req, step, source, argvs, child, waited, all_ok, result>>

Init ==
    /\ req \in Requests
    /\ step = "resolve"
    /\ source = None
    /\ argvs = <<>>
    /\ child = <<>>
    /\ waited = 0
    /\ all_ok = TRUE
    /\ result = "none"
    /\ units = {}

Next ==
    \/ Resolve
    \/ Exec
    \/ Spawn
    \/ SpawnFails
    \/ Wait
    \/ Finish
    \/ Killed
    \/ \E i \in DOMAIN child : ChildEnds(i)
    \/ OthersStart

Spec == Init /\ [][Next]_vars

-----------------------------------------------------------------------------
(* Properties.                                                             *)

\* The variables hold values of their kind.
LaunchTypeOK ==
    /\ req \in Requests
    /\ step \in {"resolve", "exec", "spawn", "wait", "end"}
    /\ child \in Seq({"running", "ok", "failed"})
    /\ Len(child) <= Len(argvs)
    /\ waited \in 0 .. Len(child)
    /\ all_ok \in BOOLEAN
    /\ result \in {"none", "ok", "error", "replaced", "killed"}

\* Success of a launch of several instances means that each of them was
\* started, once, and ended well: no failure of one is covered by a later one,
\* and a spawn that failed is never forgotten.
OkMeansAll ==
    result = "ok" => /\ Len(child) = Len(argvs)
                     /\ \A i \in DOMAIN argvs : child[i] = "ok"

\* Every argument the caller gave reaches the instances exactly as often as it
\* was given, once if it was given once, as long as the entry's field is a
\* word of its own.
ArgumentsDelivered ==
    (argvs # <<>> /\ (req.kind = "entry" =>
                        ~(Embedded(Tail(ExecLine(source, req.action))) /\ Len(req.args) > 1)))
        => \A a \in Range(req.args) :
              Cardinality(Delivered([k \in DOMAIN argvs |-> argvs[k].words], a))
                  = Cardinality({i \in DOMAIN req.args : req.args[i] = a})

\* What is launched for an id is the entry of the first data directory that
\* has the id, visible or not: a file of the user's own that hides an
\* application, or is broken or cannot be read, is never passed over for the
\* system's.  Only a directory that cannot be listed is.
FirstEntryWins ==
    (argvs # <<>> /\ req.kind = "entry" /\ req.path = None) =>
        \E i \in DOMAIN DataDirs :
            /\ \E f \in DataDirs[i] : f.id = req.target /\ f.file = source
            /\ \A j \in 1..(i - 1) : \A f \in DataDirs[j] : f.listed => f.id # req.target
            /\ ~source.hidden

\* systemd's limit of 255 bytes holds for every unit name, however long the
\* desktop's and the application's names and whatever has to be escaped in
\* them; and a name that is short enough is not touched.
UnitNamesFit ==
    \A i \in DOMAIN argvs :
        /\ argvs[i].unit.len <= 255
        /\ argvs[i].unit.full <= 127 => argvs[i].unit.len = argvs[i].unit.full

(* A statement of the documentation that the code does not satisfy.        *)

\* "one argv per file/url when a single-valued field is given multiple
\* arguments": with two files and one %f, each file gets an instance.
OneInstancePerFile ==
    (argvs # <<>> /\ req.kind = "entry" /\ Len(req.args) > 1
        /\ \E i \in DOMAIN Tail(ExecLine(source, req.action)) :
              LET tok == Tail(ExecLine(source, req.action))[i]
              IN ~tok.pct /\ (Has(tok, "f") \/ Has(tok, "u")))
        => Len(argvs) = Len(req.args)
=============================================================================
