---------------------------- MODULE TerminalScan ----------------------------
(***************************************************************************)
(* The terminal for wsmr app -T (src/app/terminal.rs): the one the         *)
(* xdg-terminals.list files prefer, or else the first of the category in a *)
(* scan of the desktop entries.  The scan leaves out what a cache file,    *)
(* shared by all launches and locked by none, says is no terminal.         *)
(* Scanners run side by side while files and programs change.              *)
(***************************************************************************)
EXTENDS DesktopEntries, Integers

CONSTANTS
    Scanners,
    Paths,     \* places for entry files under the applications directories
    Dir,       \* Dir[p]: the data directory of p, 1 being searched first
    Id,        \* Id[p]: the entry id the place gives
    Contents,  \* what an entry file may hold
    Edits,     \* ... and what one may be changed to
    Starts,    \* the files before anything happens
    Lists,     \* what the list files may say: sequences of lines
    Programs,  \* the sets of executables there may be
    Xcd,       \* XDG_CURRENT_DESKTOP
    Opts,      \* TermOpts
    Times,     \* modification times, in whole seconds
    Apart      \* no file gets a time that one at its place had before, or 0

\* A file that is not there, and the time stat then gives (unwrap_or(0)).
Gone == [kind |-> "gone"]
Files == [Paths -> [content : Contents \cup {Gone}, mtime : Nat]]

NotCached == -1
Cache == [Paths -> Nat \cup {NotCached}]

ASSUME ScanAssumption ==
    /\ Starts \subseteq {f \in Files : \A p \in Paths : f[p].content # Gone /\ Apart => f[p].mtime # 0}
    /\ Paths # {}
    /\ Times \subseteq Nat
    /\ Apart \in BOOLEAN
    /\ Edits \subseteq Contents \cup {Gone}
    /\ Gone \notin Contents

\* A line of a list has a sign or none, an entry id, and an action id or none.
ASSUME ListsAssumption ==
    \A l \in Lists :
        /\ l \in Seq(Range(l))
        /\ \A line \in Range(l) :
              line \in [sign : {"", "-", "+"}, id : {line.id}, action : {line.action}]

VARIABLES
    files,          \* the entry files
    had,            \* history: had[p]: the times that files at p have had
    executables,
    notTerminals,   \* the cache file
    pc,             \* pc[s]: where a scanner is
    lists,          \* the lines it has read
    explicit, excluded,
    cache, changed, \* its copy of the cache
    left,           \* the listed paths still to be looked at
    at, mtime,      \* the path being looked at and its time
    found,          \* the result
    steady          \* history: terminals that were usable all the time since
                    \* the scanner began

world == <<files, had, executables>>
choice == <<lists, explicit, excluded>>
memory == <<cache, changed, left, at, mtime>>
vars == <<world, notTerminals, pc, choice, memory, found, steady>>

None == [kind |-> "none"]
Failed == [kind |-> "error"]

-----------------------------------------------------------------------------
(* The preference lists and the command.                                   *)

\* One line of a list: an id preferred, excluded ("-") or protected ("+").
\* Lines that are comments or no entry reference are not there.
parse_terminal_list(acc, line) ==
    CASE line.sign = "" /\ \A i \in DOMAIN acc.explicit : acc.explicit[i] # line ->
            [acc EXCEPT !.explicit = Append(@, line)]
      [] line.sign = "-" /\ line.action = "" /\ line.id \notin acc.protected ->
            [acc EXCEPT !.excluded = @ \cup {line.id}]
      [] line.sign = "+" /\ line.action = "" ->
            [acc EXCEPT !.protected = @ \cup {line.id}, !.excluded = @ \ {line.id}]
      [] OTHER -> acc

read_terminal_lists(lines) ==
    FoldLeft(parse_terminal_list,
             [explicit |-> <<>>, excluded |-> {}, protected |-> {}], lines)

\* first_key: the first key that is there, unless it is empty.
first_key(entry, keys) ==
    LET there == SelectSeq(keys, LAMBDA k : k \in DOMAIN entry.keys)
    IN IF there = <<>> THEN "" ELSE entry.keys[there[1]]

\* An option's value, in a word of its own or behind the key's "=".
append_opt(entry, keys, value) ==
    IF value = "" \/ first_key(entry, keys) = "" THEN <<>>
    ELSE <<[key |-> first_key(entry, keys), value |-> value]>>

\* expand_str, as a word or none: a backslash on its own expands to nothing.
expand_str(value) == IF value = "\\" THEN <<>> ELSE <<value>>

build_terminal(entry, action, opts) ==
    [kind |-> "terminal", entry |-> entry, exec |-> ExecLine(entry, action),
     options |-> append_opt(entry, <<"AppId", "X-AppId">>, opts.appId)
                 \o append_opt(entry, <<"Title", "X-Title">>, opts.title)
                 \o append_opt(entry, <<"Dir", "X-Dir">>, opts.dir)
                 \o (IF opts.hold /\ first_key(entry, <<"Hold", "X-Hold">>) # ""
                     THEN <<[key |-> first_key(entry, <<"Hold", "X-Hold">>), value |-> ""]>>
                     ELSE <<>>),
     execArg |-> LET key == first_key(entry, <<"Exec", "X-Exec", "ExecArg", "X-ExecArg">>)
                 IN IF key = "" THEN <<"-e">> ELSE expand_str(key)]

is_terminal(content) == content.kind = "entry" /\ "TerminalEmulator" \in content.categories

\* A terminal the scan accepts.
Usable(content) ==
    /\ is_terminal(content)
    /\ check_basic(content, "", executables)
    /\ check_showin(content, Xcd)

\* What every step does for the history.
UsablePaths == {p \in Paths : Usable(files[p].content)}

Remember ==
    steady' = [s \in Scanners |->
                 IF pc[s] # "explicit" /\ pc'[s] = "explicit"
                 THEN UsablePaths' ELSE steady[s] \cap UsablePaths']

-----------------------------------------------------------------------------
(* find_terminal_entry, in steps.                                          *)

Goto(s, step) == pc' = [pc EXCEPT ![s] = step]
Result(s, r) == found' = [found EXCEPT ![s] = r]

\* The end of a scanner, and of what only it knew.
Uncached == [p \in Paths |-> NotCached]
AnyPath == CHOOSE p \in Paths : TRUE
Return(s) ==
    /\ Goto(s, "done")
    /\ cache' = [cache EXCEPT ![s] = Uncached]
    /\ changed' = [changed EXCEPT ![s] = FALSE]
    /\ left' = [left EXCEPT ![s] = {}]
    /\ at' = [at EXCEPT ![s] = AnyPath]
    /\ mtime' = [mtime EXCEPT ![s] = 0]

\* A launch wants a terminal; the lists are read.
Begin(s) ==
    /\ pc[s] \in {"idle", "done"}
    /\ \E l \in Lists :
          /\ lists' = [lists EXCEPT ![s] = l]
          /\ explicit' = [explicit EXCEPT ![s] = read_terminal_lists(l).explicit]
          /\ excluded' = [excluded EXCEPT ![s] = read_terminal_lists(l).excluded]
    /\ Goto(s, "explicit")
    /\ Result(s, None)
    /\ UNCHANGED <<world, notTerminals, memory>>
    /\ Remember

\* The data directories as they are.
Dirs ==
    [d \in {Dir[p] : p \in Paths} |->
        {[id |-> Id[p], listed |-> TRUE, file |-> files[p].content] :
            p \in {q \in Paths : Dir[q] = d /\ files[q].content # Gone}}]

\* The next preferred id.  An entry that cannot be read or parsed fails the
\* whole command.
TryExplicit(s) ==
    /\ pc[s] = "explicit"
    /\ explicit[s] # <<>>
    /\ LET want == Head(explicit[s])
       IN \E e \in find_entry(Dirs, want.id) :
             IF e = LookupFailed
             THEN Return(s) /\ Result(s, Failed) /\ UNCHANGED explicit
             ELSE IF e # NotFound /\ is_terminal(e) /\ check_basic(e, want.action, executables)
             THEN /\ Return(s)
                  /\ \E o \in Opts : Result(s, build_terminal(e, want.action, o))
                  /\ UNCHANGED explicit
             ELSE /\ explicit' = [explicit EXCEPT ![s] = Tail(@)]
                  /\ UNCHANGED <<pc, memory, found>>
    /\ UNCHANGED <<world, notTerminals, lists, excluded>>
    /\ Remember

\* load_not_terminals, then find::list.
Load(s) ==
    /\ pc[s] = "explicit"
    /\ explicit[s] = <<>>
    /\ cache' = [cache EXCEPT ![s] = notTerminals]
    /\ changed' = [changed EXCEPT ![s] = FALSE]
    /\ Goto(s, "list")
    /\ UNCHANGED <<world, notTerminals, choice, left, at, mtime, found>>
    /\ Remember

List(s) ==
    /\ pc[s] = "list"
    /\ left' = [left EXCEPT ![s] = {p \in Paths : files[p].content # Gone}]
    /\ Goto(s, "stat")
    /\ UNCHANGED <<world, notTerminals, choice, cache, changed, at, mtime, found>>
    /\ Remember

\* Mutant: a file that is gone has no time at all.
file_mtime_Negative(p) == IF files[p].content = Gone THEN -1 ELSE files[p].mtime

\* file_mtime.
file_mtime(p) == IF files[p].content = Gone THEN 0 ELSE files[p].mtime

\* read_dir gives the files of a directory in any order.
NextPaths(s) == {p \in left[s] : \A q \in left[s] : Dir[p] <= Dir[q]}

\* One path: left out if excluded or in the cache with the time it has.
Stat(s) ==
    /\ pc[s] = "stat"
    /\ \E p \in NextPaths(s) :
          /\ left' = [left EXCEPT ![s] = @ \ {p}]
          /\ IF Id[p] \in excluded[s] \/ cache[s][p] = file_mtime(p)
             THEN UNCHANGED <<pc, at, mtime>>
             ELSE /\ at' = [at EXCEPT ![s] = p]
                  /\ mtime' = [mtime EXCEPT ![s] = file_mtime(p)]
                  /\ Goto(s, "read")
    /\ UNCHANGED <<world, notTerminals, choice, cache, changed, found>>
    /\ Remember

\* Mutant: a terminal that cannot be used now is remembered as none.
Read_CachesUnusable(s) ==
    /\ pc[s] = "read"
    /\ LET content == files[at[s]].content
       IN IF Usable(content)
          THEN /\ Goto(s, "save")
               /\ \E o \in Opts : Result(s, build_terminal(content, "", o))
               /\ UNCHANGED <<cache, changed>>
          ELSE /\ IF content.kind = "entry"
                  THEN /\ cache' = [cache EXCEPT ![s][at[s]] = mtime[s]]
                       /\ changed' = [changed EXCEPT ![s] = TRUE]
                  ELSE UNCHANGED <<cache, changed>>
               /\ Goto(s, "stat")
               /\ UNCHANGED found
    /\ UNCHANGED <<world, notTerminals, choice, left, at, mtime>>
    /\ Remember

\* Mutant: the time is taken after the content.
Read_StatsLast(s) ==
    /\ pc[s] = "read"
    /\ IF mtime[s] # 0
       THEN /\ IF Usable(files[at[s]].content) THEN Goto(s, "save") ELSE UNCHANGED pc
            /\ IF Usable(files[at[s]].content)
               THEN \E o \in Opts : Result(s, build_terminal(files[at[s]].content, "", o))
               ELSE UNCHANGED found
            /\ mtime' = [mtime EXCEPT ![s] = 0]
            /\ changed' = [changed EXCEPT ![s] = @ \/ files[at[s]].content.kind = "entry"]
            /\ cache' = cache
       ELSE /\ cache' = [cache EXCEPT ![s][at[s]] = file_mtime(at[s])]
            /\ Goto(s, "stat")
            /\ UNCHANGED <<changed, mtime, found>>
    /\ UNCHANGED <<world, notTerminals, choice, left, at>>
    /\ Remember

\* The file is read and parsed.  Only what is no terminal at all goes into
\* the cache, with the time taken before.
Read(s) ==
    /\ pc[s] = "read"
    /\ LET content == files[at[s]].content
       IN IF Usable(content)
          THEN /\ Goto(s, "save")
               /\ \E o \in Opts : Result(s, build_terminal(content, "", o))
               /\ UNCHANGED <<cache, changed>>
          ELSE /\ IF content.kind = "entry" /\ ~is_terminal(content)
                  THEN /\ cache' = [cache EXCEPT ![s][at[s]] = mtime[s]]
                       /\ changed' = [changed EXCEPT ![s] = TRUE]
                  ELSE UNCHANGED <<cache, changed>>
               /\ Goto(s, "stat")
               /\ UNCHANGED found
    /\ UNCHANGED <<world, notTerminals, choice, left, at, mtime>>
    /\ Remember

\* The end of the list.
ListEnds(s) ==
    /\ pc[s] = "stat"
    /\ left[s] = {}
    /\ Goto(s, "save")
    /\ UNCHANGED <<world, notTerminals, choice, memory, found>>
    /\ Remember

\* save_not_terminals: fs::write truncates the file and then writes it.  Where
\* another scanner has written in between, the end of its lines may stick out
\* behind ours, the first of them cut: a cut time has lost its leading digits
\* and is the time of no file, which 0 stands for.
Truncate(s) ==
    /\ pc[s] = "save"
    /\ changed[s]
    /\ notTerminals' = Uncached
    /\ Goto(s, "write")
    /\ UNCHANGED <<world, choice, memory, found>>
    /\ Remember

Write(s) ==
    /\ pc[s] = "write"
    /\ \E tail \in SUBSET {p \in Paths : notTerminals[p] # NotCached} :
       \E cut \in {{}} \cup {{p} : p \in tail} :
          notTerminals' = [p \in Paths |-> IF p \in cut THEN 0
                                           ELSE IF p \in tail THEN notTerminals[p]
                                           ELSE cache[s][p]]
    /\ Return(s)
    /\ UNCHANGED <<world, choice, found>>
    /\ Remember

\* Nothing to save, or the file cannot be opened or written: no error.
SaveSkipped(s) ==
    /\ \/ pc[s] = "save" /\ ~changed[s]
       \/ pc[s] \in {"save", "write"} /\ changed[s]
    /\ Return(s)
    /\ UNCHANGED <<world, notTerminals, choice, found>>
    /\ Remember

-----------------------------------------------------------------------------
(* What happens around the scanners.                                       *)

\* An entry file is put in place or taken away.  It has the time of the moment,
\* or whatever time the one who puts it there gives it.
Change(p) ==
    /\ \E c \in Edits \ {files[p].content} :
          \/ /\ c = Gone
             /\ files' = [files EXCEPT ![p] = [content |-> Gone, mtime |-> 0]]
             /\ UNCHANGED had
          \/ /\ c # Gone
             /\ \E t \in Times :
                   /\ Apart => t \notin had[p] \cup {0}
                   /\ files' = [files EXCEPT ![p] = [content |-> c, mtime |-> t]]
                   /\ had' = [had EXCEPT ![p] = @ \cup {t}]
    /\ UNCHANGED <<executables, notTerminals, pc, choice, memory, found>>
    /\ Remember

\* Programs come and go without a change of their entries.
Install ==
    /\ \E e \in Programs \ {executables} : executables' = e
    /\ UNCHANGED <<files, had, notTerminals, pc, choice, memory, found>>
    /\ Remember

Init ==
    /\ files \in Starts
    /\ had = [p \in Paths |-> IF files[p].content = Gone THEN {} ELSE {files[p].mtime}]
    /\ executables \in Programs
    /\ notTerminals = Uncached
    /\ pc = [s \in Scanners |-> "idle"]
    /\ lists = [s \in Scanners |-> <<>>]
    /\ explicit = [s \in Scanners |-> <<>>]
    /\ excluded = [s \in Scanners |-> {}]
    /\ cache = [s \in Scanners |-> Uncached]
    /\ changed = [s \in Scanners |-> FALSE]
    /\ left = [s \in Scanners |-> {}]
    /\ at = [s \in Scanners |-> AnyPath]
    /\ mtime = [s \in Scanners |-> 0]
    /\ found = [s \in Scanners |-> None]
    /\ steady = [s \in Scanners |-> {}]

Scan(s) ==
    \/ Begin(s)
    \/ TryExplicit(s)
    \/ Load(s)
    \/ List(s)
    \/ Stat(s)
    \/ Read(s)
    \/ ListEnds(s)
    \/ Truncate(s)
    \/ Write(s)
    \/ SaveSkipped(s)

Around ==
    \/ \E p \in Paths : Change(p)
    \/ Install

Next == (\E s \in Scanners : Scan(s)) \/ Around

Spec == Init /\ [][Next]_vars

-----------------------------------------------------------------------------
(* Properties.                                                             *)

\* The variables hold values of their kind.
ScanTypeOK ==
    /\ files \in Files
    /\ had \in [Paths -> SUBSET Nat]
    /\ notTerminals \in Cache
    /\ pc \in [Scanners -> {"idle", "explicit", "list", "stat", "read", "save", "write", "done"}]
    /\ cache \in [Scanners -> Cache]
    /\ changed \in [Scanners -> BOOLEAN]
    /\ left \in [Scanners -> SUBSET Paths]
    /\ at \in [Scanners -> Paths]
    /\ mtime \in [Scanners -> Nat]

\* "known not-a-terminal, unchanged": an entry that has the time noted for its
\* place is no terminal.
SkippedIsNoTerminal ==
    \A p \in Paths :
        (files[p].content # Gone /\ notTerminals[p] = files[p].mtime)
            => ~is_terminal(files[p].content)

\* What the cache says and the files confirm is so, whatever was changed between
\* the look at an entry's time and the reading, whatever another launch wrote
\* into the cache file meanwhile; as long as no time comes back.  Where one does,
\* SkippedIsNoTerminal fails.
CacheTruthful == Apart => SkippedIsNoTerminal

\* The ids the lists rule out: excluded somewhere, protected nowhere.
RuledOut(s) ==
    {Id[p] : p \in {q \in Paths :
        /\ \E i \in DOMAIN lists[s] : lists[s][i] = [sign |-> "-", id |-> Id[q], action |-> ""]
        /\ \A i \in DOMAIN lists[s] : lists[s][i] # [sign |-> "+", id |-> Id[q], action |-> ""]}}

\* Terminals that were there, usable and not ruled out while s was at work.
Overlooked(s) == {p \in steady[s] : Id[p] \notin RuledOut(s)}

\* "could not find a terminal emulator" is said only if there was none to
\* find; neither the cache nor a line of a list hides one.
NoTerminalOverlooked ==
    Apart => \A s \in Scanners :
        (pc[s] = "done" /\ found[s] = None) => Overlooked(s) = {}

(* A statement of the documentation that the code does not satisfy.        *)

\* "--terminal resolves a terminal from xdg-terminals.list, then falls back to
\* desktop entries in the TerminalEmulator category": with a usable terminal
\* in place, the command gets one.
FallsBack ==
    \A s \in Scanners :
        (pc[s] = "done" /\ found[s] \in {None, Failed}) => Overlooked(s) = {}
=============================================================================
