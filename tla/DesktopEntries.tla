--------------------------- MODULE DesktopEntries ---------------------------
(***************************************************************************)
(* Desktop entries: where one is found (src/app/find.rs), what its keys    *)
(* mean and whether it may be launched (src/app/entry.rs).  A data         *)
(* directory is the set of its files [id, listed, file], because read_dir  *)
(* gives them in any order; the directories themselves have one            *)
(* (XDG_DATA_HOME first).  What util::which finds is a parameter, because  *)
(* it changes on its own.                                                  *)
(***************************************************************************)
EXTENDS Naturals, Sequences, SequencesExt

\* The contents of a file: unreadable, without a [Desktop Entry] group, or an
\* entry.
Unreadable == [kind |-> "unreadable"]
Malformed  == [kind |-> "malformed"]

\* The results of a lookup.
NotFound      == [kind |-> "none"]
LookupFailed  == [kind |-> "error"]

Parsed(file) == IF file.kind = "entry" THEN file ELSE LookupFailed

\* Mutant: a file that cannot be used is skipped.
walk_SkipsBroken(dir, id) ==
    {f.file : f \in {g \in dir : g.listed /\ g.id = id /\ g.file.kind = "entry"}}

\* walk: the file with the id in a directory that can be listed; which one, if a
\* subdirectory makes two of the same id, depends on read_dir.  A file that
\* cannot be read or parsed ends the search; a directory or subdirectory that
\* cannot be opened does not, and what is in it is passed over.
walk(dir, id) == {Parsed(f.file) : f \in {g \in dir : g.listed /\ g.id = id}}

\* find_entry: the first directory that has the id.
find_entry(dirs, id) ==
    LET having == {i \in DOMAIN dirs : walk(dirs[i], id) # {}}
    IN IF having = {} THEN {NotFound}
       ELSE walk(dirs[CHOOSE i \in having : \A j \in having : i <= j], id)

\* exec(action): the group's Exec.
ExecLine(entry, action) == IF action = "" THEN entry.exec ELSE entry.groups[action].exec

\* check_basic's demands on an action: listed, with a group, a name, an Exec.
ActionUsable(entry, action) ==
    /\ action \in entry.actions
    /\ action \in DOMAIN entry.groups
    /\ entry.groups[action].named
    /\ entry.groups[action].exec # <<>>

check_basic(entry, action, executables) ==
    /\ entry.type = "Application"
    /\ entry.named
    /\ ~entry.hidden
    /\ entry.tryexec = "" \/ entry.tryexec \in executables
    /\ action = "" \/ ActionUsable(entry, action)
    /\ ExecLine(entry, action) # <<>>
    /\ ExecLine(entry, action)[1] \in executables

\* check_showin: OnlyShowIn names this desktop, NotShowIn does not.
check_showin(entry, xcd) ==
    /\ entry.onlyShowIn = {} \/ entry.onlyShowIn \cap xcd # {}
    /\ entry.notShowIn \cap xcd = {}
=============================================================================
