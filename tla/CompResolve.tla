----------------------------- MODULE CompResolve -----------------------------
(***************************************************************************)
(* Which command is the compositor (src/comp.rs), and how what start found *)
(* out survives the trip through the generated drop-ins: start resolves    *)
(* its command line once, writes what the units cannot know by themselves  *)
(* into 50_custom.conf (src/units/templates.rs), and aux exec and aux      *)
(* prepare-env resolve again from %I and those arguments (src/main.rs).    *)
(*                                                                         *)
(* A word is a record: its last path component, whether it is bare, an     *)
(* absolute or a relative path and in which directory (AnyDir, unless it   *)
(* matters), whether it has the form of a desktop entry (the .desktop      *)
(* suffix belongs to base), and the action after the colon.                *)
(*                                                                         *)
(* The drop-ins are text.  UnitText has the quoting character by           *)
(* character, and shows which lines systemd splits into the words they     *)
(* were joined from; what it makes of the others, and of a % or a $ in a   *)
(* word, is the constants Altered and AlteredNames here.                   *)
(***************************************************************************)
EXTENDS Naturals, Sequences, SequencesExt

CONSTANTS
    Sessions,      \* the entries under wayland-sessions, by id
    EntryFiles,    \* the entries that exist as files of their own, by basename
    OnPath,        \* the names that which() finds an executable for
    OddNames,      \* names with a character that is_wm_id does not allow
    Altered,       \* the words that come back from an ExecStart line, where not the same
    AlteredNames,  \* the names that come back from an argument, where not the same
    Parts,         \* for the names that have a colon in them: what split(':') makes of them
    NotRead        \* of a line that systemd, or the parser of aux, does not accept

NoAction == ""
AnyDir   == "anywhere"
Failed == [ok |-> FALSE]

Words ==
    { w \in [base : STRING, dir : STRING \cup {AnyDir}, at : {"bare", "abs", "rel"},
             entry : BOOLEAN, action : STRING \cup {NoAction}] : w.at = "bare" => w.dir = AnyDir }

\* What the parser makes of an entry: command lines and desktop names.
ASSUME SessionEntriesAssumption ==
    \A from \in {Sessions, EntryFiles} : \A id \in DOMAIN from :
        /\ from[id].exec \in Seq(Words)
        /\ \A a \in DOMAIN from[id].actions : from[id].actions[a] \in Seq(Words)
        /\ from[id].names \in Seq(STRING)

Word(base) ==
    [base |-> base, dir |-> AnyDir, at |-> "bare", entry |-> FALSE, action |-> NoAction]
Absolute(base)      == [Word(base) EXCEPT !.at = "abs"]
Relative(base)      == [Word(base) EXCEPT !.at = "rel"]
EntryWord(base)     == [Word(base) EXCEPT !.entry = TRUE]

\* dedup_preserving: the first of equal names stays.
Dedup(names) ==
    FoldLeft(LAMBDA kept, n : IF Contains(kept, n) THEN kept ELSE Append(kept, n), <<>>, names)

\* resolve_entry's lookup: the file of the given path, else the first match
\* among the wayland-sessions directories.  NoEntry when there is none.
NoEntry == [exists |-> FALSE]

EntryOf(word) ==
    LET from == IF word.at = "bare" THEN Sessions ELSE EntryFiles
    IN IF word.base \in DOMAIN from THEN from[word.base] ELSE NoEntry

\* entry.check_basic and entry.exec: the action, if one is asked for, has to
\* be listed and to have a group of its own, and there has to be a command.
ExecOf(entry, action) ==
    IF action = NoAction THEN entry.exec ELSE entry.actions[action]

EntryUsable(entry, action) ==
    /\ entry.exists
    /\ entry.valid
    /\ action = NoAction \/ action \in DOMAIN entry.actions
    /\ ExecOf(entry, action) # <<>>

\* The merge of desktop names, with the binary's name where nothing is left.
MergeNames(input, bin, entryNames) ==
    LET merged == input.xcd \o input.names \o entryNames
    IN Dedup(IF input.exclusive THEN input.names
             ELSE IF merged = <<>> THEN <<bin>> ELSE merged)

is_wm_id(base) == base # "" /\ base \notin OddNames

Resolved(input, cmdline, id, entryNames) ==
    IF ~is_wm_id(id) THEN Failed ELSE
    [ok |-> TRUE, cmdline |-> cmdline, id |-> id, bin |-> cmdline[1].base,
     names |-> MergeNames(input, cmdline[1].base, entryNames),
     cliNames |-> input.names, exclusive |-> input.exclusive]

\* The entry's Exec, then what follows the entry on the command line; the id is
\* the entry's, without its directory and without its action.
resolve_entry(input) ==
    LET word  == Head(input.cmdline)
        entry == EntryOf(word)
    IN IF ~EntryUsable(entry, word.action) THEN Failed
       ELSE Resolved(input, ExecOf(entry, word.action) \o Tail(input.cmdline),
                     word.base, entry.names)

\* CompGlobals::resolve.
resolve(input) ==
    IF input.cmdline = <<>> THEN Failed
    ELSE IF Head(input.cmdline).entry THEN resolve_entry(input)
    ELSE Resolved(input, input.cmdline, Head(input.cmdline).base, <<>>)

\* start -F: an absolute path is taken as it is; which() finds a bare name on
\* PATH, and leaves a path with a slash in it as it is if there is such a file.
apply_hardcode(comp, hardcode) ==
    LET first == comp.cmdline[1]
    IN IF ~comp.ok THEN Failed
       ELSE IF ~hardcode \/ first.at = "abs" THEN comp
       ELSE IF first.base \notin OnPath THEN Failed
       ELSE IF first.at = "rel" THEN comp
       ELSE [comp EXCEPT !.cmdline[1] = [first EXCEPT !.at = "abs"]]

-----------------------------------------------------------------------------
(* The drop-ins, as the arguments their ExecStart hands to aux.            *)

first_is_absolute(comp) == comp.cmdline[1].at = "abs"

\* An empty first word: resolve_aux puts the id there.
Blank == Word("")

\* prepare-env [-eD names | -D names] -- %I [arg0]
preloader_dropin(comp) ==
    [names     |-> IF comp.exclusive THEN comp.cliNames
                   ELSE IF comp.names # <<comp.bin>> THEN comp.names ELSE <<>>,
     exclusive |-> comp.exclusive,
     cmdline   |-> IF first_is_absolute(comp) THEN <<comp.cmdline[1]>> ELSE <<>>]

\* Mutant: the whole command line only when it has arguments of its own.
service_dropin_ArgsOnly(comp) ==
    IF Len(comp.cmdline) > 1 THEN <<Blank>> \o Tail(comp.cmdline) ELSE <<>>

\* aux exec -- %I [arg0 args | "" args]; build_dropins takes as cli_args what
\* the resolved command line has after its first word.
service_dropin(comp) ==
    IF first_is_absolute(comp) THEN comp.cmdline
    ELSE IF Tail(comp.cmdline) # <<>> THEN <<Blank>> \o Tail(comp.cmdline)
    ELSE <<>>

ASSUME TextAssumption ==
    /\ <<>> \notin DOMAIN Altered /\ <<>> \notin DOMAIN AlteredNames
    /\ \A l \in DOMAIN Altered : Altered[l] # NotRead => Altered[l] \in Seq(Words)
    /\ \A l \in DOMAIN AlteredNames : AlteredNames[l] # NotRead => AlteredNames[l] \in Seq(STRING)
    /\ \A n \in DOMAIN Parts : Parts[n] \in Seq(STRING)

\* exec_override joins these words into the text of an ExecStart line, and
\* systemd makes the arguments of aux of it: other words where there is a
\* specifier or a variable in one, and none that can be started where it cannot
\* make sense of a backslash.
LineUntouched(words) == words \notin DOMAIN Altered
LineRefused(words)   == ~LineUntouched(words) /\ Altered[words] = NotRead
LineRead(words)      == IF LineUntouched(words) THEN words ELSE Altered[words]

\* The names are one argument, joined with ':', and aux splits it again: none
\* of a name that is empty, more than one of a name with a colon in it.
NamesUntouched(names) ==
    /\ names \notin DOMAIN AlteredNames
    /\ names # <<"">>
    /\ \A i \in DOMAIN names : names[i] \notin DOMAIN Parts

NamesRefused(names) == names \in DOMAIN AlteredNames /\ AlteredNames[names] = NotRead

NamesRead(names) ==
    IF NamesUntouched(names) THEN names
    ELSE IF names \in DOMAIN AlteredNames THEN AlteredNames[names]
    ELSE IF names = <<"">> THEN <<>>
    ELSE FlattenSeq([i \in DOMAIN names |->
             IF names[i] \in DOMAIN Parts THEN Parts[names[i]] ELSE <<names[i]>>])

\* systemd replaces %I by the unescaped instance name, which is the id again
\* (EscapeIsUndone in UnitText; what is_wm_id allows has no $ in it): the suffix
\* tells whether it is classified as an entry.
InstanceWord(comp, entry) == [Word(comp.id) EXCEPT !.entry = entry]

\* resolve_aux: no command line, or one whose first word is empty, means the id.
resolve_aux(id, cmdline, names, exclusive, xcd) ==
    resolve([cmdline   |-> IF cmdline = <<>> THEN <<id>>
                           ELSE IF cmdline[1] = Blank THEN <<id>> \o Tail(cmdline)
                           ELSE cmdline,
             names     |-> names,
             exclusive |-> exclusive,
             xcd       |-> xcd])

\* A service that is started with these words on its line.
Served(id, line, names, exclusive, xcd) ==
    IF LineRefused(line) \/ NamesRefused(names) THEN Failed
    ELSE resolve_aux(id, LineRead(line), NamesRead(names), exclusive, xcd)

\* What aux exec runs, and the desktop names prepare-env exports, for a
\* session that start resolved as comp; xcd is what the user manager has as
\* XDG_CURRENT_DESKTOP by then.
ExecutedAs(comp, entry) ==
    Served(InstanceWord(comp, entry), service_dropin(comp), <<>>, FALSE, <<>>)

PreparedAs(comp, entry, xcd) ==
    LET drop == preloader_dropin(comp)
    IN Served(InstanceWord(comp, entry), drop.cmdline, drop.names, drop.exclusive, xcd)
=============================================================================
