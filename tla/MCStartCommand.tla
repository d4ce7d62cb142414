--------------------------- MODULE MCStartCommand ---------------------------
(***************************************************************************)
(* Compositors in every form start accepts, and the options and login      *)
(* environments that take the branches of check, start and prepare-env;    *)
(* with words and names that do not come back from a drop-in as they were: *)
(* a specifier in a path, an argument or a name, and a bad escape.         *)
(***************************************************************************)
EXTENDS StartCommand, TLC

MCVts == {0, 1, 2}

MCCheckOpts ==
    { [no_login |-> l, vtnr |-> v, allow_remote |-> r, gst |-> g, verbose |-> b] :
        l \in BOOLEAN, v \in {{0}, {1}, {0, 2}}, r \in BOOLEAN, g \in BOOLEAN, b \in BOOLEAN }

\* A word with a bad escape, one with a specifier, and a path with one.
Bad     == Word("-\\")
Homely  == Word("-%h")
InHome  == [Absolute("wm") EXCEPT !.dir = "%h"]

\* A session entry: its Exec, an action's Exec, its desktop names.
Session(exec, action, names) ==
    [exists |-> TRUE, valid |-> TRUE, exec |-> exec,
     actions |-> "debug" :> action, names |-> names]

MCSessions ==
    "plain"   :> Session(<<Word("wm")>>, <<Word("wm"), Word("-d")>>, <<"WM">>)
 @@ "args"    :> Session(<<Word("wm"), Word("-x")>>, <<Word("wm")>>, <<>>)
 @@ "full"    :> Session(<<Absolute("wm"), Word("-x")>>, <<Absolute("wm")>>, <<"WM", "X">>)
 @@ "odd"     :> Session(<<Absolute("o d d")>>, <<Word("o d d")>>, <<"WM">>)
 @@ "hidden"  :> [Session(<<Word("wm")>>, <<Word("wm")>>, <<>>) EXCEPT !.valid = FALSE]
 @@ "other"   :> Session(<<Word("wm")>>, <<Word("wm2")>>, <<>>)
 @@ "colon"   :> Session(<<Word("wm"), Bad>>, <<Word("wm")>>, <<"A:B", "A">>)
 @@ "dash"    :> Session(<<Word("wm")>>, <<Word("wm2")>>, <<"-n">>)
 @@ "bare"    :> Session(<<>>, <<Word("wm")>>, <<"WM">>)
 @@ "nested"  :> Session(<<[Absolute("plain") EXCEPT !.entry = TRUE]>>, <<Word("wm")>>, <<"WM">>)

\* The arguments that a command line can end with, and the lines with one of
\* these words in them.
MCRests == {<<>>, <<Word("-y")>>, <<Blank>>, <<Blank, Homely>>}

MCAltered ==
    [ l \in { <<first, Bad>> \o rest : first \in {Blank, Absolute("wm")}, rest \in MCRests } |->
        NotRead ]
 @@ [ l \in { <<first>> \o args \o <<Blank, Homely>> :
                first \in {Blank, Absolute("wm")}, args \in {<<>>, <<Word("-x")>>} } |->
        SubSeq(l, 1, Len(l) - 1) \o <<Word("-/home")>> ]
 @@ [ l \in { <<InHome>> \o rest : rest \in MCRests } |->
        <<[InHome EXCEPT !.dir = "/home"]>>
            \o IF Len(l) = 3 THEN <<Blank, Word("-/home")>> ELSE Tail(l) ]

MCParts == "A:B" :> <<"A", "B">>

\* The lists of names with a home directory in them, or that look like an option.
MCCliNames == {<<>>, <<"N">>, <<"%h">>, <<"", "">>}
MCEnvNames == {<<>>, <<"N", "D">>}

MCAlteredNames ==
    <<"-n">> :> NotRead
 @@ [ l \in { x \o <<"%h">> \o s : x \in MCEnvNames,
                                  s \in {<<>>, <<"WM">>, <<"WM", "X">>, <<"-n">>, <<"F">>} } |->
        [i \in DOMAIN l |-> IF l[i] = "%h" THEN "/home" ELSE l[i]] ]
 @@ [ l \in { x \o <<"%h", "A:B", "A">> : x \in MCEnvNames } |->
        SubSeq(l, 1, Len(l) - 3) \o <<"/home", "A", "B", "A">> ]

MCFiles ==
    "mine" :> Session(<<Absolute("wm")>>, <<Word("wm")>>, <<>>)
 @@ "near" :> Session(<<Word("wm")>>, <<Word("wm")>>, <<"F">>)

MCFirstWords ==
    { Word("wm"), Word("lost"), Word("o d d"), Absolute("wm"), InHome, Relative("wm"),
      EntryWord("plain"), EntryWord("args"), EntryWord("full"), EntryWord("hidden"),
      EntryWord("none"), EntryWord("odd"), EntryWord("nested"), EntryWord("colon"),
      EntryWord("dash") }
    \cup { [EntryWord(b) EXCEPT !.action = "debug"] : b \in {"odd", "args", "other", "bare"} }
    \cup { [EntryWord(b) EXCEPT !.at = "abs"] : b \in {"mine", "near"} }

MCInputsWith(rests, names) ==
    { [cmdline |-> <<w>> \o rest, names |-> n, exclusive |-> e, xcd |-> x] :
        w \in MCFirstWords, rest \in rests, n \in names, e \in BOOLEAN, x \in MCEnvNames }

\* The arguments and the names that come back as they are with each other, and
\* each of the others with the simplest ones.
MCInputs ==
    MCInputsWith({<<>>, <<Word("-y")>>}, {<<>>, <<"N">>})
    \cup MCInputsWith({<<>>}, MCCliNames)
    \cup MCInputsWith(MCRests, {<<>>})

DefaultMode == [dry_run |-> FALSE, only_generate |-> FALSE, hardcode |-> FALSE,
                warn |-> 60, abort |-> -1]

MCModes ==
    { [DefaultMode EXCEPT !.dry_run = d, !.only_generate = o, !.hardcode = h, !.warn = w, !.abort = a] :
        d \in BOOLEAN, o \in BOOLEAN, h \in BOOLEAN, w \in {-1, 60}, a \in {-1, 0} }

MCLogins ==
    { [sid |-> "s1", seat |-> "seat0", vt |-> 1], [sid |-> "s2", seat |-> "seat1", vt |-> 2] }

FullLogin == [sid |-> "s1", seat |-> "seat0", vt |-> 1]

\* Every input with the default options and with -F, and the simplest input
\* with every option and every part of the login environment missing.
MCStarts ==
    { [input |-> i, mode |-> [DefaultMode EXCEPT !.hardcode = h], env |-> FullLogin] :
        i \in MCInputs, h \in BOOLEAN }
    \cup
    { [input |-> [cmdline |-> <<Word("wm")>>, names |-> <<>>, exclusive |-> FALSE, xcd |-> <<>>],
       mode |-> m, env |-> [FullLogin EXCEPT !.seat = t, !.sid = s, !.vt = v]] :
        m \in MCModes, t \in {"", "seat0"}, s \in {"", "s1"}, v \in {0, 1} }

MCXcds == { <<>>, <<"GNOME">> }
=============================================================================
