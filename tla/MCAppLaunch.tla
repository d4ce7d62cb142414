---------------------------- MODULE MCAppLaunch ----------------------------
(***************************************************************************)
(* Entries with every kind of field code in their Exec, in two data        *)
(* directories that shadow each other, and requests for each of them.      *)
(***************************************************************************)
EXTENDS AppLaunch, TLC

Tok(fields, alone, pct) == [fields |-> fields, alone |-> alone, pct |-> pct]
Code(l)  == Tok(<<l>>, TRUE, FALSE)
Inside(l) == Tok(<<l>>, FALSE, FALSE)
Text     == Tok(<<>>, FALSE, FALSE)

Entry(rest) ==
    [kind |-> "entry", type |-> "Application", named |-> TRUE, hidden |-> FALSE, tryexec |-> "",
     actions |-> {"act", "bare"}, exec |-> <<"app">> \o rest, terminal |-> FALSE, icon |-> TRUE,
     groups |-> "act" :> [named |-> TRUE, exec |-> <<"app", Code("f")>>]
             @@ "bare" :> [named |-> FALSE, exec |-> <<"app">>],
     onlyShowIn |-> {}, notShowIn |-> {}]

\* Exec lines: at most three tokens, among them one or two of the field codes.
Tokens ==
    { Code(l) : l \in {"f", "F", "u", "U", "c", "k", "i", "n"} }
    \cup { Inside(l) : l \in {"f", "F", "u", "U"} }
    \cup { Text, Tok(<<>>, FALSE, TRUE), Tok(<<"f", "u">>, FALSE, FALSE) }

ExecLines == { <<>> } \cup { <<t>> : t \in Tokens } \cup { <<Text, t>> : t \in Tokens }
             \cup { <<Code("i"), s, t>> : s \in {Code("f"), Code("U"), Text}, t \in Tokens }

File(id, file) == [id |-> id, listed |-> TRUE, file |-> file]

\* The entries of the system; the user has hidden one and broken another, has
\* one of the same id in a subdirectory, one in a subdirectory that cannot be
\* listed, and one that asks for a terminal.
MCDataDirs ==
    << { File("hide", [Entry(<<>>) EXCEPT !.hidden = TRUE]),
         File("torn", Malformed),
         File("locked", Unreadable),
         [File("shut", [Entry(<<>>) EXCEPT !.hidden = TRUE]) EXCEPT !.listed = FALSE],
         File("twin", Entry(<<Code("f")>>)),
         File("twin", Entry(<<Code("F")>>)) },
       { File(i, Entry(<<Code("F")>>)) : i \in {"hide", "torn", "locked", "shut", "twin"} }
       \cup { File("term", [Entry(<<>>) EXCEPT !.terminal = TRUE]),
              File("link", [Entry(<<>>) EXCEPT !.type = "Link"]),
              File("try", [Entry(<<>>) EXCEPT !.tryexec = "lost"]) } >>

MCShapes ==
    [ i \in {"hide", "torn", "locked", "shut", "twin", "term", "link", "try", "app", "lost", "mine", "absent"} |->
        [pre |-> 5, esc |-> 0, post |-> 0] ]
 @@ "terminal" :> [pre |-> 8, esc |-> 0, post |-> 0]
 @@ "long"     :> [pre |-> 3, esc |-> 61, post |-> 40]
 @@ "edge"     :> [pre |-> 231, esc |-> 0, post |-> 0]
 @@ "over"     :> [pre |-> 400, esc |-> 1, post |-> 0]

MCDesktops ==
    { [pre |-> 4, esc |-> 0, post |-> 0], [pre |-> 2, esc |-> 30, post |-> 0],
      [pre |-> 104, esc |-> 2, post |-> 9] }

Plainly ==
    [kind |-> "entry", target |-> "mine", path |-> None, action |-> "", args |-> <<>>,
     terminal |-> FALSE, type |-> "scope", app |-> "", hint |-> "", unit |-> None,
     slice |-> "a", propertiesOk |-> TRUE]

\* By path, with every Exec and none, one or two arguments, or one twice.
PathRequests ==
    { [Plainly EXCEPT !.path = Entry(x), !.args = a] :
        x \in ExecLines, a \in {<<>>, <<"one">>, <<"one", "http:two">>, <<"one", "one">>} }

IdRequests ==
    { [Plainly EXCEPT !.target = i, !.args = a] :
        i \in {"hide", "torn", "locked", "shut", "twin", "term", "link", "try", "absent"},
        a \in {<<>>, <<"one", "two">>} }

ActionRequests ==
    { [Plainly EXCEPT !.target = "twin", !.action = x, !.args = <<"one">>] : x \in {"act", "bare", "none"} }

CommandRequests ==
    { [Plainly EXCEPT !.kind = "command", !.target = t, !.args = a, !.hint = h] :
        t \in {"app", "lost"}, a \in {<<>>, <<"one", "two">>}, h \in {"", "long"} }
    \cup { [Plainly EXCEPT !.kind = "nothing", !.terminal = t] : t \in BOOLEAN }

\* Names and other options, for one instance and for two.
OptionRequests ==
    { [Plainly EXCEPT !.target = "twin", !.args = a, !.type = t, !.app = n, !.unit = u] :
        a \in {<<"one">>, <<"one", "two">>}, t \in {"scope", "service"}, n \in {"long", "edge", "over"},
        u \in { None, [kind |-> "unit", len |-> 255, suffixOk |-> TRUE],
                [kind |-> "unit", len |-> 256, suffixOk |-> TRUE],
                [kind |-> "unit", len |-> 9, suffixOk |-> FALSE] } }
    \cup { [Plainly EXCEPT !.target = "twin", !.slice = "x"],
           [Plainly EXCEPT !.target = "twin", !.propertiesOk = FALSE] }

MCRequests == PathRequests \cup IdRequests \cup ActionRequests \cup CommandRequests \cup OptionRequests
=============================================================================
