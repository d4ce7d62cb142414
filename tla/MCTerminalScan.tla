--------------------------- MODULE MCTerminalScan ---------------------------
(***************************************************************************)
(* Two places for entry files, in the user's and the system's directory.   *)
(***************************************************************************)
EXTENDS TerminalScan, TLC

Entry(categories, exec) ==
    [kind |-> "entry", type |-> "Application", named |-> TRUE, hidden |-> FALSE, tryexec |-> "",
     actions |-> {}, exec |-> <<exec>>, groups |-> <<>>, categories |-> categories,
     onlyShowIn |-> {}, notShowIn |-> {}, keys |-> "Title" :> "--title="]

Editor == Entry({"Utility"}, "sh")
Term   == Entry({"TerminalEmulator"}, "foot")

\* A terminal for another desktop only, with a key in its X- form.
Foreign == [Term EXCEPT !.onlyShowIn = {"other"}, !.keys = "X-Exec" :> "\\"]

MCContents == {Editor, Term, Foreign, Malformed}
MCEdits == {Term, Gone}

MCPaths == {"own", "sys"}
MCDir == "own" :> 1 @@ "sys" :> 2
MCId == "own" :> "a.desktop" @@ "sys" :> "b.desktop"

File(c, t) == [content |-> c, mtime |-> t]
MCStarts == { "own" :> File(Editor, 1) @@ "sys" :> File(Editor, 2),
              "own" :> File(Malformed, 1) @@ "sys" :> File(Foreign, 2) }

Line(sign, id) == [sign |-> sign, id |-> id, action |-> ""]
MCLists ==
    { <<>>,
      <<Line("-", "b.desktop"), Line("", "a.desktop"), Line("+", "b.desktop"),
        Line("-", "a.desktop"), Line("-", "b.desktop")>> }

NoOpts == [appId |-> "", title |-> "", dir |-> "", hold |-> FALSE]
MCOpts == {[NoOpts EXCEPT !.title = "t"]}

MCPrograms == {{"sh"}, {"sh", "foot"}}

Symmetric == Permutations(Scanners)
=============================================================================
