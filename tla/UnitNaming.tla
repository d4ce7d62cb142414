----------------------------- MODULE UnitNaming -----------------------------
(***************************************************************************)
(* Automatic unit names (src/app/naming.rs).  What matters of a name is    *)
(* how many bytes it has and where it can be cut: an escaped name is a run *)
(* of plain characters, a run of \xHH escapes of four bytes, and a run of  *)
(* plain characters again.                                                 *)
(***************************************************************************)
EXTENDS Naturals, Integers

Name == [pre : Nat, esc : Nat, post : Nat]

Width(n) == n.pre + 4 * n.esc + n.post

Least(a, b) == IF a <= b THEN a ELSE b

\* Mutant: the cut may go through an escape, which is then written in full.
Cut_Inside(n, max) ==
    LET p == Least(n.pre, max)
        e == IF p < n.pre THEN 0 ELSE Least(n.esc, (max - p + 3) \div 4)
        q == IF p < n.pre \/ e < n.esc THEN 0 ELSE Least(n.post, max - p - 4 * e)
    IN [pre |-> p, esc |-> e, post |-> q]

\* The loop: the first token that does not fit ends it.
Cut(n, max) ==
    LET p == Least(n.pre, max)
        e == IF p < n.pre THEN 0 ELSE Least(n.esc, (max - p) \div 4)
        q == IF p < n.pre \/ e < n.esc THEN 0 ELSE Least(n.post, max - p - 4 * e)
    IN [pre |-> p, esc |-> e, post |-> q]

truncate_escaped(n, max) == IF Width(n) <= max THEN n ELSE Cut(n, max)

\* "app---DEADBEEF." and the type: the dashes, the random part, the suffix.
l_static(type) == 15 + (IF type = "scope" THEN 5 ELSE 7)

desktop_sub(type, desktop) ==
    IF l_static(type) + Width(desktop) > 127
    THEN truncate_escaped(desktop, 127 - l_static(type)) ELSE desktop

cmd_sub(type, desktop, app) ==
    LET used == l_static(type) + Width(desktop_sub(type, desktop))
    IN IF used + Width(app) > 255 THEN truncate_escaped(app, 255 - used) ELSE app

\* The bytes of auto_unit_name.
auto_unit_name(type, desktop, app) ==
    l_static(type) + Width(desktop_sub(type, desktop)) + Width(cmd_sub(type, desktop, app))
=============================================================================
