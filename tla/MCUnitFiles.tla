----------------------------- MODULE MCUnitFiles -----------------------------
(***************************************************************************)
(* A small instance of UnitFiles.  The graph unit changes with the binary  *)
(* (v1, v2); a drop-in is wanted or not.  Somebody else writes v2 too:     *)
(* foreign content in a drop-in and, in the graph unit, content that a     *)
(* start may find already right without having written it.                 *)
(***************************************************************************)
EXTENDS UnitFiles, TLC

\* One graph unit, one compositor drop-in and one tweak.
U(unit, custom, tweak) ==
    "wm.service" :> unit @@ "wm.d/50_custom.conf" :> custom @@ "slice-tweak.conf" :> tweak

OneCompositor ==
    { U("v1", "v1", "v1"), U("v2", NoFile, "v1") }

\* stop -r, stop -r tweaks.
AllOrTweaks == { Dropins, {"slice-tweak.conf"} }
=============================================================================
