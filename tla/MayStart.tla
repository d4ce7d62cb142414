------------------------------ MODULE MayStart ------------------------------
(***************************************************************************)
(* wsmr check may-start (src/session/check.rs, src/main.rs): the login     *)
(* shell asks whether it may become a graphical session.  One action per   *)
(* probe, in the code's order, with the early returns; a probe answers     *)
(* with whatever the system is like at that moment, or with an error.      *)
(***************************************************************************)
EXTENDS Naturals, FiniteSets

CONSTANTS
    CheckOpts,   \* the option sets to try
    Vts,         \* VT numbers, 0 for a session without a VT
    Err,         \* a probe failed
    Unasked      \* a probe was not made

ASSUME MayStartAssumption ==
    /\ Vts \subseteq Nat
    /\ CheckOpts \subseteq [no_login : BOOLEAN, vtnr : SUBSET Nat, allow_remote : BOOLEAN,
                            gst : BOOLEAN, verbose : BOOLEAN]
    /\ Err \notin BOOLEAN \cup Nat
    /\ Unasked \notin BOOLEAN \cup Nat \cup {Err}

Probes == {"root", "dbus", "login", "active", "fgvt", "sid", "system",
           "vtnr", "remote", "gst"}

VARIABLES
    copts,       \* the options of the check that is running
    probe,       \* the next probe, or "end"
    answer,      \* what each probe said; read by the properties
    errors,      \* verdict.errors, the probes that gave rise to one
    visible,     \* verdict.visible
    silent,      \* verdict.silent
    sysbus,      \* SysProbes.sysbus is Some
    checkExit    \* "running", or the exit status

checkVars == <<copts, probe, answer, errors, visible, silent, sysbus, checkExit>>

vt_checks == copts.vtnr # {0}

\* Mutant: the connection is forgotten for a check of remoteness alone.
need_system_NotForRemote == vt_checks \/ copts.gst

need_system == vt_checks \/ ~copts.allow_remote \/ copts.gst

\* The order of the checks that the options ask for.
Enabled(p) ==
    CASE p = "login"            -> ~copts.no_login
      [] p \in {"fgvt", "vtnr"} -> vt_checks
      [] p = "system"           -> need_system
      [] p = "remote"           -> ~copts.allow_remote
      [] p = "gst"              -> copts.gst
      [] OTHER                  -> TRUE

Order == <<"root", "dbus", "login", "active", "fgvt", "sid", "system", "vtnr", "remote", "gst">>

After(p) ==
    LET later == {i \in DOMAIN Order : (\E j \in 1..(i - 1) : Order[j] = p) /\ Enabled(Order[i])}
    IN IF later = {} THEN "end" ELSE Order[CHOOSE i \in later : \A k \in later : i <= k]

-----------------------------------------------------------------------------
(* What a probe's answer leads to: on to the next, a reason noted (which   *)
(* ends a check that is not verbose), or the end.                          *)

Ask(p, a) == probe = p /\ answer' = [answer EXCEPT ![p] = a]

Pass(p) == probe' = After(p) /\ UNCHANGED <<errors, visible, silent>>

Dealbreaker(p, quietly) ==
    /\ silent'  = IF quietly THEN silent \cup {p} ELSE silent
    /\ visible' = IF quietly THEN visible ELSE visible \cup {p}
    /\ probe' = IF copts.verbose THEN After(p) ELSE "end"
    /\ UNCHANGED errors

Stop(p) == silent' = silent \cup {p} /\ probe' = "end" /\ UNCHANGED <<errors, visible>>

Fatal(p) == errors' = errors \cup {p} /\ probe' = "end" /\ UNCHANGED <<visible, silent>>

Rest == UNCHANGED <<copts, sysbus, checkExit>>

IsRoot ==
    \E a \in BOOLEAN : Ask("root", a) /\ (IF a THEN Stop("root") ELSE Pass("root")) /\ Rest

DbusSessionPresent ==
    \E a \in BOOLEAN : Ask("dbus", a) /\ (IF a THEN Pass("dbus") ELSE Stop("dbus")) /\ Rest

\* TRUE: the parent's command line begins with a dash.
ParentCmdline ==
    \E a \in BOOLEAN \cup {Err} :
        /\ Ask("login", a)
        /\ CASE a = TRUE  -> Pass("login")
             [] a = FALSE -> Dealbreaker("login", TRUE)
             [] a = Err   -> Fatal("login")
        /\ Rest

CompositorActive ==
    \E a \in BOOLEAN \cup {Err} :
        /\ Ask("active", a)
        /\ CASE a = FALSE -> Pass("active")
             [] a = TRUE  -> Dealbreaker("active", FALSE)
             [] a = Err   -> Fatal("active")
        /\ Rest

\* Mutant: a foreground VT that cannot be read is let through.
ForegroundVt_ErrorPasses ==
    \E a \in (Vts \ {0}) \cup {Err} :
        /\ Ask("fgvt", a)
        /\ IF a = Err \/ a \in copts.vtnr THEN Pass("fgvt") ELSE Dealbreaker("fgvt", TRUE)
        /\ Rest

\* An error is a dealbreaker like a foreign VT, not an error of the check.
ForegroundVt ==
    \E a \in (Vts \ {0}) \cup {Err} :
        /\ Ask("fgvt", a)
        /\ IF a \in copts.vtnr THEN Pass("fgvt") ELSE Dealbreaker("fgvt", TRUE)
        /\ Rest

\* XDG_SESSION_ID; TRUE: it is set.
SessionId ==
    \E a \in BOOLEAN : Ask("sid", a) /\ Pass("sid") /\ Rest

ConnectSystem ==
    \E a \in {TRUE, Err} :
        /\ Ask("system", a)
        /\ IF a = Err THEN Fatal("system") ELSE Pass("system")
        /\ sysbus' = (a = TRUE)
        /\ UNCHANGED <<copts, checkExit>>

\* Without a session id there is nothing to ask logind about.
NoSessionId(p) ==
    /\ probe = p
    /\ answer["sid"] = FALSE
    /\ Dealbreaker(p, TRUE)
    /\ UNCHANGED answer
    /\ Rest

SessionVtnr ==
    \/ NoSessionId("vtnr")
    \/ /\ answer["sid"] = TRUE
       /\ sysbus
       /\ \E a \in Vts \cup {Err} :
             /\ Ask("vtnr", a)
             /\ CASE a = Err                    -> Fatal("vtnr")
                  [] a # 0 /\ a \in copts.vtnr  -> Pass("vtnr")
                  [] OTHER                      -> Dealbreaker("vtnr", TRUE)
       /\ Rest

SessionRemote ==
    \/ NoSessionId("remote")
    \/ /\ answer["sid"] = TRUE
       /\ sysbus
       /\ \E a \in BOOLEAN \cup {Err} :
             /\ Ask("remote", a)
             /\ CASE a = FALSE -> Pass("remote")
                  [] a = TRUE  -> Dealbreaker("remote", TRUE)
                  [] a = Err   -> Fatal("remote")
       /\ Rest

\* TRUE: graphical.target is active or activating before the time is up.
GraphicalTargetReached ==
    /\ sysbus
    /\ \E a \in BOOLEAN \cup {Err} :
          /\ Ask("gst", a)
          /\ CASE a = TRUE  -> Pass("gst")
               [] a = FALSE -> Dealbreaker("gst", TRUE)
               [] a = Err   -> Fatal("gst")
    /\ Rest

\* main: exit 0 when the verdict is empty, exit 1 otherwise.
Conclude ==
    /\ probe = "end"
    /\ checkExit = "running"
    /\ checkExit' = IF errors \cup visible \cup silent = {} THEN "0" ELSE "1"
    /\ UNCHANGED <<copts, probe, answer, errors, visible, silent, sysbus>>

CheckInit ==
    /\ copts \in CheckOpts
    /\ probe = "root"
    /\ answer = [p \in Probes |-> Unasked]
    /\ errors = {}
    /\ visible = {}
    /\ silent = {}
    /\ sysbus = FALSE
    /\ checkExit = "running"

CheckNext ==
    \/ IsRoot
    \/ DbusSessionPresent
    \/ ParentCmdline
    \/ CompositorActive
    \/ ForegroundVt
    \/ SessionId
    \/ ConnectSystem
    \/ SessionVtnr
    \/ SessionRemote
    \/ GraphicalTargetReached
    \/ Conclude

-----------------------------------------------------------------------------
(* Properties.                                                             *)

\* The answer each requirement needs.
Favourable(p) ==
    CASE p = "root"          -> {FALSE}
      [] p \in {"dbus", "login", "gst", "system"} -> {TRUE}
      [] p = "active"        -> {FALSE}
      [] p = "fgvt"          -> copts.vtnr
      [] p = "vtnr"          -> copts.vtnr \ {0}
      [] p = "remote"        -> {FALSE}
      [] OTHER               -> {TRUE, FALSE}

Requirements ==
    {"root", "dbus", "active"}
    \cup (IF copts.no_login THEN {} ELSE {"login"})
    \cup (IF copts.vtnr = {0} THEN {} ELSE {"fgvt", "vtnr"})
    \cup (IF copts.allow_remote THEN {} ELSE {"remote"})
    \cup (IF copts.gst THEN {"gst"} ELSE {})

\* may-start says yes only when every requirement the options leave in force
\* was put to the system and answered favourably: neither an error of a probe,
\* nor an early return, nor a missing session id is ever taken for consent.  And
\* it says no only for a reason: some requirement was answered otherwise, or
\* could not be put at all.
VerdictJustified ==
    /\ checkExit = "0" => \A p \in Requirements : answer[p] \in Favourable(p)
    /\ checkExit = "1" =>
          \/ \E p \in Requirements \cup {"system"} : answer[p] \notin Favourable(p) \cup {Unasked}
          \/ answer["sid"] = FALSE /\ Requirements \cap {"vtnr", "remote"} # {}

\* No probe uses a system bus that was not connected, which would be a panic:
\* check_may_start_with connects for exactly the checks that will use it.
ProbesConnected ==
    (probe = "gst" \/ (probe \in {"vtnr", "remote"} /\ answer["sid"] = TRUE)) => sysbus
=============================================================================
