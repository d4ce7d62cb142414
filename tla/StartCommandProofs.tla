------------------------- MODULE StartCommandProofs -------------------------
(***************************************************************************)
(* What wsmr check may-start and wsmr start guarantee for every set of     *)
(* options, login environments and VTs, and what the units make of a       *)
(* compositor that start resolved, for any sessions and command lines.     *)
(***************************************************************************)
EXTENDS StartCommand, TLAPS, WellFoundedInduction

-----------------------------------------------------------------------------
(* The order of the probes.                                                *)

\* The place of a probe in Order; "end" comes after all of them.
Rank(p) ==
    CASE p = "root"   -> 1
      [] p = "dbus"   -> 2
      [] p = "login"  -> 3
      [] p = "active" -> 4
      [] p = "fgvt"   -> 5
      [] p = "sid"    -> 6
      [] p = "system" -> 7
      [] p = "vtnr"   -> 8
      [] p = "remote" -> 9
      [] p = "gst"    -> 10
      [] OTHER        -> 11

\* Some numbers have a least one.
LEMMA LeastNumber ==
    ASSUME NEW T \in SUBSET Nat, T # {}
    PROVE  \E i \in T : \A k \in T : i <= k
<1> DEFINE R == {ss \in Nat \X Nat : ss[1] < ss[2]}
<1>1. IsWellFoundedOn(R, Nat)
  BY NatLessThanWellFounded DEF OpToRel
<1>2. PICK i \in T : \A k \in T : ~(<<k, i>> \in R)
  <2> HIDE DEF R
  <2> QED
    BY <1>1, WFMin
<1>3. \A k \in T : ~(k < i)
  BY <1>2
<1> QED
  BY <1>3

\* Order lists the probes by rank.
LEMMA OrderRank ==
    /\ DOMAIN Order = 1..10
    /\ \A i \in 1..10 : Order[i] \in Probes /\ Rank(Order[i]) = i
    /\ \A p \in Probes : Rank(p) \in 1..10 /\ Order[Rank(p)] = p
BY DEF Order, Rank, Probes

\* After: the next probe is the first one after p that the options ask for.
LEMMA AfterNext ==
    ASSUME NEW p \in Probes
    PROVE  /\ After(p) \in Probes \cup {"end"}
           /\ Rank(p) < Rank(After(p))
           /\ After(p) # "end" => Enabled(After(p))
           /\ \A q \in Probes : Rank(p) < Rank(q) /\ Rank(q) < Rank(After(p)) => ~Enabled(q)
<1> DEFINE later == {i \in DOMAIN Order : (\E j \in 1..(i - 1) : Order[j] = p) /\ Enabled(Order[i])}
           first == CHOOSE i \in later : \A k \in later : i <= k
<1>1. later = {i \in 1..10 : Rank(p) < i /\ Enabled(Order[i])}
  <2>1. \A i \in 1..10 : (\E j \in 1..(i - 1) : Order[j] = p) <=> Rank(p) < i
    BY OrderRank
  <2> QED
    BY <2>1, OrderRank
<1>2. Rank("end") = 11 /\ "end" \notin Probes
  BY DEF Rank, Probes
<1>3. CASE later = {}
  <2>1. After(p) = "end"
    BY <1>3 DEF After
  <2>2. \A q \in Probes : Rank(p) < Rank(q) => ~Enabled(q)
    BY <1>1, <1>3, OrderRank
  <2> QED
    BY <2>1, <2>2, <1>2, OrderRank
<1>4. CASE later # {}
  <2>1. After(p) = Order[first]
    BY <1>4 DEF After
  <2>2. first \in later /\ \A k \in later : first <= k
    <3>1. later \in SUBSET Nat
      BY <1>1
    <3>2. \E i \in later : \A k \in later : i <= k
      BY <3>1, <1>4, LeastNumber
    <3> HIDE DEF later
    <3> QED
      BY <3>2
  <2> HIDE DEF first
  <2>3. \A q \in Probes : Rank(p) < Rank(q) /\ Enabled(q) => Rank(q) \in later
    BY <1>1, OrderRank
  <2>4. first \in 1..10 /\ Rank(p) < first /\ Enabled(Order[first])
    BY <1>1, <2>2
  <2>5. Rank(After(p)) = first /\ After(p) \in Probes
    BY <2>1, <2>4, OrderRank
  <2> QED
    BY <2>1, <2>2, <2>3, <2>4, <2>5, <1>2, OrderRank
<1> QED
  BY <1>3, <1>4

-----------------------------------------------------------------------------
(* The inductive invariant.                                                *)

\* The verdict is still empty.
Clean == errors \cup visible \cup silent = {}

\* Why a verdict may be negative, as VerdictJustified has it.
Reason ==
    \/ \E p \in Requirements \cup {"system"} : answer[p] \notin Favourable(p) \cup {Unasked}
    \/ answer["sid"] = FALSE /\ Requirements \cap {"vtnr", "remote"} # {}

\* The running check: what is behind the current probe was answered favourably
\* as long as the verdict is empty, what is ahead has not been asked, and behind
\* the connection there is a connection.
CheckInv ==
    /\ copts \in CheckOpts
    /\ probe \in Probes \cup {"end"}
    /\ DOMAIN answer = Probes
    /\ probe # "end" => Enabled(probe)
    /\ \A p \in Probes : Rank(probe) <= Rank(p) => answer[p] = Unasked
    /\ Clean => \A p \in Probes : Enabled(p) /\ Rank(p) < Rank(probe) => answer[p] \in Favourable(p)
    /\ Clean \/ Reason
    /\ (probe # "end" /\ 7 < Rank(probe)) => sysbus
    /\ checkExit \in {"running", "0", "1"}
    /\ checkExit # "running" => probe = "end"
    /\ checkExit = "0" => Clean
    /\ checkExit = "1" => ~Clean

\* Once start runs there is no check any more.
OneProcess ==
    IF phase = "check" THEN CheckInv
    ELSE copts \in CheckOpts /\ probe = "end" /\ checkExit = "gone"

\* What generation does: two things or none.
Generation == IF changes THEN 2 ELSE 0

\* All that start does, in order.
Deeds(generated) ==
    IF generated = 2 THEN <<"units", "reload", "bindpid", "env_login", "env_session">>
    ELSE <<"bindpid", "env_login", "env_session">>

DeedSeq == did \in Seq({"units", "reload", "bindpid", "env_login", "env_session"})

\* How far start has come is how much of it is done.
Progress ==
    /\ phase \in StartSteps \cup {"check", "generated", "end"}
    /\ DeedSeq
    /\ Len(did) <= Generation + 3
    /\ \A i \in 1..Len(did) : did[i] = Deeds(Generation)[i]
    /\ phase \in {"check", "gate", "refuse", "plan", "apply"} => Len(did) = 0
    /\ phase = "reload" => Generation = 2 /\ Len(did) = 1
    /\ phase \in {"generated", "bindpid"} => Len(did) = Generation
    /\ phase = "save_login" => Len(did) = Generation + 1
    /\ phase = "save_session" => Len(did) = Generation + 2
    /\ phase = "exec" => Len(did) = Generation + 3

\* How start ended, and what it may have done then.
Outcome ==
    /\ result \in {"none", "error", "refused", "dry_run", "generated", "anchor"}
    /\ phase # "end" => result = "none"
    /\ result \in {"refused", "dry_run"} => Len(did) = 0
    /\ result = "anchor" => Len(did) = Generation + 3
    /\ mode.only_generate =>
          /\ Len(did) <= Generation
          /\ phase \notin {"bindpid", "save_login", "save_session", "exec"}

\* Every copy of the login variables names a login session, if it names one.
LoginInv ==
    /\ NamesLogin(loginEnv)
    /\ env_login = NoFile \/ NamesLogin(env_login)
    /\ NamesLogin(penv)
    /\ prep \in {"none", "load", "deduce", "ready", "failed"}
    /\ LoginPairConsistent

\* Whether the plan has changes.
FlagType == changes \in BOOLEAN

\* The inductive invariant.
StartInv == OneProcess /\ FlagType /\ Progress /\ Outcome /\ LoginInv

-----------------------------------------------------------------------------
(* check may-start.                                                        *)

\* The options decide what is asked and what is favourable.
LEMMA SameOptions ==
    ASSUME copts' = copts
    PROVE  /\ \A p : Enabled(p)' <=> Enabled(p)
           /\ \A p : Favourable(p)' = Favourable(p)
           /\ Requirements' = Requirements
<1>1. \A p : Enabled(p)' <=> Enabled(p)
  BY DEF Enabled, vt_checks, need_system
<1>2. \A p : Favourable(p)' = Favourable(p)
  BY DEF Favourable
<1>3. Requirements' = Requirements
  BY DEF Requirements
<1> QED
  BY <1>1, <1>2, <1>3

\* The answers are distinct.
LEMMA DistinctAnswers ==
    /\ Err # TRUE /\ Err # FALSE /\ Err # Unasked /\ Unasked # TRUE /\ Unasked # FALSE
    /\ \A n \in Nat : n # Err /\ n # Unasked
BY MayStartAssumption, Zenon

\* What is asked, other than the session id, is a requirement or the connection.
LEMMA AskedForAReason ==
    ASSUME NEW p \in Probes, Enabled(p), p # "sid"
    PROVE  p \in Requirements \cup {"system"}
BY DEF Probes, Enabled, Requirements, vt_checks

\* Requirements: each of them is asked for.
LEMMA RequirementsEnabled ==
    ASSUME NEW p \in Requirements
    PROVE  p \in Probes /\ Enabled(p)
BY DEF Probes, Enabled, Requirements, vt_checks

\* need_system: whoever uses the connection asks for it.
LEMMA ConnectionAskedFor ==
    ASSUME NEW p \in Probes, Enabled(p), 7 < Rank(p)
    PROVE  Enabled("system") /\ "system" \in Probes /\ Rank("system") = 7
BY DEF Probes, Enabled, Rank, need_system

\* A favourable answer: on to the next probe.
LEMMA FavourableStep ==
    ASSUME CheckInv, NEW p \in Probes, NEW a \in Favourable(p), Ask(p, a), Pass(p),
           copts' = copts, checkExit' = checkExit,
           IF p = "system" THEN sysbus' = TRUE ELSE sysbus' = sysbus
    PROVE  CheckInv'
<1>1. probe = p /\ answer' = [answer EXCEPT ![p] = a] /\ probe' = After(p)
      /\ Clean' = Clean
  BY DEF Ask, Pass, Clean
<1>2. /\ \A q \in Probes : answer'[q] = IF q = p THEN a ELSE answer[q]
      /\ DOMAIN answer' = Probes
  BY <1>1 DEF CheckInv
<1>3. /\ After(p) \in Probes \cup {"end"}
      /\ Rank(p) < Rank(After(p))
      /\ After(p) # "end" => Enabled(After(p))
      /\ \A q \in Probes : Rank(p) < Rank(q) /\ Rank(q) < Rank(After(p)) => ~Enabled(q)
  BY AfterNext
<1>4. /\ \A q \in Probes : Rank(q) \in 1..10
      /\ \A q \in Probes : Rank(q) = Rank(p) => q = p
      /\ Rank(After(p)) \in 1..11
  <2>1. Rank("end") = 11
    BY DEF Rank
  <2> QED
    BY <1>3, <2>1, OrderRank
<1>5. \A q \in Probes : Rank(probe') <= Rank(q) => answer'[q] = Unasked
  BY <1>1, <1>2, <1>3, <1>4 DEF CheckInv
<1>6. Clean' => \A q \in Probes : Enabled(q) /\ Rank(q) < Rank(probe') => answer'[q] \in Favourable(q)
  BY <1>1, <1>2, <1>3, <1>4 DEF CheckInv
<1>7. Clean' \/ Reason'
  <2>1. ASSUME NEW q \in Requirements \cup {"system"}, answer[q] \notin Favourable(q) \cup {Unasked}
        PROVE  answer'[q] = answer[q]
    <3>1. answer[p] = Unasked
      BY <1>1, <1>4 DEF CheckInv
    <3>2. q \in Probes
      BY RequirementsEnabled DEF Probes
    <3> QED
      BY <2>1, <3>1, <3>2, <1>2
  <2>2. answer["sid"] = FALSE => answer'["sid"] = FALSE
    <3>1. answer[p] = Unasked
      BY <1>1, <1>4 DEF CheckInv
    <3>2. "sid" \in Probes
      BY DEF Probes
    <3> QED
      BY <3>1, <3>2, <1>2, DistinctAnswers
  <2> QED
    BY <1>1, <2>1, <2>2, SameOptions DEF CheckInv, Reason
<1>8. (probe' # "end" /\ 7 < Rank(probe')) => sysbus'
  <2>1. SUFFICES ASSUME probe' # "end", 7 < Rank(probe'), p # "system"
                 PROVE  sysbus
    BY <1>1
  <2>2. Enabled("system") /\ "system" \in Probes /\ Rank("system") = 7
    BY <2>1, <1>1, <1>3, ConnectionAskedFor
  <2>3. 7 < Rank(p)
    BY <2>1, <2>2, <1>1, <1>3, <1>4
  <2> QED
    BY <2>3, <1>1 DEF CheckInv, Probes
<1>9. checkExit' = "running"
  BY <1>1 DEF CheckInv, Probes
<1> HIDE DEF Clean, Reason
<1> QED
  BY <1>1, <1>2, <1>3, <1>5, <1>6, <1>7, <1>8, <1>9, SameOptions DEF CheckInv

\* Any other answer is a reason, whether the check goes on or not.
LEMMA AdverseStep ==
    ASSUME CheckInv, NEW p \in Probes \ {"sid"}, NEW a, a \notin Favourable(p), a # Unasked,
           Ask(p, a), ~Clean', probe' \in {After(p), "end"},
           copts' = copts, checkExit' = checkExit,
           IF p = "system" THEN probe' = "end" ELSE sysbus' = sysbus
    PROVE  CheckInv'
<1>1. probe = p /\ answer' = [answer EXCEPT ![p] = a] /\ Enabled(p)
  BY DEF Ask, CheckInv, Probes
<1>2. /\ \A q \in Probes : answer'[q] = IF q = p THEN a ELSE answer[q]
      /\ DOMAIN answer' = Probes
  BY <1>1 DEF CheckInv
<1>3. /\ After(p) \in Probes \cup {"end"}
      /\ Rank(p) < Rank(After(p))
      /\ After(p) # "end" => Enabled(After(p))
      /\ \A q \in Probes : Rank(p) < Rank(q) /\ Rank(q) < Rank(After(p)) => ~Enabled(q)
  BY AfterNext
<1>4. /\ \A q \in Probes : Rank(q) \in 1..10
      /\ \A q \in Probes : Rank(q) = Rank(p) => q = p
      /\ Rank(After(p)) \in 1..11
      /\ Rank("end") = 11
  <2>1. Rank("end") = 11
    BY DEF Rank
  <2> QED
    BY <1>3, <2>1, OrderRank
<1>5. \A q \in Probes : Rank(probe') <= Rank(q) => answer'[q] = Unasked
  BY <1>1, <1>2, <1>3, <1>4 DEF CheckInv
<1>6. Reason'
  <2>1. p \in Requirements \cup {"system"}
    BY <1>1, AskedForAReason
  <2>2. answer'[p] \notin Favourable(p)' \cup {Unasked}
    BY <1>2, SameOptions
  <2> QED
    BY <2>1, <2>2, SameOptions DEF Reason
<1>7. (probe' # "end" /\ 7 < Rank(probe')) => sysbus'
  <2>1. SUFFICES ASSUME probe' = After(p), After(p) # "end", 7 < Rank(After(p)), p # "system"
                 PROVE  sysbus
    OBVIOUS
  <2>2. Enabled("system") /\ "system" \in Probes /\ Rank("system") = 7
    BY <2>1, <1>3, ConnectionAskedFor
  <2>3. 7 < Rank(p)
    BY <2>1, <2>2, <1>1, <1>3, <1>4
  <2> QED
    BY <2>3, <1>1 DEF CheckInv, Probes
<1>8. checkExit' = "running"
  BY <1>1 DEF CheckInv, Probes
<1> HIDE DEF Clean, Reason
<1> QED
  BY <1>1, <1>2, <1>3, <1>5, <1>6, <1>7, <1>8, SameOptions DEF CheckInv

\* NoSessionId: nothing is asked, which is a reason as well.
LEMMA NoSessionIdStep ==
    ASSUME CheckInv, NEW p \in {"vtnr", "remote"}, NoSessionId(p)
    PROVE  CheckInv'
<1>1. /\ probe = p /\ answer["sid"] = FALSE /\ answer' = answer
      /\ copts' = copts /\ checkExit' = checkExit /\ sysbus' = sysbus
      /\ p \in Probes /\ Enabled(p)
  BY DEF NoSessionId, Rest, CheckInv, Probes
<1>2. ~Clean' /\ probe' \in {After(p), "end"}
  BY DEF NoSessionId, Dealbreaker, Clean
<1>3. /\ After(p) \in Probes \cup {"end"}
      /\ Rank(p) < Rank(After(p))
      /\ After(p) # "end" => Enabled(After(p))
  BY <1>1, AfterNext
<1>4. /\ \A q \in Probes : Rank(q) \in 1..10
      /\ Rank(After(p)) \in 1..11
      /\ Rank("end") = 11
  <2>1. Rank("end") = 11
    BY DEF Rank
  <2> QED
    BY <1>3, <2>1, OrderRank
<1>5. \A q \in Probes : Rank(probe') <= Rank(q) => answer'[q] = Unasked
  BY <1>1, <1>2, <1>3, <1>4 DEF CheckInv
<1>6. Reason'
  <2>1. p \in Requirements
    BY <1>1 DEF Requirements, Enabled, vt_checks
  <2> QED
    BY <1>1, <2>1, SameOptions DEF Reason
<1>7. sysbus
  <2>1. 7 < Rank(p) /\ p # "end"
    BY DEF Rank
  <2> QED
    BY <1>1, <2>1 DEF CheckInv
<1>8. checkExit' = "running"
  BY <1>1 DEF CheckInv, Probes
<1> HIDE DEF Clean, Reason
<1> QED
  BY <1>1, <1>2, <1>3, <1>5, <1>6, <1>7, <1>8, SameOptions DEF CheckInv

\* Stop, Fatal and Dealbreaker each leave a note.
LEMMA Noted ==
    ASSUME NEW p, \/ Stop(p)
                  \/ Fatal(p)
                  \/ \E quietly \in BOOLEAN : Dealbreaker(p, quietly)
    PROVE  ~Clean' /\ probe' \in {After(p), "end"}
BY DEF Stop, Fatal, Dealbreaker, Clean

\* The answer each probe needs.
LEMMA FavourableAnswers ==
    /\ Favourable("root") = {FALSE} /\ Favourable("active") = {FALSE} /\ Favourable("remote") = {FALSE}
    /\ Favourable("dbus") = {TRUE} /\ Favourable("login") = {TRUE}
    /\ Favourable("gst") = {TRUE} /\ Favourable("system") = {TRUE}
    /\ Favourable("fgvt") = copts.vtnr /\ Favourable("vtnr") = copts.vtnr \ {0}
    /\ Favourable("sid") = {TRUE, FALSE}
BY DEF Favourable

\* A VT number that the options name is a number.
LEMMA OptionsType ==
    ASSUME CheckInv
    PROVE  copts.vtnr \subseteq Nat
BY MayStartAssumption DEF CheckInv

\* CheckNext: every probe, whatever it answers, keeps the check's invariant.
LEMMA CheckStepInv ==
    ASSUME CheckInv, CheckNext
    PROVE  CheckInv'
<1> USE DistinctAnswers, FavourableAnswers DEF Rest
<1>1. ASSUME IsRoot PROVE CheckInv'
  <2>1. PICK a \in BOOLEAN : Ask("root", a) /\ (IF a THEN Stop("root") ELSE Pass("root")) /\ Rest
    BY <1>1 DEF IsRoot
  <2>2. CASE a = TRUE
    BY <2>1, <2>2, Noted, AdverseStep DEF Probes
  <2>3. CASE a = FALSE
    BY <2>1, <2>3, FavourableStep DEF Probes
  <2> QED
    BY <2>2, <2>3
<1>2. ASSUME DbusSessionPresent PROVE CheckInv'
  <2>1. PICK a \in BOOLEAN : Ask("dbus", a) /\ (IF a THEN Pass("dbus") ELSE Stop("dbus")) /\ Rest
    BY <1>2 DEF DbusSessionPresent
  <2>2. CASE a = TRUE
    BY <2>1, <2>2, FavourableStep DEF Probes
  <2>3. CASE a = FALSE
    BY <2>1, <2>3, Noted, AdverseStep DEF Probes
  <2> QED
    BY <2>2, <2>3
<1>3. ASSUME ParentCmdline PROVE CheckInv'
  <2>1. PICK a \in BOOLEAN \cup {Err} :
            /\ Ask("login", a)
            /\ CASE a = TRUE  -> Pass("login")
                 [] a = FALSE -> Dealbreaker("login", TRUE)
                 [] a = Err   -> Fatal("login")
            /\ Rest
    BY <1>3 DEF ParentCmdline
  <2>2. CASE a = TRUE
    <3>1. Pass("login")
      BY <2>1, <2>2
    <3> QED
      BY <2>1, <2>2, <3>1, FavourableStep DEF Probes
  <2>3. CASE a \in {FALSE, Err}
    <3>1. Dealbreaker("login", TRUE) \/ Fatal("login")
      BY <2>1, <2>3
    <3>2. ~Clean' /\ probe' \in {After("login"), "end"}
      BY <3>1, Noted
    <3> QED
      BY <2>1, <2>3, <3>2, AdverseStep DEF Probes
  <2> QED
    BY <2>2, <2>3
<1>4. ASSUME CompositorActive PROVE CheckInv'
  <2>1. PICK a \in BOOLEAN \cup {Err} :
            /\ Ask("active", a)
            /\ CASE a = FALSE -> Pass("active")
                 [] a = TRUE  -> Dealbreaker("active", FALSE)
                 [] a = Err   -> Fatal("active")
            /\ Rest
    BY <1>4 DEF CompositorActive
  <2>2. CASE a = FALSE
    <3>1. Pass("active")
      BY <2>1, <2>2
    <3> QED
      BY <2>1, <2>2, <3>1, FavourableStep DEF Probes
  <2>3. CASE a \in {TRUE, Err}
    <3>1. Dealbreaker("active", FALSE) \/ Fatal("active")
      BY <2>1, <2>3
    <3>2. ~Clean' /\ probe' \in {After("active"), "end"}
      BY <3>1, Noted
    <3> QED
      BY <2>1, <2>3, <3>2, AdverseStep DEF Probes
  <2> QED
    BY <2>2, <2>3
<1>5. ASSUME ForegroundVt PROVE CheckInv'
  <2>1. PICK a \in (Vts \ {0}) \cup {Err} :
            /\ Ask("fgvt", a)
            /\ IF a \in copts.vtnr THEN Pass("fgvt") ELSE Dealbreaker("fgvt", TRUE)
            /\ Rest
    BY <1>5 DEF ForegroundVt
  <2>2. CASE a \in copts.vtnr
    BY <2>1, <2>2, FavourableStep DEF Probes
  <2>3. CASE a \notin copts.vtnr
    <3>1. ~Clean' /\ probe' \in {After("fgvt"), "end"}
      BY <2>1, <2>3, Noted
    <3>2. a # Unasked
      BY MayStartAssumption
    <3> QED
      BY <2>1, <2>3, <3>1, <3>2, AdverseStep DEF Probes
  <2> QED
    BY <2>2, <2>3
<1>6. ASSUME SessionId PROVE CheckInv'
  <2>1. PICK a \in BOOLEAN : Ask("sid", a) /\ Pass("sid") /\ Rest
    BY <1>6 DEF SessionId
  <2> QED
    BY <2>1, FavourableStep DEF Probes
<1>7. ASSUME ConnectSystem PROVE CheckInv'
  <2>1. PICK a \in {TRUE, Err} :
            /\ Ask("system", a)
            /\ IF a = Err THEN Fatal("system") ELSE Pass("system")
            /\ sysbus' = (a = TRUE)
            /\ UNCHANGED <<copts, checkExit>>
    BY <1>7 DEF ConnectSystem
  <2>2. CASE a = TRUE
    <3>1. Pass("system") /\ sysbus' = TRUE
      BY <2>1, <2>2
    <3> QED
      BY <2>1, <2>2, <3>1, FavourableStep DEF Probes
  <2>3. CASE a = Err
    <3>1. Fatal("system")
      BY <2>1, <2>3
    <3>2. ~Clean' /\ probe' = "end"
      BY <3>1, Noted DEF Fatal
    <3> QED
      BY <2>1, <2>3, <3>2, AdverseStep DEF Probes
  <2> QED
    BY <2>2, <2>3
<1>8. ASSUME SessionVtnr PROVE CheckInv'
  <2>1. ASSUME NEW a \in Vts \cup {Err}, Ask("vtnr", a), Rest,
               CASE a = Err                    -> Fatal("vtnr")
                 [] a # 0 /\ a \in copts.vtnr  -> Pass("vtnr")
                 [] OTHER                      -> Dealbreaker("vtnr", TRUE)
        PROVE  CheckInv'
    <3>1. CASE a \in copts.vtnr \ {0}
      <4>1. a # Err
        BY <3>1, OptionsType
      <4> QED
        BY <2>1, <3>1, <4>1, FavourableStep DEF Probes
    <3>2. CASE a \notin copts.vtnr \ {0}
      <4>1. ~Clean' /\ probe' \in {After("vtnr"), "end"}
        BY <2>1, <3>2, Noted
      <4>2. a # Unasked
        BY MayStartAssumption
      <4> QED
        BY <2>1, <3>2, <4>1, <4>2, AdverseStep DEF Probes
    <3> QED
      BY <3>1, <3>2
  <2> QED
    BY <1>8, <2>1, NoSessionIdStep DEF SessionVtnr
<1>9. ASSUME SessionRemote PROVE CheckInv'
  <2>1. ASSUME NEW a \in BOOLEAN \cup {Err}, Ask("remote", a), Rest,
               CASE a = FALSE -> Pass("remote")
                 [] a = TRUE  -> Dealbreaker("remote", TRUE)
                 [] a = Err   -> Fatal("remote")
        PROVE  CheckInv'
    <3>1. CASE a = FALSE
      <4>1. Pass("remote")
        BY <2>1, <3>1
      <4> QED
        BY <2>1, <3>1, <4>1, FavourableStep DEF Probes
    <3>2. CASE a \in {TRUE, Err}
      <4>1. Dealbreaker("remote", TRUE) \/ Fatal("remote")
        BY <2>1, <3>2
      <4>2. ~Clean' /\ probe' \in {After("remote"), "end"}
        BY <4>1, Noted
      <4> QED
        BY <2>1, <3>2, <4>2, AdverseStep DEF Probes
    <3> QED
      BY <3>1, <3>2
  <2> QED
    BY <1>9, <2>1, NoSessionIdStep DEF SessionRemote
<1>10. ASSUME GraphicalTargetReached PROVE CheckInv'
  <2>1. PICK a \in BOOLEAN \cup {Err} :
            /\ Ask("gst", a)
            /\ CASE a = TRUE  -> Pass("gst")
                 [] a = FALSE -> Dealbreaker("gst", TRUE)
                 [] a = Err   -> Fatal("gst")
            /\ Rest
    BY <1>10 DEF GraphicalTargetReached
  <2>2. CASE a = TRUE
    <3>1. Pass("gst")
      BY <2>1, <2>2
    <3> QED
      BY <2>1, <2>2, <3>1, FavourableStep DEF Probes
  <2>3. CASE a \in {FALSE, Err}
    <3>1. Dealbreaker("gst", TRUE) \/ Fatal("gst")
      BY <2>1, <2>3
    <3>2. ~Clean' /\ probe' \in {After("gst"), "end"}
      BY <3>1, Noted
    <3> QED
      BY <2>1, <2>3, <3>2, AdverseStep DEF Probes
  <2> QED
    BY <2>2, <2>3
<1>11. ASSUME Conclude PROVE CheckInv'
  <2>1. /\ copts' = copts /\ probe' = probe /\ answer' = answer /\ sysbus' = sysbus
        /\ probe = "end" /\ Clean' = Clean
        /\ checkExit' = IF Clean THEN "0" ELSE "1"
    BY <1>11 DEF Conclude, Clean
  <2>2. Reason' <=> Reason
    BY <2>1, SameOptions DEF Reason
  <2> HIDE DEF Clean, Reason
  <2> QED
    BY <2>1, <2>2, SameOptions DEF CheckInv
<1> QED
  BY <1>1, <1>2, <1>3, <1>4, <1>5, <1>6, <1>7, <1>8, <1>9, <1>10, <1>11 DEF CheckNext

-----------------------------------------------------------------------------
(* start.                                                                  *)

\* Init satisfies the invariant.
LEMMA StartInit ==
    ASSUME Init
    PROVE  StartInv
<1>1. OneProcess
  <2>1. Clean
    BY DEF Init, CheckInit, Clean
  <2>2. \A p \in Probes : 1 <= Rank(p) /\ ~(Rank(p) < 1)
    BY OrderRank
  <2>3. Rank("root") = 1 /\ "root" \in Probes /\ Enabled("root")
    BY DEF Rank, Probes, Enabled
  <2>4. ~(7 < Rank("root"))
    BY <2>3
  <2> HIDE DEF Clean
  <2> QED
    BY <2>1, <2>2, <2>3, <2>4 DEF Init, CheckInit, OneProcess, CheckInv
<1>2. Progress
  <2>1. did = <<>> /\ phase = "check" /\ Generation = 0
    BY DEF Init, Generation
  <2>2. Len(did) = 0 /\ DeedSeq
    BY <2>1 DEF DeedSeq
  <2> QED
    BY <2>1, <2>2 DEF Progress
<1>3. Outcome /\ FlagType
  BY DEF Init, Outcome, FlagType
<1>4. LoginInv
  <2>1. NamesLogin(Nothing)
    BY DEF NamesLogin, Nothing
  <2> QED
    BY <2>1 DEF Init, LoginInv, LoginPairConsistent
<1> QED
  BY <1>1, <1>2, <1>3, <1>4 DEF StartInv

\* Only a check changes what a check knows, and only the passage to start ends it.
LEMMA OneProcessStep ==
    ASSUME StartInv, [Next]_vars
    PROVE  OneProcess'
<1>1. CASE CheckStep
  BY <1>1, CheckStepInv DEF StartInv, OneProcess, CheckStep, startVars
<1>2. CASE StartBegins
  <2>1. CheckInv /\ phase' # "check" /\ probe' = probe /\ checkExit' = "gone"
    BY <1>2 DEF StartInv, OneProcess, StartBegins, ForgetCheck
  <2>2. probe = "end"
    BY <1>2, <2>1 DEF StartBegins, CheckInv
  <2>3. copts' \in CheckOpts
    BY <1>2, <2>1 DEF StartBegins, ForgetCheck, CheckInv
  <2> QED
    BY <2>1, <2>2, <2>3 DEF OneProcess
<1>3. ASSUME UNCHANGED checkVars, phase = "check" <=> phase' = "check" PROVE OneProcess'
  <2>1. CheckInv' <=> CheckInv
    BY <1>3, SameOptions DEF checkVars, CheckInv, Clean, Reason
  <2> HIDE DEF CheckInv
  <2> QED
    BY <1>3, <2>1 DEF StartInv, OneProcess, checkVars
<1>4. CASE Start /\ ~StartBegins
  <2>1. UNCHANGED checkVars /\ phase # "check" /\ phase' # "check"
    BY <1>4 DEF Start, GstGate, RefuseIfActive, Plan, Apply, Reload, Generated, BindPid, SaveLogin,
                SaveSession, BecomeAnchor, Fails, Ends, Goes, StartSteps
  <2> QED
    BY <1>3, <2>1
<1>5. CASE PrepareLogin \/ World \/ UNCHANGED vars
  <2>1. UNCHANGED checkVars /\ phase' = phase
    BY <1>5 DEF PrepareLogin, LoadLogin, DeduceNothing, Deduce, DeduceFails, PrepareAgain, World,
                startVars, vars
  <2> QED
    BY <1>3, <2>1
<1> QED
  BY <1>1, <1>2, <1>4, <1>5 DEF Next

\* FlagType is kept: only Plan changes the flag.
LEMMA FlagStep ==
    ASSUME FlagType, [Next]_vars
    PROVE  FlagType'
BY DEF FlagType, Next, CheckStep, Start, StartBegins, GstGate, RefuseIfActive, Plan, Apply, Reload,
       Generated, BindPid, SaveLogin, SaveSession, BecomeAnchor, Fails, PrepareLogin, LoadLogin,
       DeduceNothing, Deduce, DeduceFails, PrepareAgain, World, startVars, vars

\* What does nothing leaves the list as it is.
LEMMA NoDeed ==
    ASSUME did' = did, changes' = changes, Progress
    PROVE  /\ DeedSeq'
           /\ Generation' = Generation
           /\ \A i \in 1..Len(did') : did'[i] = Deeds(Generation')[i]
BY DEF Progress, DeedSeq, Generation

\* Appending what comes next.
LEMMA NextDeed ==
    ASSUME NEW deed \in {"units", "reload", "bindpid", "env_login", "env_session"},
           did' = Append(did, deed), changes' = changes, Progress,
           deed = Deeds(Generation)[Len(did) + 1]
    PROVE  /\ DeedSeq'
           /\ Len(did') = Len(did) + 1
           /\ \A i \in 1..Len(did') : did'[i] = Deeds(Generation')[i]
           /\ Generation' = Generation
<1>1. Generation' = Generation
  BY DEF Generation
<1>2. DeedSeq' /\ Len(did') = Len(did) + 1 /\ Len(did) \in Nat
      /\ \A i \in 1..Len(did) : did'[i] = did[i]
      /\ did'[Len(did) + 1] = deed
  BY DEF Progress, DeedSeq
<1> QED
  BY <1>1, <1>2 DEF Progress

\* The order of what start does, and how it may end.
LEMMA ProgressStep ==
    ASSUME Progress, Outcome, [Next]_vars
    PROVE  Progress' /\ Outcome'
<1>0. Generation \in {0, 2} /\ (changes <=> Generation = 2)
  BY DEF Generation
<1>1. ASSUME did' = did, changes' = changes, phase' = phase, result' = result, mode' = mode
      PROVE  Progress' /\ Outcome'
  BY <1>1, NoDeed DEF Progress, Outcome
<1>2. ASSUME did' = did, changes' = changes, mode' = mode,
             phase \in {"gate", "refuse"}, phase' \in {"refuse", "plan", "end"},
             result' \in {"none", "error", "refused"}, phase' # "end" => result' = result
      PROVE  Progress' /\ Outcome'
  BY <1>2, NoDeed DEF Progress, Outcome, StartSteps
<1>3. CASE CheckStep
  BY <1>1, <1>3 DEF CheckStep, startVars
<1>4. CASE StartBegins
  <2>1. /\ did' = did /\ changes' = changes
        /\ \/ phase' = "gate" /\ result' = result
           \/ phase' = "end" /\ result' = "error"
        /\ phase = "check"
    BY <1>4 DEF StartBegins
  <2>2. Len(did') = 0 /\ DeedSeq' /\ Generation' = Generation /\ result = "none"
    BY <2>1, NoDeed DEF Progress, Outcome
  <2>3. Progress'
    BY <1>0, <2>1, <2>2 DEF Progress, StartSteps
  <2>4. Outcome'
    BY <1>0, <2>1, <2>2 DEF Outcome
  <2> QED
    BY <2>3, <2>4
<1>5. CASE GstGate
  BY <1>5, <1>2 DEF GstGate, Ends, Goes, Outcome
<1>6. CASE RefuseIfActive
  BY <1>6, <1>2 DEF RefuseIfActive, Ends, Goes, Outcome
<1>7. CASE Plan
  <2>1. /\ did' = did /\ Len(did) = 0 /\ mode' = mode
        /\ \/ phase' = "apply" /\ result' = result
           \/ phase' = "end" /\ result' \in {"refused", "dry_run"}
        /\ phase = "plan"
    BY <1>7 DEF Plan, Ends, Goes, Progress
  <2>2. DeedSeq' /\ Generation' \in {0, 2} /\ \A i \in 1..Len(did') : did'[i] = Deeds(Generation')[i]
    BY <2>1 DEF DeedSeq, Progress, Generation
  <2>3. Len(did') = 0 /\ result = "none"
    BY <2>1 DEF Outcome
  <2>4. Progress'
    <3>1. phase' \in {"apply", "end"}
      BY <2>1
    <3>2. Generation' = 0 \/ Generation' = 2
      BY DEF Generation
    <3>3. Len(did') <= Generation' + 3
      BY <2>3, <3>2
    <3> QED
      BY <2>2, <2>3, <3>1, <3>3 DEF Progress, StartSteps
  <2>5. Outcome'
    BY <2>1, <2>2, <2>3 DEF Outcome
  <2> QED
    BY <2>4, <2>5
<1>8. CASE Apply
  <2>1. /\ Len(did) = 0 /\ phase = "apply" /\ changes' = changes /\ mode' = mode /\ result' = result
        /\ result = "none"
    BY <1>8 DEF Apply, Progress, Outcome, Goes
  <2>2. CASE changes
    <3>1. did' = Append(did, "units") /\ phase' = "reload"
      BY <1>8, <2>2 DEF Apply, Goes
    <3>2. Deeds(Generation)[Len(did) + 1] = "units" /\ Generation = 2
      BY <1>0, <2>1, <2>2 DEF Deeds
    <3>3. /\ DeedSeq'
          /\ Len(did') = 1
          /\ \A i \in 1..Len(did') : did'[i] = Deeds(Generation')[i]
          /\ Generation' = Generation
      BY <3>1, <3>2, <2>1, NextDeed
    <3> QED
      BY <2>1, <3>1, <3>2, <3>3 DEF Progress, Outcome, StartSteps
  <2>3. CASE ~changes
    <3>1. did' = did /\ phase' = "generated" /\ Generation = 0
      BY <1>0, <1>8, <2>3 DEF Apply, Goes
    <3> QED
      BY <2>1, <3>1, NoDeed DEF Progress, Outcome
  <2> QED
    BY <2>2, <2>3
<1>9. CASE Reload
  <2>1. /\ Len(did) = 1 /\ phase = "reload" /\ Generation = 2 /\ changes' = changes /\ mode' = mode
        /\ result' = result /\ result = "none" /\ did' = Append(did, "reload") /\ phase' = "generated"
    BY <1>9 DEF Reload, Progress, Outcome, Goes
  <2>2. Deeds(Generation)[Len(did) + 1] = "reload"
    BY <2>1 DEF Deeds
  <2>3. /\ DeedSeq'
        /\ Len(did') = 2
        /\ \A i \in 1..Len(did') : did'[i] = Deeds(Generation')[i]
        /\ Generation' = Generation
    BY <2>1, <2>2, NextDeed
  <2> QED
    BY <2>1, <2>3 DEF Progress, Outcome
<1>10. CASE Generated
  <2>1. /\ did' = did /\ Len(did) = Generation /\ changes' = changes /\ mode' = mode
        /\ IF mode.only_generate THEN phase' = "end" /\ result' = "generated"
           ELSE phase' = "bindpid" /\ result' = result
        /\ phase = "generated"
    BY <1>10 DEF Generated, Ends, Goes, Progress
  <2> QED
    BY <1>0, <2>1, NoDeed DEF Progress, Outcome, StartSteps
<1>11. ASSUME NEW k \in {0, 1, 2}, NEW deed, deed = <<"bindpid", "env_login", "env_session">>[k + 1],
              phase = <<"bindpid", "save_login", "save_session">>[k + 1],
              phase' = <<"save_login", "save_session", "exec">>[k + 1],
              did' = Append(did, deed), changes' = changes, mode' = mode, result' = result
       PROVE  Progress' /\ Outcome'
  <2>1. Len(did) = Generation + k /\ result = "none" /\ ~mode.only_generate
    BY <1>0, <1>11 DEF Progress, Outcome
  <2>2. deed = Deeds(Generation)[Len(did) + 1]
    BY <1>0, <2>1, <1>11 DEF Deeds
  <2>3. /\ DeedSeq'
        /\ Len(did') = Generation + k + 1
        /\ \A i \in 1..Len(did') : did'[i] = Deeds(Generation')[i]
        /\ Generation' = Generation
    BY <1>0, <1>11, <2>1, <2>2, NextDeed
  <2> QED
    BY <1>0, <2>1, <2>3, <1>11 DEF Progress, Outcome, StartSteps
<1>12. CASE BindPid
  BY <1>12, <1>11 DEF BindPid, Goes
<1>13. CASE SaveLogin
  BY <1>13, <1>11 DEF SaveLogin, Goes
<1>14. CASE SaveSession
  BY <1>14, <1>11 DEF SaveSession, Goes
<1>15. CASE BecomeAnchor
  <2>1. /\ did' = did /\ Len(did) = Generation + 3 /\ changes' = changes /\ mode' = mode
        /\ phase' = "end" /\ result' = "anchor" /\ phase = "exec"
    BY <1>15 DEF BecomeAnchor, Ends, Progress
  <2> QED
    BY <1>0, <2>1, NoDeed DEF Progress, Outcome
<1>16. ASSUME NEW step \in StartSteps, Fails(step) PROVE Progress' /\ Outcome'
  <2>1. /\ did' = did /\ changes' = changes /\ mode' = mode
        /\ phase' = "end" /\ result' = "error"
    BY <1>16 DEF Fails, Ends
  <2> QED
    BY <1>0, <2>1, NoDeed DEF Progress, Outcome
<1>17. CASE PrepareLogin
  BY <1>17, <1>1 DEF PrepareLogin, LoadLogin, DeduceNothing, Deduce, DeduceFails, PrepareAgain, startVars
<1>18. CASE World
  BY <1>18, <1>1 DEF World, startVars
<1>19. CASE UNCHANGED vars
  BY <1>19, <1>1 DEF vars, startVars
<1> QED
  BY <1>3, <1>4, <1>5, <1>6, <1>7, <1>8, <1>9, <1>10, <1>12, <1>13, <1>14, <1>15, <1>16, <1>17,
     <1>18, <1>19 DEF Next, Start

\* The copies of the login variables.
LEMMA LoginStep ==
    ASSUME LoginInv, [Next]_vars
    PROVE  LoginInv'
<1>1. ASSUME loginEnv' = loginEnv, env_login' = env_login, penv' = penv,
             prep' = prep \/ prep' \in {"none", "load", "deduce", "failed"}
      PROVE  LoginInv'
  BY <1>1 DEF LoginInv, LoginPairConsistent
<1>2. CASE CheckStep
  BY <1>1, <1>2 DEF CheckStep, loginVars
<1>3. CASE StartBegins
  <2>1. PICK s \in Starts : loginEnv' = s.env
    BY <1>3 DEF StartBegins
  <2>2. NamesLogin(loginEnv)'
    BY <2>1, StartAssumption DEF NamesLogin
  <2>3. env_login' = env_login /\ penv' = penv /\ prep' = prep
    BY <1>3 DEF StartBegins
  <2> QED
    BY <2>2, <2>3 DEF LoginInv, LoginPairConsistent
<1>4. CASE SaveLogin
  BY <1>4 DEF SaveLogin, LoginInv, LoginPairConsistent
<1>5. CASE Start /\ ~StartBegins /\ ~SaveLogin
  BY <1>1, <1>5 DEF Start, GstGate, RefuseIfActive, Plan, Apply, Reload, Generated, BindPid,
                    SaveSession, BecomeAnchor, Fails, loginVars
<1>6. CASE LoadLogin
  <2>1. NamesLogin(Nothing)
    BY DEF NamesLogin, Nothing
  <2> QED
    BY <1>6, <2>1 DEF LoadLogin, LoginInv, LoginPairConsistent
<1>7. CASE DeduceNothing
  <2>1. loginEnv' = loginEnv /\ env_login' = env_login /\ penv' = penv /\ prep' = "ready"
    BY <1>7 DEF DeduceNothing
  <2>2. \E l \in Logins : penv.sid = l.sid /\ penv.seat = l.seat
    BY <1>7 DEF DeduceNothing, LoginInv, NamesLogin
  <2> QED
    BY <2>1, <2>2 DEF LoginInv, LoginPairConsistent
<1>8. CASE Deduce
  <2> DEFINE vt == IF penv.vt = 0 THEN fgvt ELSE penv.vt
  <2>1. PICK l \in Logins : penv' = deduce_session_with([penv EXCEPT !.vt = vt], l)
    BY <1>8 DEF Deduce
  <2>2. loginEnv' = loginEnv /\ env_login' = env_login /\ prep' = "ready"
    BY <1>8 DEF Deduce
  <2>3. DOMAIN penv' = {"sid", "seat", "vt"} /\ penv'.sid = l.sid /\ penv'.seat = l.seat
    BY <2>1 DEF deduce_session_with, LoginInv, NamesLogin
  <2>4. NamesLogin(penv)'
    BY <2>3 DEF NamesLogin
  <2> QED
    BY <2>2, <2>3, <2>4 DEF LoginInv, LoginPairConsistent
<1>9. CASE DeduceFails \/ PrepareAgain
  BY <1>1, <1>9 DEF DeduceFails, PrepareAgain
<1>10. CASE World \/ UNCHANGED vars
  BY <1>1, <1>10 DEF World, vars, loginVars
<1> QED
  BY <1>2, <1>3, <1>4, <1>5, <1>6, <1>7, <1>8, <1>9, <1>10 DEF Next, PrepareLogin

\* The inductive invariant of start holds in every reachable state.
THEOREM StartInductive == Spec => []StartInv
<1>1. Init => StartInv
  BY StartInit
<1>2. StartInv /\ [Next]_vars => StartInv'
  BY OneProcessStep, FlagStep, ProgressStep, LoginStep DEF StartInv
<1> QED
  BY <1>1, <1>2, PTL DEF Spec

-----------------------------------------------------------------------------
(* What it means.                                                          *)

\* Type correctness of check, start and the first half of prepare-env.
THEOREM StartTypeCorrect == Spec => []StartTypeOK
<1>1. StartInv => StartTypeOK
  <2>1. StartInv => copts \in CheckOpts
    BY DEF StartInv, OneProcess, CheckInv
  <2> QED
    BY <2>1 DEF StartInv, StartTypeOK, FlagType, Progress, DeedSeq, Outcome, LoginInv
<1> QED
  BY <1>1, StartInductive, PTL

\* may-start's verdict is justified either way, whatever the options and
\* whatever each probe (check_may_start_with) answers or fails with.
THEOREM VerdictCorrect == Spec => []VerdictJustified
<1>1. StartInv => VerdictJustified
  <2> SUFFICES ASSUME StartInv PROVE VerdictJustified
    OBVIOUS
  <2>1. CASE checkExit = "0"
    <3>1. CheckInv
      BY <2>1 DEF StartInv, OneProcess
    <3>2. Clean /\ probe = "end" /\ Rank("end") = 11
      BY <2>1, <3>1 DEF CheckInv, Rank
    <3>3. ASSUME NEW p \in Requirements PROVE answer[p] \in Favourable(p)
      <4>1. p \in Probes /\ Enabled(p)
        BY RequirementsEnabled
      <4>2. Rank(p) < 11
        BY <4>1, OrderRank
      <4> QED
        BY <3>1, <3>2, <4>1, <4>2 DEF CheckInv
    <3> QED
      BY <2>1, <3>3 DEF VerdictJustified
  <2>2. CASE checkExit = "1"
    <3>1. CheckInv
      BY <2>2 DEF StartInv, OneProcess
    <3>2. Reason
      BY <2>2, <3>1 DEF CheckInv
    <3> QED
      BY <2>2, <3>2 DEF VerdictJustified, Reason
  <2> QED
    BY <2>1, <2>2 DEF VerdictJustified
<1> QED
  BY <1>1, StartInductive, PTL

\* No probe of check_may_start_with meets a bus that was not connected.
THEOREM ProbesNeverPanic == Spec => []ProbesConnected
<1>1. StartInv => ProbesConnected
  <2>1. \A p \in {"gst", "vtnr", "remote"} : 7 < Rank(p) /\ p # "end"
    BY DEF Rank
  <2> QED
    BY <2>1 DEF StartInv, OneProcess, CheckInv, ProbesConnected
<1> QED
  BY <1>1, StartInductive, PTL

\* session::start::run: a refusal and a dry run leave no trace, -o only units.
THEOREM RefusalHarmless == Spec => []RefusalTouchesNothing
<1>1. StartInv => RefusalTouchesNothing
  <2> SUFFICES ASSUME StartInv PROVE RefusalTouchesNothing
    OBVIOUS
  <2>1. Generation \in {0, 2}
    BY DEF Generation
  <2>2. DOMAIN did = 1..Len(did) /\ (Len(did) = 0 => did = <<>>) /\ Len(did) \in Nat
    BY DEF StartInv, Progress, DeedSeq
  <2>3. \A i \in 1..Generation : Deeds(Generation)[i] \in {"units", "reload"}
    BY <2>1 DEF Deeds
  <2>4. result \in {"refused", "dry_run"} => did = <<>>
    BY <2>2 DEF StartInv, Outcome
  <2>5. ASSUME mode.only_generate, NEW i \in DOMAIN did
        PROVE  did[i] \in {"units", "reload"}
    <3>1. Len(did) <= Generation
      BY <2>5 DEF StartInv, Outcome
    <3>2. i \in 1..Generation
      BY <2>1, <2>2, <3>1
    <3>3. did[i] = Deeds(Generation)[i]
      BY <2>2 DEF StartInv, Progress
    <3> QED
      BY <2>3, <3>2, <3>3
  <2> QED
    BY <2>4, <2>5 DEF RefusalTouchesNothing
<1> QED
  BY <1>1, StartInductive, PTL

\* session::start::run: the anchor's preconditions are done, and each after what
\* it depends on.
THEOREM AnchorPrepared == Spec => []AnchorReady
<1>1. StartInv => AnchorReady
  <2> SUFFICES ASSUME StartInv PROVE AnchorReady
    OBVIOUS
  <2>1. Generation \in {0, 2} /\ (changes => Generation = 2)
    BY DEF Generation
  <2>2. DOMAIN did = 1..Len(did) /\ Len(did) \in Nat /\ Len(did) <= Generation + 3
    BY DEF StartInv, Progress, DeedSeq
  <2>3. \A i \in 1..Len(did) : did[i] = Deeds(Generation)[i]
    BY DEF StartInv, Progress
  <2>4. result = "anchor" => {"bindpid", "env_login", "env_session"} \subseteq Range(did)
    <3> SUFFICES ASSUME result = "anchor"
                 PROVE  {"bindpid", "env_login", "env_session"} \subseteq Range(did)
      OBVIOUS
    <3>1. Len(did) = Generation + 3
      BY DEF StartInv, Outcome
    <3>2. /\ did[Generation + 1] = "bindpid" /\ did[Generation + 2] = "env_login"
          /\ did[Generation + 3] = "env_session"
          /\ {Generation + 1, Generation + 2, Generation + 3} \subseteq DOMAIN did
      BY <2>1, <2>2, <2>3, <3>1 DEF Deeds
    <3> QED
      BY <3>2 DEF Range
  <2>5. ASSUME NEW i \in DOMAIN did, NEW k \in 1..(i - 1)
        PROVE  did[k] \in Range(SubSeq(did, 1, i - 1))
    <3>1. i \in Nat /\ i - 1 \in Nat /\ k \in 1..Len(did)
      BY <2>2
    <3>2. DOMAIN SubSeq(did, 1, i - 1) = 1..(i - 1) /\ SubSeq(did, 1, i - 1)[k] = did[k]
      BY <2>2, <3>1 DEF StartInv, Progress, DeedSeq
    <3> QED
      BY <3>2 DEF Range
  <2>6. ASSUME NEW i \in DOMAIN did, did[i] = "bindpid", changes
        PROVE  "reload" \in Range(SubSeq(did, 1, i - 1))
    <3>1. i = 3 /\ did[2] = "reload"
      BY <2>1, <2>2, <2>3, <2>6 DEF Deeds
    <3> QED
      BY <2>5, <3>1
  <2>7. ASSUME NEW i \in DOMAIN did, did[i] = "env_login"
        PROVE  "bindpid" \in Range(SubSeq(did, 1, i - 1))
    <3>1. i = Generation + 2 /\ did[Generation + 1] = "bindpid"
      BY <2>1, <2>2, <2>3, <2>7 DEF Deeds
    <3>2. Generation + 1 \in 1..(i - 1)
      BY <2>1, <3>1
    <3> QED
      BY <2>5, <3>1, <3>2
  <2> QED
    BY <2>4, <2>6, <2>7 DEF AnchorReady
<1> QED
  BY <1>1, StartInductive, PTL

\* prepare_env's deduce_session: id and seat belong together.
THEOREM LoginPairNamesOneSession == Spec => []LoginPairConsistent
<1>1. StartInv => LoginPairConsistent
  BY DEF StartInv, LoginInv
<1> QED
  BY <1>1, StartInductive, PTL

-----------------------------------------------------------------------------
(* dedup_preserving.                                                       *)

\* One turn of it.
Keep(kept, n) == IF Contains(kept, n) THEN kept ELSE Append(kept, n)

\* Induction, over a set rather than a predicate.
LEMMA Induction ==
    ASSUME NEW S, 0 \in S, \A n \in S \cap Nat : n + 1 \in S
    PROVE  Nat \subseteq S
<1> SUFFICES ASSUME Nat \ S # {} PROVE FALSE
  OBVIOUS
<1>1. PICK i \in Nat \ S : \A k \in Nat \ S : i <= k
  BY LeastNumber
<1>2. i # 0 /\ i - 1 \in Nat
  BY <1>1
<1>3. i - 1 \in S
  BY <1>1, <1>2
<1> QED
  BY <1>1, <1>2, <1>3

\* FoldLeft takes the last index first.
LEMMA MaxIn ==
    ASSUME NEW n \in Nat, NEW s \in SUBSET (1..n), s # {}
    PROVE  Max(s) \in s /\ \A y \in s : Max(s) >= y
<1> DEFINE T == {n - k : k \in s}
<1>1. T \in SUBSET Nat /\ T # {}
  <2>1. \A k \in s : n - k \in Nat
    OBVIOUS
  <2> QED
    BY <2>1
<1>2. PICK i \in T : \A j \in T : i <= j
  BY <1>1, LeastNumber
<1>3. PICK k \in s : i = n - k
  OBVIOUS
<1>4. \A y \in s : n - k <= n - y
  BY <1>2, <1>3
<1>5. \A y \in s : k >= y
  BY <1>4
<1> QED
  BY <1>5 DEF Max

\* FoldLeft is defined over the subsets of the sequence's domain.  There is a
\* function that satisfies its equation, so CHOOSE gives one ...
FoldEqn(g, N, names) ==
    g = [s \in SUBSET (1..N) |->
            IF s = {} THEN <<>>
            ELSE Keep(g[s \ {Max(s)}], names[Max(s)])]

LEMMA FoldExists ==
    ASSUME NEW N \in Nat, NEW names
    PROVE  \E g : FoldEqn(g, N, names)
<1> USE DEF FoldEqn
<1> DEFINE Good(n, g) == FoldEqn(g, n, names)
           S == {n \in Nat : \E g : Good(n, g)}
<1>1. 0 \in S
  <2> DEFINE g == [s \in {{}} |-> <<>>]
  <2>1. SUBSET (1..0) = {{}}
    OBVIOUS
  <2>2. Good(0, g)
    BY <2>1
  <2> QED
    BY <2>2
<1>2. ASSUME NEW n \in S PROVE n + 1 \in S
  <2>1. n \in Nat
    OBVIOUS
  <2>2. PICK g : Good(n, g)
    OBVIOUS
  <2> DEFINE h == [s \in SUBSET (1..n+1) |->
                     IF n + 1 \in s THEN Keep(g[s \ {n + 1}], names[n + 1]) ELSE g[s]]
  <2>3. ASSUME NEW s \in SUBSET (1..n+1), n + 1 \in s
        PROVE  s \ {n + 1} \in SUBSET (1..n) /\ s # {} /\ Max(s) = n + 1
    <3>1. n + 1 \in Nat /\ s # {}
      BY <2>1, <2>3
    <3>2. Max(s) \in s /\ Max(s) >= n + 1
      BY <2>3, <3>1, MaxIn
    <3>3. Max(s) = n + 1
      <4>1. Max(s) \in 1..n+1
        BY <3>2
      <4> QED
        BY <2>1, <3>2, <4>1
    <3>4. \A k \in s \ {n + 1} : k \in 1..n
      BY <2>1
    <3> QED
      BY <3>1, <3>3, <3>4
  <2>4. ASSUME NEW s \in SUBSET (1..n+1)
        PROVE  h[s] = IF s = {} THEN <<>>
                      ELSE Keep(h[s \ {Max(s)}], names[Max(s)])
    <3>1. CASE n + 1 \in s
      <4>1. h[s \ {n + 1}] = g[s \ {n + 1}]
        BY <2>1, <2>3, <3>1
      <4> QED
        BY <2>3, <3>1, <4>1
    <3>2. CASE n + 1 \notin s
      <4>1. s \in SUBSET (1..n) /\ h[s] = g[s]
        BY <2>1, <3>2
      <4>2. g[s] = IF s = {} THEN <<>>
                   ELSE Keep(g[s \ {Max(s)}], names[Max(s)])
        BY <2>2, <4>1
      <4>3. h[s \ {Max(s)}] = g[s \ {Max(s)}]
        BY <3>2
      <4> QED
        BY <4>1, <4>2, <4>3
    <3> QED
      BY <3>1, <3>2
  <2>5. Good(n + 1, h)
    <3>1. h = [s \in SUBSET (1..n+1) |-> h[s]]
      OBVIOUS
    <3> HIDE DEF h
    <3> QED
      BY <2>4, <3>1
  <2> HIDE DEF h, Good
  <2> QED
    BY <2>1, <2>5
<1>3. N \in S
  <2> HIDE DEF S
  <2> QED
    BY <1>1, <1>2, Induction
<1> QED
  BY <1>3

\* ... and its value is what the loop over the sequence ends with.
FoldRun(run, N, names) ==
    /\ run[0] = <<>>
    /\ \A n \in 1..N : run[n] = Keep(run[n - 1], names[n])
    /\ Dedup(names) = run[N]

LEMMA FoldRuns ==
    ASSUME NEW N \in Nat, NEW names, DOMAIN names = 1..N
    PROVE  \E run : FoldRun(run, N, names)
<1> DEFINE g == CHOOSE g : FoldEqn(g, N, names)
           h == [n \in 0..N |-> g[1..n]]
<1>1. FoldEqn(g, N, names)
  BY FoldExists
<1>2. Dedup(names) = g[1..N]
  BY DEF Dedup, Keep, FoldLeft, MapThenFoldSet, FoldEqn
<1> HIDE DEF g
<1>3. h[0] = <<>>
  <2>1. 1..0 = {} /\ {} \in SUBSET (1..N)
    OBVIOUS
  <2>2. g[{}] = <<>>
    BY <1>1, <2>1 DEF FoldEqn
  <2> QED
    BY <2>1, <2>2
<1>4. ASSUME NEW n \in 1..N PROVE h[n] = Keep(h[n - 1], names[n])
  <2>1. 1..n \in SUBSET (1..N) /\ 1 \in 1..n
    OBVIOUS
  <2>2. Max(1..n) = n
    <3>1. n \in Nat /\ n \in 1..n /\ 1..n \in SUBSET (1..n)
      OBVIOUS
    <3>2. Max(1..n) \in 1..n /\ Max(1..n) >= n
      BY <3>1, MaxIn
    <3> QED
      BY <3>2
  <2>3. (1..n) \ {n} = 1..(n - 1)
    OBVIOUS
  <2>4. g[1..n] = Keep(g[1..(n - 1)], names[n])
    BY <1>1, <2>1, <2>2, <2>3 DEF FoldEqn
  <2>5. n \in 0..N /\ n - 1 \in 0..N
    OBVIOUS
  <2> QED
    BY <2>4, <2>5
<1>5. h[N] = g[1..N]
  <2>1. N \in 0..N
    OBVIOUS
  <2> QED
    BY <2>1
<1> HIDE DEF h
<1>6. FoldRun(h, N, names)
  BY <1>2, <1>3, <1>4, <1>5 DEF FoldRun
<1> QED
  BY <1>6

\* No name twice.
Distinct(s) == \A i, j \in DOMAIN s : s[i] = s[j] => i = j

\* One more at the end.
LEMMA Appended ==
    ASSUME NEW S, NEW s \in Seq(S), NEW x \in S
    PROVE  /\ Append(s, x) \in Seq(S) /\ DOMAIN Append(s, x) = 1..(Len(s) + 1)
           /\ \A i \in 1..Len(s) : Append(s, x)[i] = s[i]
           /\ Append(s, x)[Len(s) + 1] = x
OBVIOUS

\* One turn keeps what is there, and has the name at the end.
LEMMA KeepOne ==
    ASSUME NEW kept \in Seq(STRING), NEW x \in STRING
    PROVE  /\ Keep(kept, x) \in Seq(STRING)
           /\ Range(Keep(kept, x)) = Range(kept) \cup {x}
           /\ Distinct(kept) => Distinct(Keep(kept, x))
           /\ x \in Range(kept) => Keep(kept, x) = kept
           /\ x \notin Range(kept) => Keep(kept, x) = Append(kept, x)
<1>1. Len(kept) \in Nat /\ DOMAIN kept = 1..Len(kept)
  OBVIOUS
<1>2. Contains(kept, x) <=> x \in Range(kept)
  BY <1>1 DEF Contains, Range
<1>3. CASE x \in Range(kept)
  BY <1>2, <1>3 DEF Keep
<1>4. CASE x \notin Range(kept)
  <2> DEFINE new == Append(kept, x)
  <2>1. Keep(kept, x) = new
    BY <1>2, <1>4 DEF Keep
  <2>2. /\ new \in Seq(STRING) /\ DOMAIN new = 1..(Len(kept) + 1)
        /\ \A i \in 1..Len(kept) : new[i] = kept[i]
        /\ new[Len(kept) + 1] = x
    BY Appended
  <2> HIDE DEF new
  <2>3. Range(new) = Range(kept) \cup {x}
    <3>1. ASSUME NEW i \in DOMAIN new PROVE new[i] \in Range(kept) \cup {x}
      <4>1. i \in DOMAIN kept \/ i = Len(kept) + 1
        BY <1>1, <2>2
      <4> QED
        BY <1>1, <2>2, <4>1 DEF Range
    <3>2. ASSUME NEW y \in Range(kept) PROVE y \in Range(new)
      <4>1. PICK i \in DOMAIN kept : y = kept[i]
        BY DEF Range
      <4>2. i \in DOMAIN new /\ new[i] = y
        BY <1>1, <2>2, <4>1
      <4> QED
        BY <4>2 DEF Range
    <3>3. x \in Range(new)
      <4>1. Len(kept) + 1 \in DOMAIN new
        BY <1>1, <2>2
      <4> QED
        BY <2>2, <4>1 DEF Range
    <3>4. \A y \in Range(new) : \E i \in DOMAIN new : y = new[i]
      BY DEF Range
    <3> QED
      BY <3>1, <3>2, <3>3, <3>4
  <2>4. ASSUME Distinct(kept), NEW i \in DOMAIN new, NEW j \in DOMAIN new, new[i] = new[j]
        PROVE  i = j
    <3>1. \A k \in DOMAIN kept : kept[k] # x
      BY <1>4 DEF Range
    <3>2. /\ i \in DOMAIN kept \/ i = Len(kept) + 1
          /\ j \in DOMAIN kept \/ j = Len(kept) + 1
      BY <1>1, <2>2
    <3> QED
      BY <1>1, <2>2, <2>4, <3>1, <3>2 DEF Distinct
  <2> QED
    BY <1>4, <2>1, <2>2, <2>3, <2>4 DEF Distinct, new
<1> QED
  BY <1>3, <1>4

\* The first n of the names.
Firsts(names, n) == {names[i] : i \in 1..n}

\* The names stay, each once.
LEMMA DedupKeeps ==
    ASSUME NEW names \in Seq(STRING)
    PROVE  /\ Dedup(names) \in Seq(STRING)
           /\ Range(Dedup(names)) = Range(names)
           /\ Distinct(Dedup(names))
<1>1. Len(names) \in Nat /\ DOMAIN names = 1..Len(names)
  OBVIOUS
<1>2. PICK run : FoldRun(run, Len(names), names)
  BY <1>1, FoldRuns
<1> DEFINE Good(s, n) == s \in Seq(STRING) /\ Range(s) = Firsts(names, n) /\ Distinct(s)
           S == {n \in Nat : n <= Len(names) => Good(run[n], n)}
<1>3. 0 \in S
  <2>1. run[0] = <<>>
    BY <1>2 DEF FoldRun
  <2>2. Good(<<>>, 0)
    BY DEF Range, Firsts, Distinct
  <2> QED
    BY <2>1, <2>2
<1>4. ASSUME NEW n \in S PROVE n + 1 \in S
  <2>1. n \in Nat
    OBVIOUS
  <2>2. CASE n + 1 <= Len(names)
    <3>1. Good(run[n], n) /\ n + 1 \in 1..Len(names) /\ names[n + 1] \in STRING
      BY <1>1, <2>1, <2>2
    <3>2. run[n + 1] = Keep(run[n], names[n + 1])
      <4>1. run[n + 1] = Keep(run[(n + 1) - 1], names[n + 1])
        BY <1>2, <3>1 DEF FoldRun
      <4>2. (n + 1) - 1 = n
        BY <2>1
      <4> QED
        BY <4>1, <4>2
    <3>3. Firsts(names, n + 1) = Firsts(names, n) \cup {names[n + 1]}
      <4>1. 1..(n + 1) = (1..n) \cup {n + 1}
        BY <2>1
      <4> QED
        BY <4>1 DEF Firsts
    <3>4. Good(run[n + 1], n + 1)
      <4> DEFINE kept == run[n]
      <4>1. kept \in Seq(STRING) /\ Range(kept) = Firsts(names, n) /\ Distinct(kept)
        BY <3>1
      <4> HIDE DEF kept
      <4>2. /\ Keep(kept, names[n + 1]) \in Seq(STRING)
            /\ Range(Keep(kept, names[n + 1])) = Range(kept) \cup {names[n + 1]}
            /\ Distinct(Keep(kept, names[n + 1]))
        BY <3>1, <4>1, KeepOne
      <4>3. run[n + 1] = Keep(kept, names[n + 1])
        BY <3>2 DEF kept
      <4> QED
        BY <3>3, <4>1, <4>2, <4>3
    <3> QED
      BY <2>1, <3>4
  <2>3. CASE ~(n + 1 <= Len(names))
    BY <2>1, <2>3
  <2> QED
    BY <2>2, <2>3
<1>5. Len(names) \in S
  <2> HIDE DEF S
  <2> QED
    BY <1>1, <1>3, <1>4, Induction
<1>6. Good(Dedup(names), Len(names))
  BY <1>1, <1>2, <1>5 DEF FoldRun
<1>7. Firsts(names, Len(names)) = Range(names)
  BY <1>1 DEF Firsts, Range
<1> QED
  BY <1>6, <1>7

\* Names that are distinct already stay as they are, and what only repeats
\* them adds nothing.
LEMMA DedupAbsorbs ==
    ASSUME NEW a \in Seq(STRING), NEW b \in Seq(STRING), Distinct(a), Range(b) \subseteq Range(a)
    PROVE  Dedup(a \o b) = a
<1> DEFINE c == a \o b
<1>1. /\ Len(a) \in Nat /\ Len(b) \in Nat
      /\ DOMAIN a = 1..Len(a) /\ DOMAIN b = 1..Len(b)
      /\ c \in Seq(STRING) /\ Len(c) = Len(a) + Len(b) /\ DOMAIN c = 1..(Len(a) + Len(b))
      /\ \A j \in 1..Len(a) : c[j] = a[j]
      /\ \A j \in (Len(a) + 1)..(Len(a) + Len(b)) : c[j] = b[j - Len(a)]
  OBVIOUS
<1> HIDE DEF c
<1>2. PICK run : FoldRun(run, Len(c), c)
  BY <1>1, FoldRuns
<1> DEFINE Up(s, n) == s \in Seq(STRING) /\ Len(s) = n /\ \A i \in 1..n : s[i] = a[i]
           S == {n \in Nat : /\ n <= Len(a) => Up(run[n], n)
                             /\ (n >= Len(a) /\ n <= Len(c)) => run[n] = a}
<1>3. ASSUME NEW s, Up(s, Len(a)) PROVE s = a
  BY <1>1, <1>3
<1>4. 0 \in S
  <2>1. run[0] = <<>> /\ Up(<<>>, 0)
    BY <1>2 DEF FoldRun
  <2>2. 0 >= Len(a) => Up(<<>>, Len(a))
    BY <1>1, <2>1
  <2>3. 0 >= Len(a) => run[0] = a
    BY <1>3, <2>1, <2>2
  <2> QED
    BY <2>1, <2>3
<1>5. ASSUME NEW n \in S PROVE n + 1 \in S
  <2>1. n \in Nat
    OBVIOUS
  <2>2. ASSUME n + 1 <= Len(c)
        PROVE  run[n + 1] = Keep(run[n], c[n + 1])
    <3>1. n + 1 \in 1..Len(c) /\ (n + 1) - 1 = n
      BY <1>1, <2>1, <2>2
    <3>2. run[n + 1] = Keep(run[(n + 1) - 1], c[n + 1])
      BY <1>2, <3>1 DEF FoldRun
    <3> QED
      BY <3>1, <3>2
  <2>3. CASE n + 1 <= Len(a)
    <3>1. Up(run[n], n)
      BY <1>1, <2>1, <2>3
    <3>2. run[n + 1] = Keep(run[n], a[n + 1])
      BY <1>1, <2>1, <2>2, <2>3
    <3>3. a[n + 1] \notin Range(run[n])
      <4>1. SUFFICES ASSUME NEW i \in DOMAIN run[n], run[n][i] = a[n + 1] PROVE FALSE
        BY DEF Range
      <4>2. i \in 1..n /\ a[i] = a[n + 1] /\ i \in DOMAIN a /\ n + 1 \in DOMAIN a
        BY <1>1, <2>1, <2>3, <3>1, <4>1
      <4> QED
        BY <2>1, <4>2 DEF Distinct
    <3>4. run[n + 1] = Append(run[n], a[n + 1])
      <4>1. a[n + 1] \in STRING /\ run[n] \in Seq(STRING)
        BY <1>1, <2>1, <2>3, <3>1
      <4> QED
        BY <3>2, <3>3, <4>1, KeepOne
    <3>5. Up(run[n + 1], n + 1)
      <4>1. a[n + 1] \in STRING /\ run[n] \in Seq(STRING)
        BY <1>1, <2>1, <2>3, <3>1
      <4> QED
        BY <2>1, <3>1, <3>4, <4>1
    <3>6. ASSUME n + 1 >= Len(a) PROVE run[n + 1] = a
      <4>0. Len(a) \in Nat
        BY <1>1
      <4> HIDE DEF Up, S
      <4>1. n + 1 = Len(a)
        BY <2>1, <2>3, <3>6, <4>0
      <4>2. Up(run[n + 1], Len(a))
        BY <3>5, <4>1
      <4> QED
        BY <1>3, <4>2
    <3> QED
      BY <2>1, <3>5, <3>6
  <2>4. CASE ~(n + 1 <= Len(a)) /\ n + 1 <= Len(c)
    <3>1. run[n] = a
      BY <1>1, <2>1, <2>4
    <3>2. run[n + 1] = Keep(a, c[n + 1])
      BY <2>2, <2>4, <3>1
    <3>3. c[n + 1] \in Range(a)
      <4>2. n + 1 \in (Len(a) + 1)..(Len(a) + Len(b))
        BY <1>1, <2>1, <2>4
      <4>1. (n + 1) - Len(a) \in DOMAIN b /\ c[n + 1] = b[(n + 1) - Len(a)]
        BY <1>1, <2>1, <4>2
      <4> QED
        BY <4>1 DEF Range
    <3>4. c[n + 1] \in STRING
      BY <1>1, <2>1, <2>4
    <3>5. run[n + 1] = a
      BY <3>2, <3>3, <3>4, KeepOne
    <3> QED
      BY <2>1, <2>4, <3>5
  <2>5. CASE ~(n + 1 <= Len(a)) /\ ~(n + 1 <= Len(c))
    BY <2>1, <2>5
  <2> QED
    BY <2>3, <2>4, <2>5
<1>6. Len(c) \in S
  <2> HIDE DEF S
  <2> QED
    BY <1>1, <1>4, <1>5, Induction
<1>7. run[Len(c)] = a
  BY <1>1, <1>6
<1> QED
  BY <1>2, <1>7 DEF FoldRun, c

\* Of one name, however often, one is left.
LEMMA DedupOne ==
    ASSUME NEW names \in Seq(STRING), names # <<>>, NEW x, Range(names) \subseteq {x}
    PROVE  Dedup(names) = <<x>>
<1> DEFINE d == Dedup(names)
<1>1. d \in Seq(STRING) /\ Range(d) = Range(names) /\ Distinct(d)
  BY DedupKeeps
<1> HIDE DEF d
<1>2. Len(d) \in Nat /\ DOMAIN d = 1..Len(d)
  BY <1>1
<1>3. \A i \in DOMAIN d : d[i] = x
  BY <1>1 DEF Range
<1>4. Len(d) # 0
  <2>1. 1 \in DOMAIN names
    OBVIOUS
  <2>2. Range(names) # {}
    BY <2>1 DEF Range
  <2>3. PICK i \in DOMAIN d : TRUE
    BY <1>1, <2>2 DEF Range
  <2> QED
    BY <1>2, <2>3
<1>5. Len(d) = 1
  <2>1. ASSUME Len(d) > 1 PROVE FALSE
    <3>1. 1 \in DOMAIN d /\ 2 \in DOMAIN d
      BY <1>2, <2>1
    <3> QED
      BY <1>1, <1>3, <3>1 DEF Distinct
  <2> QED
    BY <1>2, <1>4, <2>1
<1>6. d[1] = x
  BY <1>2, <1>3, <1>5
<1> QED
  BY <1>1, <1>5, <1>6 DEF d

-----------------------------------------------------------------------------
(* What start resolved, and what the services make of it.                  *)

\* ResolveInput, as far as the types go.
Proper(i) ==
    /\ i.cmdline \in Seq(Words)
    /\ \A k \in DOMAIN i.cmdline : ~i.cmdline[k].entry => i.cmdline[k].action = NoAction
    /\ i.names \in Seq(STRING) /\ i.exclusive \in BOOLEAN /\ i.xcd \in Seq(STRING)

\* A CompGlobals whose command line starts with bin, from an entry with these
\* desktop names or from none.
Found(c, i, bin, entryNames) ==
    /\ c.ok
    /\ c.id = Head(i.cmdline).base /\ is_wm_id(c.id)
    /\ c.bin = bin
    /\ c.names = MergeNames(i, bin, entryNames)
    /\ c.cliNames = i.names /\ c.exclusive = i.exclusive
    /\ c.cmdline \in Seq(Words) /\ c.cmdline # <<>> /\ c.cmdline[1].base = bin

\* The fields of a CompGlobals.
Globals(c) ==
    c \in [ok : {TRUE}, cmdline : Seq(Words), id : {c.id}, bin : {c.bin},
           names : {c.names}, cliNames : {c.cliNames}, exclusive : {c.exclusive}]

\* A usable entry is one of those there are.
LEMMA EntryTypes ==
    ASSUME NEW w \in Words, NEW a, EntryUsable(EntryOf(w), a)
    PROVE  /\ ExecOf(EntryOf(w), a) \in Seq(Words) /\ ExecOf(EntryOf(w), a) # <<>>
           /\ EntryOf(w).names \in Seq(STRING)
<1> DEFINE from == IF w.at = "bare" THEN Sessions ELSE EntryFiles
<1>1. w.base \in DOMAIN from /\ EntryOf(w) = from[w.base]
  BY DEF EntryUsable, EntryOf, NoEntry
<1>2. from \in {Sessions, EntryFiles}
  OBVIOUS
<1> HIDE DEF from
<1>3. /\ from[w.base].exec \in Seq(Words)
      /\ \A b \in DOMAIN from[w.base].actions : from[w.base].actions[b] \in Seq(Words)
      /\ from[w.base].names \in Seq(STRING)
  BY <1>1, <1>2, SessionEntriesAssumption
<1> QED
  BY <1>1, <1>3 DEF EntryUsable, ExecOf

\* A command line that starts with another.
LEMMA LineBegins ==
    ASSUME NEW S, NEW a \in Seq(S), NEW b \in Seq(S), a # <<>>
    PROVE  /\ a \o b \in Seq(S) /\ a \o b # <<>> /\ (a \o b)[1] = a[1]
           /\ Len(a \o b) = 1 => a \o b = a
           /\ a[1] \in S /\ Head(a) = a[1] /\ Tail(a) \in Seq(S)
<1>1. /\ a \o b \in Seq(S) /\ a \o b # <<>> /\ (a \o b)[1] = a[1]
      /\ a[1] \in S /\ Head(a) = a[1] /\ Tail(a) \in Seq(S)
  OBVIOUS
<1>2. ASSUME Len(a \o b) = 1 PROVE a \o b = a
  <2>1. Len(a) \in Nat /\ Len(b) \in Nat /\ Len(a) # 0 /\ Len(a) + Len(b) = 1
    BY <1>2
  <2>2. Len(b) = 0
    BY <2>1
  <2> QED
    BY <2>2
<1> QED
  BY <1>1, <1>2

\* resolve, for a command ...
LEMMA ResolvedCommand ==
    ASSUME NEW i, Proper(i), resolve(i).ok, ~Head(i.cmdline).entry
    PROVE  /\ Head(i.cmdline) \in Words /\ Head(i.cmdline) = i.cmdline[1]
           /\ Head(i.cmdline).action = NoAction
           /\ resolve(i).cmdline = i.cmdline
           /\ Found(resolve(i), i, Head(i.cmdline).base, <<>>) /\ Globals(resolve(i))
<1>1. i.cmdline # <<>>
  BY DEF resolve, Failed
<1>2. /\ Head(i.cmdline) = i.cmdline[1] /\ i.cmdline[1] \in Words /\ 1 \in DOMAIN i.cmdline
  BY <1>1 DEF Proper
<1>3. resolve(i) = Resolved(i, i.cmdline, Head(i.cmdline).base, <<>>)
  BY <1>1 DEF resolve
<1>4. is_wm_id(Head(i.cmdline).base)
  BY <1>3 DEF Resolved, Failed
<1>5. resolve(i) = [ok |-> TRUE, cmdline |-> i.cmdline, id |-> Head(i.cmdline).base,
                    bin |-> i.cmdline[1].base, names |-> MergeNames(i, i.cmdline[1].base, <<>>),
                    cliNames |-> i.names, exclusive |-> i.exclusive]
  BY <1>3, <1>4 DEF Resolved
<1> QED
  BY <1>1, <1>2, <1>4, <1>5 DEF Found, Proper, Globals

\* ... and for an entry.
LEMMA ResolvedEntry ==
    ASSUME NEW i, Proper(i), resolve(i).ok, Head(i.cmdline).entry
    PROVE  LET w == Head(i.cmdline)
               e == EntryOf(w)
           IN  /\ w \in Words /\ w = i.cmdline[1] /\ EntryUsable(e, w.action)
               /\ resolve(i).cmdline = ExecOf(e, w.action) \o Tail(i.cmdline)
               /\ e.names \in Seq(STRING)
               /\ Found(resolve(i), i, ExecOf(e, w.action)[1].base, e.names)
               /\ Globals(resolve(i))
<1> DEFINE w == Head(i.cmdline)
           e == EntryOf(w)
           x == ExecOf(e, w.action)
           line == x \o Tail(i.cmdline)
<1>1. i.cmdline # <<>> /\ i.cmdline \in Seq(Words)
  BY DEF resolve, Failed, Proper
<1>2. w = i.cmdline[1] /\ w \in Words /\ Tail(i.cmdline) \in Seq(Words)
  BY <1>1
<1>3. resolve(i) = resolve_entry(i)
  BY <1>1 DEF resolve
<1>4. EntryUsable(e, w.action) /\ resolve(i) = Resolved(i, line, w.base, e.names)
  BY <1>3 DEF resolve_entry, Failed
<1>5. x \in Seq(Words) /\ x # <<>> /\ e.names \in Seq(STRING)
  BY <1>2, <1>4, EntryTypes
<1> HIDE DEF x, e, w
<1>6. line \in Seq(Words) /\ line # <<>> /\ line[1] = x[1]
  BY <1>2, <1>5, LineBegins
<1> HIDE DEF line
<1>7. is_wm_id(w.base)
  BY <1>4 DEF Resolved, Failed
<1>8. resolve(i) = [ok |-> TRUE, cmdline |-> line, id |-> w.base,
                    bin |-> line[1].base, names |-> MergeNames(i, line[1].base, e.names),
                    cliNames |-> i.names, exclusive |-> i.exclusive]
  BY <1>4, <1>7 DEF Resolved
<1>9. resolve(i).cmdline = line
  BY <1>8
<1>10. Found(resolve(i), i, x[1].base, e.names)
  BY <1>6, <1>7, <1>8 DEF Found, w
<1>11. Globals(resolve(i))
  BY <1>6, <1>8 DEF Globals
<1> QED
  BY <1>2, <1>4, <1>5, <1>9, <1>10, <1>11 DEF line, x, e, w

\* -F changes where the first word is, and nothing else.
LEMMA Hardcoded ==
    ASSUME NEW c, NEW h, NEW i, NEW bin, NEW names, c.ok => Found(c, i, bin, names) /\ Globals(c),
           apply_hardcode(c, h).ok
    PROVE  LET d == apply_hardcode(c, h)
           IN  /\ c.ok /\ Found(d, i, bin, names)
               /\ d.cmdline = c.cmdline \/ first_is_absolute(d)
               /\ d.cmdline[1].entry = c.cmdline[1].entry
<1> DEFINE d == apply_hardcode(c, h)
           first == c.cmdline[1]
<1>1. c.ok
  BY DEF apply_hardcode, Failed
<1>2. CASE d = c
  BY <1>1, <1>2
<1>3. CASE d # c
  <2>1. d = [c EXCEPT !.cmdline[1] = [first EXCEPT !.at = "abs"]]
    BY <1>1, <1>3 DEF apply_hardcode, Failed
  <2>2. first \in Words /\ 1 \in DOMAIN c.cmdline /\ c.cmdline \in Seq(Words)
    BY <1>1 DEF Found
  <2> DEFINE word == [first EXCEPT !.at = "abs"]
             line == [c.cmdline EXCEPT ![1] = word]
  <2>3. word \in Words /\ word.at = "abs" /\ word.base = first.base /\ word.entry = first.entry
    BY <2>2 DEF Words
  <2> HIDE DEF word
  <2>4. line \in Seq(Words) /\ line # <<>> /\ line[1] = word
    BY <2>2, <2>3
  <2>5. d = [c EXCEPT !.cmdline = line]
    BY <1>1, <2>1 DEF word, Globals
  <2> HIDE DEF line, d, first
  <2>6. /\ d.ok /\ d.id = c.id /\ d.bin = c.bin /\ d.names = c.names
        /\ d.cliNames = c.cliNames /\ d.exclusive = c.exclusive /\ d.cmdline = line
    BY <1>1, <2>5 DEF Globals
  <2>7. Found(d, i, bin, names)
    BY <1>1, <2>3, <2>4, <2>6 DEF Found, first
  <2>8. d.cmdline[1] = word
    BY <2>4, <2>6
  <2> QED
    BY <1>1, <2>3, <2>7, <2>8 DEF first_is_absolute, first, d
<1> QED
  BY <1>2, <1>3

\* Three lists of names, one behind the other.
LEMMA JoinedNames ==
    ASSUME NEW a \in Seq(STRING), NEW b \in Seq(STRING), NEW c \in Seq(STRING)
    PROVE  /\ a \o b \o c \in Seq(STRING)
           /\ Range(b) \subseteq Range(a \o b \o c) /\ Range(c) \subseteq Range(a \o b \o c)
           /\ a \o b \o c = <<>> => b = <<>> /\ c = <<>>
           /\ a = <<>> => a \o b \o c = b \o c
<1>1. ASSUME NEW x \in Seq(STRING), NEW y \in Seq(STRING)
      PROVE  /\ x \o y \in Seq(STRING)
             /\ Range(x) \subseteq Range(x \o y) /\ Range(y) \subseteq Range(x \o y)
             /\ x \o y = <<>> => x = <<>> /\ y = <<>>
             /\ x = <<>> => x \o y = y
  <2> DEFINE z == x \o y
  <2>1. /\ z \in Seq(STRING) /\ Len(x) \in Nat /\ Len(y) \in Nat
        /\ DOMAIN x = 1..Len(x) /\ DOMAIN y = 1..Len(y) /\ DOMAIN z = 1..(Len(x) + Len(y))
        /\ \A k \in 1..Len(x) : z[k] = x[k]
        /\ \A k \in 1..Len(y) : z[Len(x) + k] = y[k]
    BY SMT
  <2>2. /\ x \o y = <<>> => x = <<>> /\ y = <<>>
        /\ x = <<>> => x \o y = y
    OBVIOUS
  <2> HIDE DEF z
  <2>3. \A k \in DOMAIN x : k \in DOMAIN z /\ z[k] = x[k]
    BY <2>1
  <2>4. \A k \in DOMAIN y : Len(x) + k \in DOMAIN z /\ z[Len(x) + k] = y[k]
    BY <2>1
  <2>5. Range(x) \subseteq Range(z)
    BY <2>3 DEF Range
  <2>6. Range(y) \subseteq Range(z)
    BY <2>4 DEF Range
  <2> QED
    BY <2>1, <2>2, <2>5, <2>6 DEF z
<1>2. /\ a \o b \in Seq(STRING) /\ Range(b) \subseteq Range(a \o b)
      /\ a \o b = <<>> => b = <<>>
      /\ a = <<>> => a \o b = b
  BY <1>1
<1>3. /\ (a \o b) \o c \in Seq(STRING)
      /\ Range(a \o b) \subseteq Range((a \o b) \o c) /\ Range(c) \subseteq Range((a \o b) \o c)
      /\ (a \o b) \o c = <<>> => a \o b = <<>> /\ c = <<>>
  BY <1>1, <1>2
<1> QED
  BY <1>2, <1>3

\* The names start settles on: each once, the entry's among them.
LEMMA Merged ==
    ASSUME NEW i, Proper(i), NEW bin \in STRING, NEW entryNames \in Seq(STRING)
    PROVE  LET names == MergeNames(i, bin, entryNames)
           IN  /\ names \in Seq(STRING) /\ Distinct(names)
               /\ i.exclusive => names = Dedup(i.names)
               /\ ~i.exclusive => names # <<>> /\ Range(entryNames) \subseteq Range(names)
<1> DEFINE merged == i.xcd \o i.names \o entryNames
           all == IF i.exclusive THEN i.names ELSE IF merged = <<>> THEN <<bin>> ELSE merged
           names == Dedup(all)
<1>1. MergeNames(i, bin, entryNames) = names
  BY DEF MergeNames
<1>2. merged \in Seq(STRING) /\ <<bin>> \in Seq(STRING) /\ i.names \in Seq(STRING)
  BY JoinedNames DEF Proper
<1>3. Range(entryNames) \subseteq Range(merged) /\ (merged = <<>> => entryNames = <<>>)
  BY JoinedNames DEF Proper
<1> HIDE DEF merged
<1>4. all \in Seq(STRING)
  BY <1>2
<1>5. names \in Seq(STRING) /\ Distinct(names) /\ Range(names) = Range(all)
  BY <1>4, DedupKeeps
<1>6. i.exclusive => names = Dedup(i.names)
  OBVIOUS
<1>7. ASSUME ~i.exclusive PROVE names # <<>> /\ Range(entryNames) \subseteq Range(names)
  <2>1. all # <<>>
    BY <1>7
  <2>2. Range(all) # {}
    <3> HIDE DEF all
    <3>1. 1 \in DOMAIN all
      BY <1>4, <2>1
    <3> QED
      BY <3>1 DEF Range
  <2>3. Range(entryNames) \subseteq Range(all)
    <3>1. CASE merged = <<>>
      BY <1>3, <3>1 DEF Range
    <3>2. CASE merged # <<>>
      BY <1>3, <1>7, <3>2
    <3> QED
      BY <3>1, <3>2
  <2> HIDE DEF names, all
  <2>4. names # <<>>
    <3>1. Range(<<>>) = {}
      BY DEF Range
    <3> QED
      BY <1>5, <2>2, <3>1
  <2> QED
    BY <1>5, <2>3, <2>4
<1> QED
  BY <1>1, <1>5, <1>6, <1>7

\* The names the service settles on, from those the drop-in carries.
LEMMA MergedAgain ==
    ASSUME NEW names \in Seq(STRING), Distinct(names), NEW cli \in Seq(STRING),
           NEW exclusive \in BOOLEAN, NEW bin \in STRING, NEW bin2 \in STRING,
           NEW entryNames \in Seq(STRING), NEW i, NEW xcd \in Seq(STRING),
           exclusive => names = Dedup(cli),
           ~exclusive => names # <<>> /\ Range(entryNames) \subseteq Range(names),
           exclusive \/ names # <<bin>> \/ bin2 = bin,
           i.exclusive = exclusive, i.xcd = xcd,
           i.names = IF exclusive THEN cli ELSE IF names # <<bin>> THEN names ELSE <<>>
    PROVE  LET again == MergeNames(i, bin2, entryNames)
           IN  /\ (exclusive \/ xcd = <<>>) => again = names
               /\ names # <<bin>> => Range(names) \subseteq Range(again)
<1> DEFINE again == MergeNames(i, bin2, entryNames)
<1>1. CASE exclusive
  <2>1. again = Dedup(cli)
    BY <1>1 DEF MergeNames
  <2> QED
    BY <1>1, <2>1
<1>2. CASE ~exclusive /\ names # <<bin>>
  <2> DEFINE merged == xcd \o names \o entryNames
  <2>1. /\ merged \in Seq(STRING) /\ Range(names) \subseteq Range(merged) /\ merged # <<>>
        /\ xcd = <<>> => merged = names \o entryNames
    BY <1>2, JoinedNames
  <2>2. again = Dedup(merged)
    BY <1>2, <2>1 DEF MergeNames
  <2>3. Range(Dedup(merged)) = Range(merged)
    BY <2>1, DedupKeeps
  <2>4. Dedup(names \o entryNames) = names
    BY <1>2, DedupAbsorbs
  <2> HIDE DEF merged, again
  <2> QED
    BY <1>2, <2>1, <2>2, <2>3, <2>4 DEF again
<1>3. CASE ~exclusive /\ names = <<bin>>
  <2>1. ASSUME xcd = <<>> PROVE again = names
    <3>1. xcd \o i.names \o entryNames = entryNames
      BY <1>3, <2>1
    <3>2. again = Dedup(IF entryNames = <<>> THEN <<bin2>> ELSE entryNames)
      BY <1>3, <3>1 DEF MergeNames
    <3>3. Range(names) = {bin}
      BY <1>3 DEF Range
    <3>4. CASE entryNames = <<>>
      <4>1. <<bin>> \in Seq(STRING) /\ <<bin>> # <<>> /\ Range(<<bin>>) \subseteq {bin}
        BY <1>3, <3>3
      <4>2. Dedup(<<bin>>) = <<bin>>
        BY <4>1, DedupOne
      <4> QED
        BY <1>3, <3>2, <3>4, <4>2
    <3>5. CASE entryNames # <<>>
      <4>1. Dedup(entryNames) = <<bin>>
        BY <1>3, <3>3, <3>5, DedupOne
      <4> QED
        BY <1>3, <3>2, <3>5, <4>1
    <3> QED
      BY <3>4, <3>5
  <2> QED
    BY <1>3, <2>1
<1> QED
  BY <1>1, <1>2, <1>3

\* A service resolves this command line and merges these desktop names.
Serves(r, line, bin, entryNames, names, exclusive, xcd) ==
    /\ r.ok
    /\ r.cmdline = line
    /\ \E i : /\ i.names = names /\ i.exclusive = exclusive /\ i.xcd = xcd
              /\ r.names = MergeNames(i, bin, entryNames)

\* A service that is handed an absolute path takes it as it is.
LEMMA AuxAbsolute ==
    ASSUME NEW id, NEW line \in Seq(Words), line # <<>>, line[1].at = "abs", ~line[1].entry,
           is_wm_id(line[1].base), NEW names, NEW exclusive, NEW xcd
    PROVE  Serves(resolve_aux(id, line, names, exclusive, xcd), line, line[1].base, <<>>,
                  names, exclusive, xcd)
<1> DEFINE i == [cmdline |-> line, names |-> names, exclusive |-> exclusive, xcd |-> xcd]
<1>1. line[1] # Blank
  <2>1. Blank.at = "bare"
    BY DEF Blank, Word
  <2> QED
    BY <2>1
<1>2. resolve_aux(id, line, names, exclusive, xcd) = resolve(i)
  BY <1>1 DEF resolve_aux
<1>3. /\ i.cmdline = line /\ Head(line) = line[1]
      /\ i.names = names /\ i.exclusive = exclusive /\ i.xcd = xcd
  OBVIOUS
<1> HIDE DEF i
<1>4. resolve(i) = Resolved(i, line, line[1].base, <<>>)
  BY <1>3 DEF resolve
<1>5. /\ resolve(i).ok /\ resolve(i).cmdline = line
      /\ resolve(i).names = MergeNames(i, line[1].base, <<>>)
  BY <1>4 DEF Resolved
<1> QED
  BY <1>2, <1>3, <1>5 DEF Serves

\* The words that the service drop-in hands over, for these arguments.
AuxArgs(line, args) == line = <<Blank>> \o args \/ (line = <<>> /\ args = <<>>)

\* resolve_aux puts the instance name in place of the empty word.
LEMMA AuxLine ==
    ASSUME NEW id, NEW args \in Seq(Words),
           NEW line, AuxArgs(line, args),
           NEW names, NEW exclusive, NEW xcd
    PROVE  resolve_aux(id, line, names, exclusive, xcd)
               = resolve([cmdline |-> <<id>> \o args, names |-> names,
                          exclusive |-> exclusive, xcd |-> xcd])
<1>1. CASE line = <<>> /\ args = <<>>
  <2>1. <<id>> \o <<>> = <<id>>
    OBVIOUS
  <2> QED
    BY <1>1, <2>1 DEF resolve_aux
<1>2. CASE line = <<Blank>> \o args
  <2>1. line # <<>> /\ line[1] = Blank /\ Tail(line) = args
    <3> DEFINE b == Blank
    <3>1. <<b>> \o args # <<>> /\ (<<b>> \o args)[1] = b
      OBVIOUS
    <3>2. Tail(<<b>> \o args) = args
      OBVIOUS
    <3> QED
      BY <1>2, <3>1, <3>2
  <2> QED
    BY <2>1 DEF resolve_aux
<1> QED
  BY <1>1, <1>2 DEF AuxArgs

\* One that is handed nothing, or arguments behind an empty word, starts from
\* the instance name: a command's ...
LEMMA AuxCommand ==
    ASSUME NEW id \in Words, ~id.entry, is_wm_id(id.base), NEW args \in Seq(Words),
           NEW line, AuxArgs(line, args),
           NEW names, NEW exclusive, NEW xcd
    PROVE  Serves(resolve_aux(id, line, names, exclusive, xcd), <<id>> \o args, id.base, <<>>,
                  names, exclusive, xcd)
<1> DEFINE all == <<id>> \o args
           i == [cmdline |-> all, names |-> names, exclusive |-> exclusive, xcd |-> xcd]
<1>1. resolve_aux(id, line, names, exclusive, xcd) = resolve(i)
  BY AuxLine
<1>2. /\ i.cmdline = all /\ all # <<>> /\ Head(all) = id /\ all[1] = id
      /\ i.names = names /\ i.exclusive = exclusive /\ i.xcd = xcd
  OBVIOUS
<1> HIDE DEF i, all
<1>3. resolve(i) = Resolved(i, all, id.base, <<>>)
  BY <1>2 DEF resolve
<1>4. /\ resolve(i).ok /\ resolve(i).cmdline = all
      /\ resolve(i).names = MergeNames(i, id.base, <<>>)
  BY <1>2, <1>3 DEF Resolved
<1>5. Serves(resolve(i), all, id.base, <<>>, names, exclusive, xcd)
  BY <1>2, <1>4 DEF Serves
<1> QED
  BY <1>1, <1>5 DEF all

\* ... or an entry's, which is looked up again.
LEMMA AuxEntry ==
    ASSUME NEW id \in Words, id.entry, id.action = NoAction, is_wm_id(id.base),
           EntryUsable(EntryOf(id), NoAction), NEW names, NEW exclusive, NEW xcd
    PROVE  Serves(resolve_aux(id, <<>>, names, exclusive, xcd), ExecOf(EntryOf(id), NoAction),
                  ExecOf(EntryOf(id), NoAction)[1].base, EntryOf(id).names,
                  names, exclusive, xcd)
<1> DEFINE i == [cmdline |-> <<id>>, names |-> names, exclusive |-> exclusive, xcd |-> xcd]
           x == ExecOf(EntryOf(id), NoAction)
<1>1. resolve_aux(id, <<>>, names, exclusive, xcd) = resolve(i)
  BY DEF resolve_aux
<1>2. /\ i.cmdline = <<id>> /\ <<id>> # <<>> /\ Head(<<id>>) = id /\ Tail(<<id>>) = <<>>
      /\ i.names = names /\ i.exclusive = exclusive /\ i.xcd = xcd
  OBVIOUS
<1>3. x \in Seq(Words)
  BY EntryTypes
<1> HIDE DEF i, x
<1>4. x \o <<>> = x
  BY <1>3
<1>5. resolve(i) = Resolved(i, x, id.base, EntryOf(id).names)
  BY <1>2, <1>4 DEF resolve, resolve_entry, x
<1>6. /\ resolve(i).ok /\ resolve(i).cmdline = x
      /\ resolve(i).names = MergeNames(i, x[1].base, EntryOf(id).names)
  BY <1>5 DEF Resolved
<1>7. Serves(resolve(i), x, x[1].base, EntryOf(id).names, names, exclusive, xcd)
  BY <1>2, <1>6 DEF Serves
<1> QED
  BY <1>1, <1>7 DEF x

\* The word that %I is, for start's own.
LEMMA InstanceWords ==
    ASSUME NEW c, NEW w \in Words, c.id = w.base
    PROVE  LET id == InstanceWord(c, w.entry)
           IN  /\ id \in Words /\ id.base = w.base /\ id.at = "bare"
               /\ id.entry = w.entry /\ id.action = NoAction
               /\ (w.at = "bare" /\ w.action = NoAction) => id = w
               /\ w.at = "bare" => EntryOf(id) = EntryOf(w)
<1> DEFINE id == InstanceWord(c, w.entry)
<1>1. w.base \in STRING /\ w.entry \in BOOLEAN
  BY DEF Words
<1>2. id = [base |-> w.base, dir |-> AnyDir, at |-> "bare", entry |-> w.entry, action |-> NoAction]
  BY DEF InstanceWord, Word
<1> HIDE DEF id
<1>3. id \in Words
  <2>1. id \in [base : STRING, dir : STRING \cup {AnyDir}, at : {"bare", "abs", "rel"},
                entry : BOOLEAN, action : STRING \cup {NoAction}]
    BY <1>1, <1>2
  <2>2. id.dir = AnyDir
    BY <1>2
  <2> QED
    BY <2>1, <2>2 DEF Words
<1>4. id.base = w.base /\ id.at = "bare" /\ id.entry = w.entry /\ id.action = NoAction
  BY <1>2
<1>5. (w.at = "bare" /\ w.action = NoAction) => id = w
  BY <1>2 DEF Words
<1>6. w.at = "bare" => EntryOf(id) = EntryOf(w)
  BY <1>4 DEF EntryOf
<1> QED
  BY <1>3, <1>4, <1>5, <1>6 DEF id

\* What start has of a command line that it resolved.
LEMMA Started ==
    ASSUME NEW i, Proper(i), NEW h, NEW c, c = apply_hardcode(resolve(i), h), c.ok
    PROVE  LET w == Head(i.cmdline)
               e == EntryOf(w)
           IN  /\ w \in Words /\ w = i.cmdline[1] /\ i.cmdline # <<>>
               /\ ~w.entry => /\ w.action = NoAction /\ Found(c, i, w.base, <<>>)
                              /\ c.cmdline = i.cmdline \/ first_is_absolute(c)
               /\ w.entry => /\ EntryUsable(e, w.action) /\ e.names \in Seq(STRING)
                             /\ Found(c, i, ExecOf(e, w.action)[1].base, e.names)
                             /\ \/ c.cmdline = ExecOf(e, w.action) \o Tail(i.cmdline)
                                \/ first_is_absolute(c)
<1> DEFINE r == resolve(i)
           w == Head(i.cmdline)
           e == EntryOf(w)
<1>1. r.ok
  BY DEF apply_hardcode, Failed
<1>2. i.cmdline # <<>>
  BY <1>1 DEF resolve, Failed
<1>3. w.entry \in BOOLEAN
  <2>1. i.cmdline \in Seq(Words)
    BY DEF Proper
  <2>2. w \in Words
    BY <1>2, <2>1
  <2> QED
    BY <2>2 DEF Words
<1>4. CASE ~w.entry
  <2>1. /\ w \in Words /\ w = i.cmdline[1] /\ w.action = NoAction /\ r.cmdline = i.cmdline
        /\ Found(r, i, w.base, <<>>) /\ Globals(r)
    BY <1>1, <1>4, ResolvedCommand
  <2> HIDE DEF r, w
  <2>2. Found(c, i, w.base, <<>>) /\ (c.cmdline = r.cmdline \/ first_is_absolute(c))
    BY <2>1, Hardcoded DEF r
  <2> QED
    BY <1>2, <1>4, <2>1, <2>2 DEF w
<1>5. CASE w.entry
  <2>1. /\ w \in Words /\ w = i.cmdline[1] /\ EntryUsable(e, w.action)
        /\ r.cmdline = ExecOf(e, w.action) \o Tail(i.cmdline)
        /\ e.names \in Seq(STRING)
        /\ Found(r, i, ExecOf(e, w.action)[1].base, e.names) /\ Globals(r)
    BY <1>1, <1>5, ResolvedEntry
  <2> HIDE DEF r, w, e
  <2>2. /\ Found(c, i, ExecOf(e, w.action)[1].base, e.names)
        /\ c.cmdline = r.cmdline \/ first_is_absolute(c)
    BY <2>1, Hardcoded DEF r
  <2> QED
    BY <1>2, <1>5, <2>1, <2>2 DEF w, e
<1> QED
  BY <1>3, <1>4, <1>5

\* What the property leaves out for the command that start resolved as c.
Sound(c) == first_is_absolute(c) => is_wm_id(c.bin) /\ ~c.cmdline[1].entry

LineCarried(c, w) ==
    /\ LineUntouched(service_dropin(c))
    /\ \/ first_is_absolute(c)
       \/ ~w.entry /\ w.at = "bare"
       \/ w.entry /\ w.at = "bare" /\ w.action = NoAction /\ Len(c.cmdline) = 1

NameCarried(c, w) ==
    /\ LineUntouched(preloader_dropin(c).cmdline) /\ NamesUntouched(preloader_dropin(c).names)
    /\ \/ first_is_absolute(c)
       \/ ~w.entry
       \/ /\ w.at = "bare"
          /\ EntryUsable(EntryOf(w), NoAction)
          /\ w.action = NoAction \/ c.exclusive \/ c.names # <<c.bin>>

\* A line and names that systemd does not alter arrive as they are.
LEMMA ServedAsWritten ==
    ASSUME NEW line, LineUntouched(line), NEW names, NamesUntouched(names),
           NEW id, NEW exclusive, NEW xcd
    PROVE  Served(id, line, names, exclusive, xcd) = resolve_aux(id, line, names, exclusive, xcd)
<1>1. LineRead(line) = line /\ ~LineRefused(line)
  BY DEF LineRead, LineRefused
<1>2. NamesRead(names) = names /\ ~NamesRefused(names)
  BY DEF NamesRead, NamesRefused, NamesUntouched
<1> QED
  BY <1>1, <1>2 DEF Served

\* aux exec runs what start resolved.
LEMMA SameCommand ==
    ASSUME NEW i, Proper(i), NEW h, NEW c, c = apply_hardcode(resolve(i), h), c.ok,
           Sound(c), LineCarried(c, Head(i.cmdline))
    PROVE  /\ ExecutedAs(c, Head(i.cmdline).entry).ok
           /\ ExecutedAs(c, Head(i.cmdline).entry).cmdline = c.cmdline
<1> DEFINE w  == Head(i.cmdline)
           e  == EntryOf(w)
           id == InstanceWord(c, w.entry)
           no == FALSE
<1>1. /\ w \in Words /\ w = i.cmdline[1] /\ i.cmdline # <<>> /\ i.cmdline \in Seq(Words)
      /\ ~w.entry => /\ w.action = NoAction /\ Found(c, i, w.base, <<>>)
                     /\ c.cmdline = i.cmdline \/ first_is_absolute(c)
      /\ w.entry => /\ EntryUsable(e, w.action)
                    /\ Found(c, i, ExecOf(e, w.action)[1].base, e.names)
                    /\ \/ c.cmdline = ExecOf(e, w.action) \o Tail(i.cmdline)
                       \/ first_is_absolute(c)
  BY Started DEF Proper
<1>2. /\ c.cmdline \in Seq(Words) /\ c.cmdline # <<>> /\ c.id = w.base /\ is_wm_id(w.base)
      /\ c.cmdline[1].base = c.bin
  BY <1>1 DEF Found
<1>3. /\ id \in Words /\ id.base = w.base /\ id.entry = w.entry /\ id.action = NoAction
      /\ (w.at = "bare" /\ w.action = NoAction) => id = w
      /\ w.at = "bare" => EntryOf(id) = e
  BY <1>1, <1>2, InstanceWords
<1>4. ExecutedAs(c, w.entry) = resolve_aux(id, service_dropin(c), <<>>, no, <<>>)
  <2>1. LineUntouched(service_dropin(c))
    BY DEF LineCarried
  <2>2. NamesUntouched(<<>>)
    BY TextAssumption DEF NamesUntouched
  <2>3. ExecutedAs(c, w.entry) = Served(id, service_dropin(c), <<>>, no, <<>>)
    BY DEF ExecutedAs
  <2> DEFINE line == service_dropin(c)
             none == <<>>
  <2> HIDE DEF line, none, id, w, no
  <2>4. LineUntouched(line) /\ NamesUntouched(none)
    BY <2>1, <2>2 DEF line, none
  <2>5. Served(id, line, none, no, none) = resolve_aux(id, line, none, no, none)
    BY <2>4, ServedAsWritten
  <2> QED
    BY <2>3, <2>5 DEF line, none
<1> SUFFICES /\ resolve_aux(id, service_dropin(c), <<>>, no, <<>>).ok
             /\ resolve_aux(id, service_dropin(c), <<>>, no, <<>>).cmdline = c.cmdline
  BY <1>4
<1>0. LineCarried(c, w)
  OBVIOUS
<1> HIDE DEF id, w, e, no
<1>5. CASE first_is_absolute(c)
  <2>1. service_dropin(c) = c.cmdline
    BY <1>5 DEF service_dropin
  <2>2. c.cmdline[1].at = "abs" /\ ~c.cmdline[1].entry /\ is_wm_id(c.cmdline[1].base)
    BY <1>2, <1>5 DEF Sound, first_is_absolute
  <2> DEFINE line == c.cmdline
  <2>3. /\ line \in Seq(Words) /\ line # <<>> /\ line[1].at = "abs" /\ ~line[1].entry
        /\ is_wm_id(line[1].base)
    BY <1>2, <2>2
  <2> HIDE DEF line
  <2>4. Serves(resolve_aux(id, line, <<>>, no, <<>>), line, line[1].base, <<>>, <<>>, no, <<>>)
    BY <2>3, AuxAbsolute
  <2> QED
    BY <2>1, <2>4 DEF line, Serves
<1>6. CASE ~first_is_absolute(c) /\ ~w.entry
  <2>1. w.at = "bare" /\ w.action = NoAction /\ c.cmdline = i.cmdline
    BY <1>0, <1>1, <1>6 DEF LineCarried
  <2>2. id = w
    BY <1>3, <2>1
  <2> DEFINE args == Tail(i.cmdline)
             line == service_dropin(c)
  <2>3. args \in Seq(Words) /\ i.cmdline = <<w>> \o args
    BY <1>1
  <2>4. AuxArgs(line, args)
    BY <1>6, <2>1 DEF AuxArgs, service_dropin
  <2> HIDE DEF args, line
  <2>6. id \in Words /\ ~id.entry /\ is_wm_id(id.base)
    BY <1>2, <1>3, <1>6
  <2>5. Serves(resolve_aux(id, line, <<>>, no, <<>>), <<id>> \o args, id.base, <<>>,
               <<>>, no, <<>>)
    BY <2>3, <2>4, <2>6, AuxCommand
  <2> QED
    BY <2>1, <2>2, <2>3, <2>5 DEF line, Serves
<1>7. CASE ~first_is_absolute(c) /\ w.entry
  <2>1. /\ w.at = "bare" /\ w.action = NoAction /\ Len(c.cmdline) = 1
        /\ c.cmdline = ExecOf(e, NoAction) \o Tail(i.cmdline)
        /\ EntryUsable(e, NoAction)
    BY <1>0, <1>1, <1>7 DEF LineCarried
  <2>2. ExecOf(e, NoAction) \in Seq(Words) /\ ExecOf(e, NoAction) # <<>>
    BY <1>1, <2>1, EntryTypes DEF e
  <2>3. c.cmdline = ExecOf(e, NoAction)
    <3>1. Tail(i.cmdline) \in Seq(Words)
      BY <1>1
    <3> QED
      BY <2>1, <2>2, <3>1, LineBegins
  <2>4. service_dropin(c) = <<>>
    BY <1>2, <1>7, <2>1 DEF service_dropin
  <2>5. id \in Words /\ id.entry /\ id.action = NoAction /\ is_wm_id(id.base) /\ EntryOf(id) = e
    BY <1>2, <1>3, <1>7, <2>1
  <2>6. Serves(resolve_aux(id, <<>>, <<>>, no, <<>>), ExecOf(e, NoAction),
               ExecOf(e, NoAction)[1].base, e.names, <<>>, no, <<>>)
    BY <2>1, <2>5, AuxEntry
  <2> QED
    BY <2>3, <2>4, <2>6 DEF Serves
<1>8. w.entry \in BOOLEAN
  BY <1>1 DEF Words
<1> QED
  BY <1>5, <1>6, <1>7, <1>8

\* The same names again, from what a service merges.
NamesSurvive(c, r, xcd) ==
    /\ r.ok
    /\ (c.exclusive \/ xcd = <<>>) => r.names = c.names
    /\ c.names # <<c.bin>> => Range(c.names) \subseteq Range(r.names)

\* Whatever way a service comes to its desktop names.
LEMMA ServedNames ==
    ASSUME NEW i, Proper(i), NEW c, NEW bin \in STRING, NEW entryNames \in Seq(STRING),
           Found(c, i, bin, entryNames),
           NEW r, NEW line, NEW bin2 \in STRING, NEW names2 \in Seq(STRING), NEW xcd \in Seq(STRING),
           names2 = entryNames \/ names2 = <<>>,
           c.exclusive \/ c.names # <<bin>> \/ bin2 = bin,
           Serves(r, line, bin2, names2, preloader_dropin(c).names, c.exclusive, xcd)
    PROVE  NamesSurvive(c, r, xcd)
<1> DEFINE names == c.names
           ex == c.exclusive
           cli == i.names
<1>1. /\ names = MergeNames(i, bin, entryNames) /\ c.bin = bin
      /\ c.cliNames = cli /\ ex = i.exclusive /\ ex \in BOOLEAN /\ cli \in Seq(STRING)
  BY DEF Found, Proper
<1>2. /\ names \in Seq(STRING) /\ Distinct(names)
      /\ i.exclusive => names = Dedup(i.names)
      /\ ~i.exclusive => names # <<>> /\ Range(entryNames) \subseteq Range(names)
  BY <1>1, Merged
<1>3. preloader_dropin(c).names = IF ex THEN cli ELSE IF names # <<bin>> THEN names ELSE <<>>
  BY <1>1 DEF preloader_dropin
<1>4. PICK j : /\ j.names = preloader_dropin(c).names /\ j.exclusive = ex /\ j.xcd = xcd
               /\ r.names = MergeNames(j, bin2, names2)
  BY DEF Serves
<1>10. r.ok
  BY DEF Serves
<1>5. Range(<<>>) = {}
  BY DEF Range
<1> HIDE DEF names, ex, cli
<1>6. /\ ex => names = Dedup(cli)
      /\ ~ex => names # <<>> /\ Range(names2) \subseteq Range(names)
  BY <1>1, <1>2, <1>5 DEF cli
<1>7. ex \/ names # <<bin>> \/ bin2 = bin
  BY DEF ex, names
<1>8. j.names = IF ex THEN cli ELSE IF names # <<bin>> THEN names ELSE <<>>
  BY <1>3, <1>4
<1>9. /\ (ex \/ xcd = <<>>) => MergeNames(j, bin2, names2) = names
      /\ names # <<bin>> => Range(names) \subseteq Range(MergeNames(j, bin2, names2))
  BY <1>1, <1>2, <1>4, <1>6, <1>7, <1>8, MergedAgain
<1> QED
  BY <1>1, <1>4, <1>9, <1>10 DEF NamesSurvive, names, ex

\* prepare-env exports what start settled on.
LEMMA SameNames ==
    ASSUME NEW i, Proper(i), NEW h, NEW c, c = apply_hardcode(resolve(i), h), c.ok,
           Sound(c), NameCarried(c, Head(i.cmdline)), NEW xcd \in Seq(STRING)
    PROVE  NamesSurvive(c, PreparedAs(c, Head(i.cmdline).entry, xcd), xcd)
<1> DEFINE w  == Head(i.cmdline)
           e  == EntryOf(w)
           id == InstanceWord(c, w.entry)
           x  == ExecOf(e, w.action)
           bin == IF w.entry THEN x[1].base ELSE w.base
           names == IF w.entry THEN e.names ELSE <<>>
           drop == preloader_dropin(c)
           dnames == drop.names
           ex == c.exclusive
           dline == drop.cmdline
           r == PreparedAs(c, w.entry, xcd)
<1>1. /\ w \in Words /\ i.cmdline \in Seq(Words) /\ w = i.cmdline[1] /\ i.cmdline # <<>>
      /\ ~w.entry => /\ w.action = NoAction /\ Found(c, i, w.base, <<>>)
                     /\ c.cmdline = i.cmdline \/ first_is_absolute(c)
      /\ w.entry => /\ EntryUsable(e, w.action) /\ e.names \in Seq(STRING)
                    /\ Found(c, i, x[1].base, e.names)
  BY Started DEF Proper
<1>2. w.entry => x \in Seq(Words) /\ x # <<>> /\ x[1] \in Words /\ x[1].base \in STRING
  <2>1. ASSUME w.entry PROVE x \in Seq(Words) /\ x # <<>>
    BY <1>1, <2>1, EntryTypes
  <2>2. ASSUME w.entry PROVE x[1] \in Words
    <3> HIDE DEF x
    <3> QED
      BY <2>1, <2>2
  <2> QED
    BY <2>1, <2>2 DEF Words
<1>3. w.base \in STRING /\ w.entry \in BOOLEAN
  BY <1>1 DEF Words
<1>4. Found(c, i, bin, names) /\ bin \in STRING /\ names \in Seq(STRING)
  <2>1. <<>> \in Seq(STRING)
    OBVIOUS
  <2> QED
    BY <1>1, <1>2, <1>3, <2>1
<1>5. /\ c.cmdline \in Seq(Words) /\ c.cmdline # <<>> /\ c.id = w.base /\ is_wm_id(w.base)
      /\ c.cmdline[1].base = bin /\ c.bin = bin
  BY <1>4 DEF Found
<1>6. /\ id \in Words /\ id.base = w.base /\ id.entry = w.entry /\ id.action = NoAction
      /\ w.at = "bare" => EntryOf(id) = e
  BY <1>1, <1>5, InstanceWords
<1>8. NameCarried(c, w)
  OBVIOUS
<1>7. /\ r = resolve_aux(id, dline, dnames, ex, xcd)
      /\ dline = IF first_is_absolute(c) THEN <<c.cmdline[1]>> ELSE <<>>
  <2>1. dline = IF first_is_absolute(c) THEN <<c.cmdline[1]>> ELSE <<>>
    BY DEF preloader_dropin
  <2>2. r = Served(id, dline, dnames, ex, xcd)
    BY DEF PreparedAs, preloader_dropin
  <2>3. LineUntouched(dline) /\ NamesUntouched(dnames)
    BY <1>8 DEF NameCarried
  <2> HIDE DEF r, id, dline, dnames, ex
  <2> QED
    BY <2>1, <2>2, <2>3, ServedAsWritten
<1> SUFFICES NamesSurvive(c, r, xcd)
  OBVIOUS
<1> HIDE DEF r, w, e, id, x, bin, names, drop, dnames, ex, dline
<1>9. ASSUME NEW line, NEW bin2 \in STRING, NEW names2 \in Seq(STRING),
             names2 = names \/ names2 = <<>>,
             c.exclusive \/ c.names # <<bin>> \/ bin2 = bin,
             Serves(r, line, bin2, names2, dnames, ex, xcd)
      PROVE  NamesSurvive(c, r, xcd)
  BY <1>4, <1>9, ServedNames DEF dnames, ex, drop
<1>10. CASE first_is_absolute(c)
  <2> DEFINE first == c.cmdline[1]
             line  == <<first>>
  <2>1. first \in Words /\ first.at = "abs" /\ ~first.entry /\ is_wm_id(first.base)
    BY <1>5, <1>10 DEF Sound, first_is_absolute
  <2>2. first.base = bin /\ dline = line
    BY <1>5, <1>7, <1>10
  <2> HIDE DEF first
  <2>3. line \in Seq(Words) /\ line # <<>> /\ line[1] = first
    BY <2>1
  <2> HIDE DEF line
  <2>4. Serves(resolve_aux(id, line, dnames, ex, xcd), line, line[1].base, <<>>, dnames, ex, xcd)
    BY <2>1, <2>3, AuxAbsolute
  <2>5. Serves(r, line, bin, <<>>, dnames, ex, xcd)
    BY <1>7, <2>2, <2>3, <2>4
  <2>6. <<>> \in Seq(STRING)
    OBVIOUS
  <2> QED
    BY <1>4, <1>9, <2>5, <2>6
<1>11. CASE ~first_is_absolute(c) /\ ~w.entry
  <2>1. dline = <<>> /\ bin = w.base
    BY <1>7, <1>11 DEF bin
  <2>2. id \in Words /\ ~id.entry /\ is_wm_id(id.base)
    BY <1>5, <1>6, <1>11
  <2>3. <<>> \in Seq(Words) /\ AuxArgs(<<>>, <<>>) /\ <<>> \in Seq(STRING)
    BY DEF AuxArgs
  <2>4. Serves(resolve_aux(id, <<>>, dnames, ex, xcd), <<id>> \o <<>>, id.base, <<>>, dnames, ex, xcd)
    BY <2>2, <2>3, AuxCommand
  <2>5. Serves(r, <<id>> \o <<>>, bin, <<>>, dnames, ex, xcd)
    BY <1>6, <1>7, <2>1, <2>4
  <2> QED
    BY <1>4, <1>9, <2>3, <2>5
<1>12. CASE ~first_is_absolute(c) /\ w.entry
  <2> DEFINE y == ExecOf(e, NoAction)
  <2>1. /\ w.at = "bare" /\ EntryUsable(e, NoAction)
        /\ w.action = NoAction \/ c.exclusive \/ c.names # <<bin>>
    BY <1>5, <1>8, <1>12 DEF NameCarried, e
  <2>2. dline = <<>> /\ bin = x[1].base /\ names = e.names
    BY <1>7, <1>12 DEF bin, names
  <2>3. id \in Words /\ id.entry /\ id.action = NoAction /\ is_wm_id(id.base) /\ EntryOf(id) = e
    BY <1>5, <1>6, <1>12, <2>1
  <2>4. y \in Seq(Words) /\ y # <<>>
    BY <1>1, <2>1, EntryTypes DEF e
  <2>5. Serves(resolve_aux(id, <<>>, dnames, ex, xcd), y, y[1].base, e.names, dnames, ex, xcd)
    BY <2>1, <2>3, AuxEntry
  <2>6. w.action = NoAction => y[1].base = bin
    BY <2>2 DEF x
  <2> HIDE DEF y
  <2>7. y[1].base \in STRING
    <3>1. y[1] \in Words
      BY <2>4
    <3> QED
      BY <3>1 DEF Words
  <2>8. Serves(r, y, y[1].base, names, dnames, ex, xcd)
    BY <1>7, <2>2, <2>5
  <2>9. c.exclusive \/ c.names # <<bin>> \/ y[1].base = bin
    BY <2>1, <2>6
  <2> QED
    BY <1>4, <1>9, <2>7, <2>8, <2>9
<1> QED
  BY <1>3, <1>10, <1>11, <1>12

\* What start works with is what it was called with.
TripInv ==
    comp = NoComp \/ \E s \in Starts : /\ input = s.input
                                       /\ comp = apply_hardcode(resolve(input), s.mode.hardcode)

\* That is all the property needs.
LEMMA TripSurvives == TripInv => UnitsRoundTrip
<1> SUFFICES ASSUME TripInv, Resolvable
             PROVE  /\ Carried =>
                          /\ ExecutedAs(comp, Head(input.cmdline).entry).ok
                          /\ ExecutedAs(comp, Head(input.cmdline).entry).cmdline = comp.cmdline
                    /\ NamesCarried =>
                          \A xcd \in ManagerXcds :
                             NamesSurvive(comp, PreparedAs(comp, Head(input.cmdline).entry, xcd), xcd)
  BY DEF UnitsRoundTrip, NamesSurvive
<1>1. comp.ok /\ Sound(comp)
  BY DEF Resolvable, Sound
<1>2. PICK s \in Starts : /\ input = s.input
                          /\ comp = apply_hardcode(resolve(input), s.mode.hardcode)
  BY <1>1 DEF TripInv, NoComp, Failed
<1>3. Proper(input)
  BY <1>2, InputAssumption DEF Proper
<1>4. ASSUME Carried
      PROVE  /\ ExecutedAs(comp, Head(input.cmdline).entry).ok
             /\ ExecutedAs(comp, Head(input.cmdline).entry).cmdline = comp.cmdline
  <2>1. LineCarried(comp, Head(input.cmdline))
    BY <1>4 DEF Carried, LineCarried
  <2> QED
    BY <1>1, <1>2, <1>3, <2>1, SameCommand
<1>5. ASSUME NamesCarried, NEW xcd \in ManagerXcds
      PROVE  NamesSurvive(comp, PreparedAs(comp, Head(input.cmdline).entry, xcd), xcd)
  <2>1. NameCarried(comp, Head(input.cmdline))
    BY <1>5 DEF NamesCarried, NameCarried
  <2>2. xcd \in Seq(STRING)
    BY StartAssumption
  <2> QED
    BY <1>1, <1>2, <1>3, <2>1, <2>2, SameNames
<1> QED
  BY <1>4, <1>5

\* Only StartBegins sets them.
LEMMA TripStep == TripInv /\ [Next]_vars => TripInv'
<1> SUFFICES ASSUME TripInv, [Next]_vars PROVE TripInv'
  OBVIOUS
<1>1. CASE StartBegins
  BY <1>1 DEF StartBegins, TripInv
<1>2. CASE UNCHANGED <<input, comp>>
  BY <1>2 DEF TripInv
<1>3. StartBegins \/ UNCHANGED <<input, comp>>
  BY DEF Next, CheckStep, Start, GstGate, RefuseIfActive, Plan, Apply, Reload, Generated, BindPid,
         SaveLogin, SaveSession, BecomeAnchor, Fails, PrepareLogin, LoadLogin, DeduceNothing,
         Deduce, DeduceFails, PrepareAgain, World, vars, startVars
<1> QED
  BY <1>1, <1>2, <1>3

\* For any sessions, entries, command lines and text conversions: where start's
\* choice can be resolved again (Resolvable), and the drop-ins can carry it and
\* come back as they were written (Carried, NamesCarried), the services run what
\* start resolved and export its desktop names.
THEOREM UnitsCarryTheSession == Spec => []UnitsRoundTrip
<1>1. Init => TripInv
  BY DEF Init, TripInv
<1> QED
  BY <1>1, TripStep, TripSurvives, PTL DEF Spec
=============================================================================
