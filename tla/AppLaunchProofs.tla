-------------------------- MODULE AppLaunchProofs --------------------------
(***************************************************************************)
(* Theorems about AppLaunch, for any requests, entries, names and number   *)
(* of instances: types, success means every instance, unit names fit, the  *)
(* first directory's entry wins, every argument is delivered.              *)
(***************************************************************************)
EXTENDS AppLaunch, TLAPS, WellFoundedInduction, FiniteSetTheorems

-----------------------------------------------------------------------------
(* Unit names.                                                             *)

\* Whole escapes in m bytes.
LEMMA Quarter ==
    ASSUME NEW m \in Nat
    PROVE  m \div 4 \in Nat /\ 4 * (m \div 4) <= m
BY SMT

LEMMA CutFits ==
    ASSUME NEW n \in Name, NEW max \in Nat
    PROVE  Width(Cut(n, max)) \in Nat /\ Width(Cut(n, max)) <= max
<1> DEFINE p == Least(n.pre, max)
           k == (max - p) \div 4
           e == IF p < n.pre THEN 0 ELSE Least(n.esc, k)
           q == IF p < n.pre \/ e < n.esc THEN 0 ELSE Least(n.post, max - p - 4 * e)
<1>1. n.pre \in Nat /\ n.esc \in Nat /\ n.post \in Nat
    BY DEF Name
<1>2. p \in Nat /\ p <= max /\ max - p \in Nat
    BY <1>1 DEF Least
<1>3. k \in Nat /\ 4 * k <= max - p
    BY <1>2, Quarter
<1>4. e \in Nat /\ 4 * e <= max - p
    <2> HIDE DEF p, k
    <2> QED BY <1>1, <1>2, <1>3 DEF Least
<1>5. q \in Nat /\ p + 4 * e + q <= max
    <2> HIDE DEF p, k, e
    <2> QED BY <1>1, <1>2, <1>4 DEF Least
<1>6. Width(Cut(n, max)) = p + 4 * e + q
    BY DEF Width, Cut
<1> HIDE DEF p, e, q
<1> QED
    BY <1>2, <1>4, <1>5, <1>6

LEMMA TruncateFits ==
    ASSUME NEW n \in Name, NEW max \in Nat
    PROVE  /\ Width(truncate_escaped(n, max)) \in Nat
           /\ Width(truncate_escaped(n, max)) <= max
           /\ Width(n) <= max => truncate_escaped(n, max) = n
BY CutFits DEF truncate_escaped, Name, Width

\* The name has at most 255 bytes, and all of them if it has at most 127.
LEMMA NameFits ==
    ASSUME NEW type \in {"scope", "service"}, NEW desktop \in Name, NEW app \in Name
    PROVE  /\ auto_unit_name(type, desktop, app) \in Nat
           /\ auto_unit_name(type, desktop, app) <= 255
           /\ l_static(type) + Width(desktop) + Width(app) <= 127
                => auto_unit_name(type, desktop, app) = l_static(type) + Width(desktop) + Width(app)
<1> DEFINE l == l_static(type)
           d == Width(desktop_sub(type, desktop))
           c == Width(cmd_sub(type, desktop, app))
<1>1. l \in {20, 22}
    BY DEF l_static
<1>2. Width(desktop) \in Nat /\ Width(app) \in Nat
    BY DEF Name, Width
<1>3. /\ d \in Nat /\ l + d <= 127
      /\ l + Width(desktop) <= 127 => d = Width(desktop)
    <2>1. 127 - l \in Nat
        BY <1>1
    <2>2. desktop_sub(type, desktop) =
            IF l + Width(desktop) > 127 THEN truncate_escaped(desktop, 127 - l) ELSE desktop
        BY DEF desktop_sub
    <2> HIDE DEF l
    <2>3. CASE l + Width(desktop) > 127
        BY <2>1, <2>2, <2>3, <1>1, <1>2, TruncateFits
    <2>4. CASE ~(l + Width(desktop) > 127)
        BY <2>2, <2>4, <1>1, <1>2
    <2> QED BY <2>3, <2>4
<1>4. /\ c \in Nat /\ l + d + c <= 255
      /\ l + d + Width(app) <= 255 => c = Width(app)
    <2>2. cmd_sub(type, desktop, app) =
            IF l + d + Width(app) > 255 THEN truncate_escaped(app, 255 - (l + d)) ELSE app
        BY DEF cmd_sub
    <2> HIDE DEF l, d
    <2>1. 255 - (l + d) \in Nat
        BY <1>1, <1>3
    <2>3. CASE l + d + Width(app) > 255
        BY <2>1, <2>2, <2>3, <1>1, <1>2, <1>3, TruncateFits
    <2>4. CASE ~(l + d + Width(app) > 255)
        BY <2>2, <2>4, <1>1, <1>2, <1>3
    <2> QED BY <2>3, <2>4
<1>5. auto_unit_name(type, desktop, app) = l + d + c
    BY DEF auto_unit_name
<1> HIDE DEF l, d, c
<1>6. l_static(type) = l
    BY DEF l
<1> QED
    BY <1>1, <1>2, <1>3, <1>4, <1>5, <1>6

-----------------------------------------------------------------------------
(* Command lines.                                                          *)

\* A function over 1..n is a sequence of length n.
LEMMA Numbered ==
    ASSUME NEW n \in Nat, NEW f, f = [i \in 1..n |-> f[i]]
    PROVE  Len(f) = n /\ DOMAIN f = 1..n
BY SMT

\* One more child.
LEMMA OneMore ==
    ASSUME NEW S, NEW c \in Seq(S), NEW x \in S
    PROVE  Append(c, x) \in Seq(S) /\ Len(Append(c, x)) = Len(c) + 1
OBVIOUS

\* A request comes to finitely many command lines, whatever the entry's Exec
\* expands to.
LEMMA LinesCount ==
    ASSUME NEW r \in Requests, NEW e
    PROVE  Len(resolve_target(r, e)) \in Nat
<1>1. r.kind \in {"nothing", "entry", "command"} /\ r.args \in Seq(STRING)
    BY LaunchAssumption
<1>2. ASSUME NEW exec, NEW icon
      PROVE  Len(gen_entry_args(exec, r.args, icon)) \in Nat
  <2> DEFINE st == FoldLeft(LAMBDA s, tok : Expand(s, tok, r.args, icon), NothingYet, exec)
             lines == [i \in DOMAIN r.args |-> Instance(st, r.args, i)]
  <2>1. gen_entry_args(exec, r.args, icon) \in {<<>>, lines, <<st.out>>}
    BY DEF gen_entry_args
  <2>2. Len(lines) \in Nat
    <3> HIDE DEF st
    <3>1. Len(r.args) \in Nat /\ DOMAIN r.args = 1..Len(r.args)
        BY <1>1
    <3>2. lines = [i \in 1..Len(r.args) |-> lines[i]]
        BY <3>1
    <3> HIDE DEF lines
    <3> QED BY <3>1, <3>2, Numbered
  <2>3. \A x : Len(<<x>>) \in Nat
    OBVIOUS
  <2> HIDE DEF lines, st
  <2> QED BY <2>1, <2>2, <2>3
<1>3. Len(EntryLines(r, e)) \in Nat
    BY <1>2 DEF EntryLines
<1>4. Len(CommandLines(r)) \in Nat
    BY DEF CommandLines
<1> QED
    BY <1>1, <1>3, <1>4 DEF resolve_target

-----------------------------------------------------------------------------
(* The inductive invariant: the types; how far the loop over the instances *)
(* has got; all_ok speaks of those that were waited for; unit names.       *)

ArgvsInv == Len(argvs) \in Nat /\ DOMAIN argvs = 1..Len(argvs)

LoopInv ==
    /\ step \in {"resolve", "exec"} => child = <<>> /\ waited = 0
    /\ step = "spawn" => Len(child) < Len(argvs) /\ waited = 0
    /\ step = "wait" => Len(child) = Len(argvs)
    /\ step = "exec" => Len(argvs) = 1
    /\ step # "end" => result = "none"

WaitInv ==
    /\ all_ok => \A i \in 1..waited : child[i] = "ok"
    /\ result = "ok" => all_ok /\ waited = Len(child) /\ Len(child) = Len(argvs)

LaunchInv == LaunchTypeOK /\ ArgvsInv /\ LoopInv /\ WaitInv /\ UnitNamesFit

LEMMA InitLaunch == Init => LaunchInv
BY DEF Init, LaunchInv, LaunchTypeOK, ArgvsInv, LoopInv, WaitInv, UnitNamesFit

\* The name of every unit that Resolve puts together.
LEMMA ResolvedNames ==
    ASSUME NEW r \in Requests, NEW n \in Nat, OptionsOk(r, n),
           NEW desktop \in Desktops, NEW hex, NEW i \in 1..n
    PROVE  LET unit == UnitNames(r, n, desktop, hex)[i]
           IN unit.len <= 255 /\ (unit.full <= 127 => unit.len = unit.full)
<1>1. /\ desktop \in Name /\ Shapes[app_name(r)] \in Name
      /\ r.type \in {"scope", "service"}
    BY LaunchAssumption, ShapesAssumption
<1>2. CASE n = 1 /\ r.unit # None
    BY <1>2 DEF UnitNames, OptionsOk
<1>3. CASE ~(n = 1 /\ r.unit # None)
    BY <1>1, <1>3, NameFits DEF UnitNames
<1> QED
    BY <1>2, <1>3

LEMMA ResolveKeeps ==
    ASSUME LaunchInv, Resolve
    PROVE  LaunchInv'
<1> USE DEF LaunchInv
<1>1. /\ step = "resolve"
      /\ UNCHANGED <<req, child, waited, all_ok, units>>
    BY DEF Resolve
<1>a. PICK e \in (IF req.kind = "entry" THEN load_entry(req) ELSE {None}),
           desktop \in Desktops, termOk \in BOOLEAN :
        \E hex \in [1..Len(resolve_target(req, e)) -> Hexes] :
            IF \/ Len(resolve_target(req, e)) = 0 
               \/ ~OptionsOk(req, Len(resolve_target(req, e)))
               \/ (want_terminal(req, e) /\ ~termOk)
            THEN /\ step' = "end"
                 /\ result' = "error"
                 /\ UNCHANGED <<source, argvs>>
            ELSE /\ argvs' = [i \in 1..Len(resolve_target(req, e)) |->
                                build_argv(req, e, resolve_target(req, e)[i],
                                    UnitNames(req, Len(resolve_target(req, e)), desktop, hex)[i])]
                 /\ source' = e
                 /\ step' = (IF Len(resolve_target(req, e)) = 1 THEN "exec" ELSE "spawn")
                 /\ UNCHANGED result
    BY DEF Resolve
<1> DEFINE n == Len(resolve_target(req, e))
<1>2. PICK hex :
        \/ step' = "end" /\ result' = "error" /\ UNCHANGED <<source, argvs>>
        \/ /\ n # 0 /\ OptionsOk(req, n)
           /\ argvs' = [i \in 1..n |-> build_argv(req, e, resolve_target(req, e)[i],
                                                  UnitNames(req, n, desktop, hex)[i])]
           /\ step' = (IF n = 1 THEN "exec" ELSE "spawn")
           /\ UNCHANGED result
    BY <1>a
<1>3. req \in Requests /\ child = <<>> /\ waited = 0 /\ result = "none" /\ all_ok \in BOOLEAN
    BY <1>1 DEF LaunchTypeOK, LoopInv
<1>4. n \in Nat
    BY <1>3, LinesCount
<1> HIDE DEF n
<1>5. CASE step' = "end" /\ result' = "error" /\ UNCHANGED <<source, argvs>>
    BY <1>1, <1>3, <1>5 DEF LaunchTypeOK, ArgvsInv, LoopInv, WaitInv, UnitNamesFit
<1>6. CASE /\ n # 0 /\ OptionsOk(req, n)
           /\ argvs' = [i \in 1..n |-> build_argv(req, e, resolve_target(req, e)[i],
                                                  UnitNames(req, n, desktop, hex)[i])]
           /\ step' = (IF n = 1 THEN "exec" ELSE "spawn")
           /\ UNCHANGED result
  <2>1. Len(argvs') = n /\ DOMAIN argvs' = 1..n
    <3>1. argvs' = [i \in 1..n |-> argvs'[i]]
        BY <1>6
    <3> QED BY <1>4, <3>1, Numbered
  <2>2. ArgvsInv' /\ LoopInv'
    BY <1>1, <1>3, <1>4, <1>6, <2>1 DEF ArgvsInv, LoopInv
  <2>3. LaunchTypeOK' /\ WaitInv'
    BY <1>1, <1>3, <1>4, <1>6, <2>1 DEF LaunchTypeOK, WaitInv
  <2>4. UnitNamesFit'
    <3> SUFFICES ASSUME NEW i \in 1..n
                 PROVE  /\ argvs'[i].unit.len <= 255
                        /\ argvs'[i].unit.full <= 127 => argvs'[i].unit.len = argvs'[i].unit.full
        BY <2>1 DEF UnitNamesFit
    <3>1. argvs'[i].unit = UnitNames(req, n, desktop, hex)[i]
        BY <1>6 DEF build_argv
    <3> QED
        BY <1>3, <1>4, <1>6, <3>1, ResolvedNames
  <2> QED
    BY <2>2, <2>3, <2>4
<1> QED
    BY <1>2, <1>5, <1>6

LEMMA LaunchNext == LaunchInv /\ [Next]_vars => LaunchInv'
<1> SUFFICES ASSUME LaunchInv, [Next]_vars PROVE LaunchInv'
    OBVIOUS
<1>t. /\ req \in Requests /\ waited \in Nat /\ waited <= Len(child) /\ Len(child) <= Len(argvs)
      /\ Len(argvs) \in Nat /\ Len(child) \in Nat /\ all_ok \in BOOLEAN
      /\ child \in Seq({"running", "ok", "failed"})
      /\ LoopInv /\ WaitInv /\ ArgvsInv /\ UnitNamesFit
    BY DEF LaunchInv, LaunchTypeOK, ArgvsInv
<1>0. CASE UNCHANGED vars
    BY <1>0 DEF vars, LaunchInv, LaunchTypeOK, ArgvsInv, LoopInv, WaitInv, UnitNamesFit
<1>1. CASE Resolve
    BY <1>1, ResolveKeeps
<1>2. CASE Exec
  <2>1. child = <<>> /\ waited = 0 /\ Len(argvs) = 1 /\ result = "none"
    BY <1>2, <1>t DEF Exec, LoopInv
  <2>2. /\ step' = "end" /\ UNCHANGED <<req, argvs, waited, all_ok>>
        /\ result' \in {"replaced", "error"}
        /\ child' \in {<<>>, <<"failed">>, <<"running">>}
    BY <1>2, <2>1 DEF Exec
  <2>3. child' \in Seq({"running", "ok", "failed"})
    <3>1. /\ <<>> \in Seq({"running", "ok", "failed"})
          /\ \A x \in {"failed", "running"} : <<x>> \in Seq({"running", "ok", "failed"})
        OBVIOUS
    <3> QED BY <2>2, <3>1
  <2>4. Len(child') \in {0, 1}
    BY <2>2
  <2>5. LaunchTypeOK'
    BY <1>t, <2>1, <2>2, <2>3, <2>4 DEF LaunchTypeOK
  <2>6. ArgvsInv' /\ UnitNamesFit'
    <3>1. ArgvsInv /\ UnitNamesFit /\ UNCHANGED argvs
        BY <1>t, <2>2
    <3> QED BY <3>1 DEF ArgvsInv, UnitNamesFit
  <2>7. LoopInv' /\ WaitInv'
    BY <2>1, <2>2 DEF LoopInv, WaitInv
  <2> QED
    BY <2>5, <2>6, <2>7 DEF LaunchInv
<1>3. CASE Spawn
  <2>1. PICK how \in {"failed", "running"} : child' = Append(child, how)
    BY <1>3 DEF Spawn
  <2>2. waited = 0 /\ result = "none" /\ Len(child) < Len(argvs)
    BY <1>3, <1>t DEF Spawn, LoopInv
  <2>3. /\ UNCHANGED <<req, argvs, waited, all_ok, result>>
        /\ step' = (IF Len(child) + 1 = Len(argvs) THEN "wait" ELSE "spawn")
    BY <1>3 DEF Spawn
  <2>4. child' \in Seq({"running", "ok", "failed"}) /\ Len(child') = Len(child) + 1
    <3>1. how \in {"running", "ok", "failed"}
        OBVIOUS
    <3> QED BY <1>t, <2>1, <3>1, OneMore
  <2>n. Len(child') = Len(child) + 1
    BY <2>4
  <2>5. LaunchTypeOK'
    BY <1>t, <2>2, <2>3, <2>4 DEF LaunchTypeOK
  <2>6. ArgvsInv' /\ UnitNamesFit'
    <3>1. ArgvsInv /\ UnitNamesFit /\ UNCHANGED argvs
        BY <1>t, <2>3
    <3> QED BY <3>1 DEF ArgvsInv, UnitNamesFit
  <2>7. LoopInv'
    <3>1. Len(child) \in Nat /\ Len(argvs) \in Nat
        BY <1>t
    <3> QED BY <2>2, <2>3, <2>n, <3>1 DEF LoopInv
  <2>8. WaitInv'
    BY <2>2, <2>3 DEF WaitInv
  <2> QED
    BY <2>5, <2>6, <2>7, <2>8 DEF LaunchInv
<1> USE DEF LaunchInv, LaunchTypeOK, ArgvsInv
<1>4. CASE SpawnFails \/ Killed
    BY <1>4 DEF SpawnFails, Killed, LoopInv, WaitInv, UnitNamesFit
<1>5. CASE Wait
  <2>1. /\ waited < Len(child) /\ waited' = waited + 1 /\ step = "wait" /\ result = "none"
        /\ all_ok' = (all_ok /\ child[waited + 1] = "ok")
        /\ UNCHANGED <<req, step, argvs, child, result>>
    BY <1>5 DEF Wait, LoopInv
  <2>2. LaunchTypeOK' /\ ArgvsInv' /\ UnitNamesFit'
    BY <2>1 DEF UnitNamesFit
  <2>3. LoopInv'
    BY <2>1 DEF LoopInv
  <2>4. ASSUME all_ok', NEW i \in 1..waited' PROVE child[i] = "ok"
    <3>1. all_ok /\ child[waited + 1] = "ok"
        BY <2>1, <2>4
    <3>2. CASE i = waited + 1
        BY <3>1, <3>2
    <3>3. CASE i # waited + 1
      <4>1. i \in 1..waited
        BY <2>1, <3>3
      <4> QED BY <3>1, <4>1 DEF WaitInv
    <3> QED BY <3>2, <3>3
  <2>5. WaitInv'
    BY <2>1, <2>4 DEF WaitInv
  <2> QED
    BY <2>2, <2>3, <2>5
<1>6. CASE Finish
    BY <1>6 DEF Finish, LoopInv, WaitInv, UnitNamesFit
<1>7. ASSUME NEW i \in DOMAIN child, ChildEnds(i) PROVE LaunchInv'
  <2>1. PICK how \in {"ok", "failed"} : child' = [child EXCEPT ![i] = how]
    BY <1>7 DEF ChildEnds
  <2>2. child' \in Seq({"running", "ok", "failed"}) /\ Len(child') = Len(child)
    BY <2>1
  <2>3. \A k \in DOMAIN child : child[k] = "ok" => child'[k] = "ok"
    BY <1>7, <2>1 DEF ChildEnds
  <2>a. /\ UNCHANGED <<step, argvs, waited, all_ok, result>>
        /\ child # <<>>
        /\ 1..waited \subseteq DOMAIN child
    BY <1>7 DEF ChildEnds
  <2>4. WaitInv'
    <3>1. ASSUME all_ok, NEW k \in 1..waited PROVE child'[k] = "ok"
        BY <2>3, <2>a, <3>1 DEF WaitInv
    <3> QED BY <2>2, <2>a, <3>1 DEF WaitInv
  <2>5. LoopInv'
    BY <2>2, <2>a DEF LoopInv
  <2> QED
    BY <1>7, <2>2, <2>4, <2>5 DEF ChildEnds, UnitNamesFit
<1>8. CASE OthersStart
    BY <1>8 DEF OthersStart, LoopInv, WaitInv, UnitNamesFit
<1> QED
    BY <1>0, <1>1, <1>2, <1>3, <1>4, <1>5, <1>6, <1>7, <1>8 DEF Next

\* Types, for any requests: no child is ever waited for that was not spawned,
\* and no more are spawned than there are command lines.
THEOREM LaunchTypeCorrect == Spec => []LaunchTypeOK
<1>1. LaunchInv => LaunchTypeOK
    BY DEF LaunchInv
<1> QED
    BY <1>1, InitLaunch, LaunchNext, PTL DEF Spec

\* For any number of instances, in whatever order they end: a launch that
\* reports success has started all of them and all have ended well.
THEOREM OkIsAll == Spec => []OkMeansAll
<1>1. LaunchInv => OkMeansAll
    BY DEF LaunchInv, LaunchTypeOK, ArgvsInv, WaitInv, OkMeansAll
<1> QED
    BY <1>1, InitLaunch, LaunchNext, PTL DEF Spec

\* For names of any length with any escapes in them: no unit name is longer
\* than systemd allows, and none is cut that need not be.
THEOREM NamesFit == Spec => []UnitNamesFit
<1>1. LaunchInv => UnitNamesFit
    BY DEF LaunchInv
<1> QED
    BY <1>1, InitLaunch, LaunchNext, PTL DEF Spec

-----------------------------------------------------------------------------
(* The lookup of entries.                                                  *)

\* Some numbers have a least one.
LEMMA LeastNumber ==
    ASSUME NEW T \in SUBSET Nat, T # {}
    PROVE  \E i \in T : \A k \in T : i <= k
<1> DEFINE R == {ss \in Nat \X Nat : ss[1] < ss[2]}
<1>1. IsWellFoundedOn(R, Nat)
  BY NatLessThanWellFounded DEF OpToRel
<1>2. PICK i \in T : \A k \in T : ~(<<k, i>> \in R)
  <2> HIDE DEF R
  <2> QED
    BY <1>1, WFMin
<1>3. \A k \in T : ~(k < i)
  BY <1>2
<1> QED
  BY <1>3

\* find_entry: what comes of a lookup that yields an entry is a file of the
\* first directory that has the id and can be listed.
LEMMA FoundFirst ==
    ASSUME NEW id, NEW e \in find_entry(DataDirs, id), e.kind = "entry"
    PROVE  \E i \in DOMAIN DataDirs :
              /\ \E f \in DataDirs[i] : f.id = id /\ f.file = e
              /\ \A j \in 1..(i - 1) : \A f \in DataDirs[j] : f.listed => f.id # id
<1> DEFINE having == {i \in DOMAIN DataDirs : walk(DataDirs[i], id) # {}}
           first  == CHOOSE i \in having : \A j \in having : i <= j
<1>1. DOMAIN DataDirs = 1..Len(DataDirs) /\ Len(DataDirs) \in Nat
  BY LaunchAssumption
<1>2. having # {} /\ e \in walk(DataDirs[first], id)
  BY DEF find_entry, NotFound
<1>3. first \in having /\ \A j \in having : first <= j
  <2>1. having \in SUBSET Nat
    BY <1>1
  <2>2. \E i \in having : \A j \in having : i <= j
    <3> HIDE DEF having
    <3> QED
      BY <1>2, <2>1, LeastNumber
  <2> HIDE DEF having
  <2> QED
    BY <2>2
<1> HIDE DEF first
<1>4. PICK f \in DataDirs[first] : f.id = id /\ e = Parsed(f.file)
  BY <1>2 DEF walk
<1>5. e = f.file
  BY <1>4 DEF Parsed, LookupFailed
<1>6. ASSUME NEW j \in 1..(first - 1), NEW g \in DataDirs[j], g.listed PROVE g.id # id
  <2>1. j \in DOMAIN DataDirs /\ ~(first <= j)
    BY <1>1, <1>3
  <2>2. walk(DataDirs[j], id) = {}
    BY <1>3, <2>1
  <2> DEFINE there == {h \in DataDirs[j] : h.listed /\ h.id = id}
  <2>3. there = {}
    <3>1. walk(DataDirs[j], id) = {Parsed(h.file) : h \in there}
      BY DEF walk
    <3> HIDE DEF there
    <3> QED
      BY <2>2, <3>1
  <2> QED
    BY <1>6, <2>3, Zenon
<1> QED
  BY <1>3, <1>4, <1>5, <1>6

\* Only Resolve decides which entry it is.
LEMMA FirstEntryNext ==
    ASSUME FirstEntryWins, LaunchInv, [Next]_vars
    PROVE  FirstEntryWins'
<1>1. CASE Resolve
  <2>1. PICK e \in (IF req.kind = "entry" THEN load_entry(req) ELSE {None}) :
            \/ UNCHANGED <<source, argvs>>
            \/ Len(resolve_target(req, e)) # 0 /\ source' = e
    BY <1>1 DEF Resolve
  <2>2. req' = req /\ req \in Requests
    BY <1>1 DEF Resolve, LaunchInv, LaunchTypeOK
  <2>3. CASE UNCHANGED <<source, argvs>>
    BY <2>2, <2>3 DEF FirstEntryWins
  <2>4. CASE Len(resolve_target(req, e)) # 0 /\ source' = e
    <3>1. SUFFICES ASSUME req.kind = "entry", req.path = None
                   PROVE  /\ \E i \in DOMAIN DataDirs :
                                /\ \E f \in DataDirs[i] : f.id = req.target /\ f.file = e
                                /\ \A j \in 1..(i - 1) :
                                      \A f \in DataDirs[j] : f.listed => f.id # req.target
                          /\ ~e.hidden
      BY <2>2, <2>4 DEF FirstEntryWins
    <3>2. EntryLines(req, e) # <<>>
      BY <2>4, <3>1 DEF resolve_target
    <3>3. e.kind = "entry" /\ check_basic(e, req.action, Executables)
      BY <3>2 DEF EntryLines
    <3>4. e \in find_entry(DataDirs, req.target)
      BY <2>1, <3>1 DEF load_entry
    <3>5. ~e.hidden
      BY <3>3 DEF check_basic
    <3> QED
      BY <3>3, <3>4, <3>5, FoundFirst
  <2> QED
    BY <2>1, <2>3, <2>4
<1>2. ASSUME UNCHANGED <<req, source, argvs>> PROVE FirstEntryWins'
  BY <1>2 DEF FirstEntryWins
<1> QED
  BY <1>1, <1>2 DEF Next, Exec, Spawn, SpawnFails, Wait, Finish, Killed, ChildEnds, OthersStart, vars

\* For any data directories: the user's own entry, hidden, broken or unreadable,
\* is never passed over for the system's, unless its directory cannot be listed.
THEOREM FirstEntryWinsAlways == Spec => []FirstEntryWins
<1>1. Init => FirstEntryWins
  BY DEF Init, FirstEntryWins
<1> QED
  BY <1>1, FirstEntryNext, InitLaunch, LaunchNext, PTL DEF Spec

-----------------------------------------------------------------------------
(* Field codes.  Expanded is the loop of gen_entry_args over the tokens of *)
(* an Exec; what it keeps, token by token, is where the arguments stand in *)
(* the words put out so far.                                               *)

Expanded(exec, args, icon) ==
    FoldLeft(LAMBDA s, tok : Expand(s, tok, args, icon), NothingYet, exec)

\* Induction, over a set rather than a predicate.
LEMMA Induction ==
    ASSUME NEW S, 0 \in S, \A n \in S \cap Nat : n + 1 \in S
    PROVE  Nat \subseteq S
<1> SUFFICES ASSUME Nat \ S # {} PROVE FALSE
  OBVIOUS
<1>1. PICK i \in Nat \ S : \A k \in Nat \ S : i <= k
  BY LeastNumber
<1>2. i # 0 /\ i - 1 \in Nat
  BY <1>1
<1>3. i - 1 \in S
  BY <1>1, <1>2
<1> QED
  BY <1>1, <1>2, <1>3

\* FoldLeft takes the last index first.
LEMMA MaxIn ==
    ASSUME NEW n \in Nat, NEW s \in SUBSET (1..n), s # {}
    PROVE  Max(s) \in s /\ \A y \in s : Max(s) >= y
<1> DEFINE T == {n - k : k \in s}
<1>1. T \in SUBSET Nat /\ T # {}
  <2>1. \A k \in s : n - k \in Nat
    OBVIOUS
  <2> QED
    BY <2>1
<1>2. PICK i \in T : \A j \in T : i <= j
  BY <1>1, LeastNumber
<1>3. PICK k \in s : i = n - k
  OBVIOUS
<1>4. \A y \in s : n - k <= n - y
  BY <1>2, <1>3
<1>5. \A y \in s : k >= y
  BY <1>4
<1> QED
  BY <1>5 DEF Max

\* FoldLeft is defined over the subsets of the sequence's domain.  There is a
\* function that satisfies its equation, so CHOOSE gives one ...
FoldEqn(g, N, exec, args, icon) ==
    g = [s \in SUBSET (1..N) |->
            IF s = {} THEN NothingYet
            ELSE Expand(g[s \ {Max(s)}], exec[Max(s)], args, icon)]

LEMMA FoldExists ==
    ASSUME NEW N \in Nat, NEW exec, NEW args, NEW icon
    PROVE  \E g : FoldEqn(g, N, exec, args, icon)
<1> USE DEF FoldEqn
<1> DEFINE Good(n, g) == FoldEqn(g, n, exec, args, icon)
           S == {n \in Nat : \E g : Good(n, g)}
<1>1. 0 \in S
  <2> DEFINE g == [s \in {{}} |-> NothingYet]
  <2>1. SUBSET (1..0) = {{}}
    OBVIOUS
  <2>2. Good(0, g)
    BY <2>1
  <2> QED
    BY <2>2
<1>2. ASSUME NEW n \in S PROVE n + 1 \in S
  <2>1. n \in Nat
    OBVIOUS
  <2>2. PICK g : Good(n, g)
    OBVIOUS
  <2> DEFINE h == [s \in SUBSET (1..n+1) |->
                     IF n + 1 \in s THEN Expand(g[s \ {n + 1}], exec[n + 1], args, icon) ELSE g[s]]
  <2>3. ASSUME NEW s \in SUBSET (1..n+1), n + 1 \in s
        PROVE  s \ {n + 1} \in SUBSET (1..n) /\ s # {} /\ Max(s) = n + 1
    <3>1. n + 1 \in Nat /\ s # {}
      BY <2>1, <2>3
    <3>2. Max(s) \in s /\ Max(s) >= n + 1
      BY <2>3, <3>1, MaxIn
    <3>3. Max(s) = n + 1
      <4>1. Max(s) \in 1..n+1
        BY <3>2
      <4> QED
        BY <2>1, <3>2, <4>1
    <3>4. \A k \in s \ {n + 1} : k \in 1..n
      BY <2>1
    <3> QED
      BY <3>1, <3>3, <3>4
  <2>4. ASSUME NEW s \in SUBSET (1..n+1)
        PROVE  h[s] = IF s = {} THEN NothingYet
                      ELSE Expand(h[s \ {Max(s)}], exec[Max(s)], args, icon)
    <3>1. CASE n + 1 \in s
      <4>1. h[s \ {n + 1}] = g[s \ {n + 1}]
        BY <2>1, <2>3, <3>1
      <4> QED
        BY <2>3, <3>1, <4>1
    <3>2. CASE n + 1 \notin s
      <4>1. s \in SUBSET (1..n) /\ h[s] = g[s]
        BY <2>1, <3>2
      <4>2. g[s] = IF s = {} THEN NothingYet
                   ELSE Expand(g[s \ {Max(s)}], exec[Max(s)], args, icon)
        BY <2>2, <4>1
      <4>3. h[s \ {Max(s)}] = g[s \ {Max(s)}]
        BY <3>2
      <4> QED
        BY <4>1, <4>2, <4>3
    <3> QED
      BY <3>1, <3>2
  <2>5. Good(n + 1, h)
    <3>1. h = [s \in SUBSET (1..n+1) |-> h[s]]
      OBVIOUS
    <3> HIDE DEF h
    <3> QED
      BY <2>4, <3>1
  <2> HIDE DEF h, Good
  <2> QED
    BY <2>1, <2>5
<1>3. N \in S
  <2> HIDE DEF S
  <2> QED
    BY <1>1, <1>2, Induction
<1> QED
  BY <1>3

\* ... and its value is what the loop over the sequence ends with.
FoldRun(run, N, exec, args, icon) ==
    /\ run[0] = NothingYet
    /\ \A n \in 1..N : run[n] = Expand(run[n - 1], exec[n], args, icon)
    /\ Expanded(exec, args, icon) = run[N]

LEMMA FoldRuns ==
    ASSUME NEW N \in Nat, NEW exec, NEW args, NEW icon, DOMAIN exec = 1..N
    PROVE  \E run : FoldRun(run, N, exec, args, icon)
<1> DEFINE g == CHOOSE g : FoldEqn(g, N, exec, args, icon)
           h == [n \in 0..N |-> g[1..n]]
<1>1. FoldEqn(g, N, exec, args, icon)
  BY FoldExists
<1>2. Expanded(exec, args, icon) = g[1..N]
  BY DEF Expanded, FoldLeft, MapThenFoldSet, FoldEqn
<1> HIDE DEF g
<1>3. h[0] = NothingYet
  <2>1. 1..0 = {} /\ {} \in SUBSET (1..N)
    OBVIOUS
  <2>2. g[{}] = NothingYet
    BY <1>1, <2>1 DEF FoldEqn
  <2> QED
    BY <2>1, <2>2
<1>4. ASSUME NEW n \in 1..N PROVE h[n] = Expand(h[n - 1], exec[n], args, icon)
  <2>1. 1..n \in SUBSET (1..N) /\ 1 \in 1..n
    OBVIOUS
  <2>2. Max(1..n) = n
    <3>1. n \in Nat /\ n \in 1..n /\ 1..n \in SUBSET (1..n)
      OBVIOUS
    <3>2. Max(1..n) \in 1..n /\ Max(1..n) >= n
      BY <3>1, MaxIn
    <3> QED
      BY <3>2
  <2>3. (1..n) \ {n} = 1..(n - 1)
    OBVIOUS
  <2>4. g[1..n] = Expand(g[1..(n - 1)], exec[n], args, icon)
    BY <1>1, <2>1, <2>2, <2>3 DEF FoldEqn
  <2>5. n \in 0..N /\ n - 1 \in 0..N
    OBVIOUS
  <2> QED
    BY <2>4, <2>5
<1>5. h[N] = g[1..N]
  <2>1. N \in 0..N
    OBVIOUS
  <2> QED
    BY <2>1
<1> HIDE DEF h
<1>6. FoldRun(h, N, exec, args, icon)
  BY <1>2, <1>3, <1>4, <1>5 DEF FoldRun
<1> QED
  BY <1>6

\* Output words.
Letters == {"c", "k", "i", "--icon"}

Word == {Lit(t) : t \in Token} \cup {Of(l) : l \in Letters}
        \cup {Put(t[1], t[2], t[3]) : t \in Token \X STRING \X BOOLEAN}

Words == Seq(Word)

\* A word that is a token as it stands, or of the entry's own, is no argument.
LEMMA WordKinds ==
    /\ \A t \in Token : Lit(t) \in Word /\ Lit(t).is = "lit"
    /\ \A l \in Letters : Of(l) \in Word /\ Of(l).is = "ctx"
BY DEF Lit, Of, Word

\* A token with an argument put in is a word with that argument.
LEMMA PutWord ==
    ASSUME NEW t \in Token, NEW a \in STRING, NEW u \in BOOLEAN
    PROVE  Put(t, a, u) \in Word /\ Put(t, a, u).is = "put" /\ Put(t, a, u).arg = a
<1>1. <<t, a, u>> \in Token \X STRING \X BOOLEAN
  OBVIOUS
<1>2. Put(t, a, u) \in {Put(x[1], x[2], x[3]) : x \in Token \X STRING \X BOOLEAN}
  BY <1>1
<1>3. Put(t, a, u).is = "put" /\ Put(t, a, u).arg = a
  BY DEF Put
<1> QED
  BY <1>2, <1>3 DEF Word

\* No argument among the words.
NoPuts(out) == \A j \in DOMAIN out : out[j].is # "put"

\* All the arguments, in their order, behind the first k words.
AllAt(out, args, k) ==
    /\ k + Len(args) <= Len(out)
    /\ \A j \in DOMAIN out : out[j].is = "put" => k < j /\ j <= k + Len(args)
    /\ \A j \in DOMAIN args : out[k + j].is = "put" /\ out[k + j].arg = args[j]

\* Sequences one behind the other.
LEMMA Joined ==
    ASSUME NEW S, NEW a \in Seq(S), NEW b \in Seq(S)
    PROVE  /\ a \o b \in Seq(S)
           /\ Len(a) \in Nat /\ Len(b) \in Nat
           /\ Len(a \o b) = Len(a) + Len(b)
           /\ DOMAIN a = 1..Len(a) /\ DOMAIN b = 1..Len(b)
           /\ DOMAIN (a \o b) = 1..(Len(a) + Len(b))
           /\ \A j \in 1..Len(a) : (a \o b)[j] = a[j]
           /\ \A j \in 1..Len(b) : (a \o b)[Len(a) + j] = b[j]
           /\ \A j \in (Len(a) + 1)..(Len(a) + Len(b)) : (a \o b)[j] = b[j - Len(a)]
BY SMT

\* Words behind words.
LEMMA JoinedWords ==
    ASSUME NEW a \in Words, NEW b \in Words
    PROVE  /\ a \o b \in Words
           /\ Len(a) \in Nat /\ Len(b) \in Nat
           /\ Len(a \o b) = Len(a) + Len(b)
           /\ DOMAIN a = 1..Len(a) /\ DOMAIN b = 1..Len(b)
           /\ DOMAIN (a \o b) = 1..(Len(a) + Len(b))
           /\ \A j \in 1..Len(a) : (a \o b)[j] = a[j]
           /\ \A j \in 1..Len(b) : (a \o b)[Len(a) + j] = b[j]
           /\ \A j \in (Len(a) + 1)..(Len(a) + Len(b)) : (a \o b)[j] = b[j - Len(a)]
BY Joined DEF Words

\* Words without arguments, one behind the other.
LEMMA NoPutsGrow ==
    ASSUME NEW a \in Words, NEW b \in Words, NoPuts(a), NoPuts(b)
    PROVE  NoPuts(a \o b)
<1> DEFINE c == a \o b
<1>1. /\ Len(a) \in Nat /\ Len(b) \in Nat
      /\ DOMAIN a = 1..Len(a) /\ DOMAIN b = 1..Len(b)
      /\ DOMAIN c = 1..(Len(a) + Len(b))
      /\ \A j \in 1..Len(a) : c[j] = a[j]
      /\ \A j \in (Len(a) + 1)..(Len(a) + Len(b)) : c[j] = b[j - Len(a)]
  BY JoinedWords
<1> HIDE DEF c
<1>2. ASSUME NEW j \in DOMAIN c PROVE c[j].is # "put"
  <2>1. CASE j <= Len(a)
    BY <1>1, <2>1 DEF NoPuts
  <2>2. CASE j > Len(a)
    <3>1. j - Len(a) \in DOMAIN b /\ c[j] = b[j - Len(a)]
      BY <1>1, <2>2
    <3> QED
      BY <3>1 DEF NoPuts
  <2> QED
    BY <1>1, <2>1, <2>2
<1> QED
  BY <1>2 DEF NoPuts, c

\* What comes behind the arguments changes nothing.
LEMMA AllAtGrows ==
    ASSUME NEW a \in Words, NEW b \in Words, NEW args \in Seq(STRING), NEW k \in Nat,
           AllAt(a, args, k), NoPuts(b)
    PROVE  AllAt(a \o b, args, k)
<1> DEFINE c == a \o b
<1>1. /\ Len(a) \in Nat /\ Len(b) \in Nat /\ Len(c) = Len(a) + Len(b)
      /\ DOMAIN a = 1..Len(a) /\ DOMAIN b = 1..Len(b)
      /\ DOMAIN c = 1..(Len(a) + Len(b))
      /\ \A j \in 1..Len(a) : c[j] = a[j]
      /\ \A j \in (Len(a) + 1)..(Len(a) + Len(b)) : c[j] = b[j - Len(a)]
  BY JoinedWords
<1>a. Len(args) \in Nat /\ DOMAIN args = 1..Len(args)
  OBVIOUS
<1> HIDE DEF c
<1>2. ASSUME NEW j \in DOMAIN c, c[j].is = "put" PROVE k < j /\ j <= k + Len(args)
  <2>1. CASE j <= Len(a)
    BY <1>1, <1>2, <2>1 DEF AllAt
  <2>2. CASE j > Len(a)
    <3>1. j - Len(a) \in DOMAIN b /\ c[j] = b[j - Len(a)]
      BY <1>1, <2>2
    <3> QED
      BY <1>2, <3>1 DEF NoPuts
  <2> QED
    BY <1>1, <2>1, <2>2
<1>3. ASSUME NEW j \in DOMAIN args PROVE c[k + j].is = "put" /\ c[k + j].arg = args[j]
  <2>1. k + j \in 1..Len(a)
    BY <1>1, <1>a DEF AllAt
  <2> QED
    BY <1>1, <2>1 DEF AllAt
<1>4. k + Len(args) <= Len(c)
  BY <1>1, <1>a DEF AllAt
<1> QED
  BY <1>2, <1>3, <1>4 DEF AllAt, c

\* The arguments are put out behind words that have none.
LEMMA AllAtStarts ==
    ASSUME NEW a \in Words, NEW b \in Words, NEW args \in Seq(STRING),
           NoPuts(a), Len(b) = Len(args),
           \A j \in DOMAIN args : b[j].is = "put" /\ b[j].arg = args[j]
    PROVE  AllAt(a \o b, args, Len(a))
<1> DEFINE c == a \o b
<1>1. /\ Len(a) \in Nat /\ Len(b) \in Nat /\ Len(c) = Len(a) + Len(b)
      /\ DOMAIN a = 1..Len(a) /\ DOMAIN b = 1..Len(b)
      /\ DOMAIN c = 1..(Len(a) + Len(b))
      /\ \A j \in 1..Len(a) : c[j] = a[j]
  BY JoinedWords
<1>b. \A j \in 1..Len(b) : c[Len(a) + j] = b[j]
  BY JoinedWords
<1>a. Len(args) \in Nat /\ DOMAIN args = 1..Len(args)
  OBVIOUS
<1> HIDE DEF c
<1>2. ASSUME NEW j \in DOMAIN c, c[j].is = "put" PROVE Len(a) < j /\ j <= Len(a) + Len(args)
  <2>1. ~(j <= Len(a))
    BY <1>1, <1>2 DEF NoPuts
  <2> QED
    BY <1>1, <2>1
<1> QED
  BY <1>1, <1>2, <1>a, <1>b DEF AllAt, c

\* The states of the loop, and what they say of the arguments: no field seen
\* and none put out; all of them put out; or one word kept free, to be filled
\* in per instance.
LoopStates == [ok : BOOLEAN, out : Words, fu : Seq(Token), idx : Nat]

Placed(exec, args, out, fu, idx) ==
    \/ fu = <<>> /\ idx = 0 /\ NoPuts(out)
    \/ /\ fu # <<>>
       /\ idx = 0 \/ Len(args) <= 1
       /\ \E k \in Nat : AllAt(out, args, k)
    \/ /\ fu # <<>>
       /\ Len(args) > 1 /\ idx \in DOMAIN out /\ NoPuts(out)
       /\ fu[1].alone \/ Embedded(exec)

LoopInvariant(exec, args, st) ==
    st \in LoopStates /\ (st.ok => Placed(exec, args, st.out, st.fu, st.idx))

\* Words without arguments are pushed.
LEMMA PushKeeps ==
    ASSUME NEW exec, NEW args \in Seq(STRING), NEW st, LoopInvariant(exec, args, st),
           NEW w \in Words, NoPuts(w)
    PROVE  LoopInvariant(exec, args, Push(st, w))
<1> DEFINE new == Push(st, w)
<1>1. /\ st \in LoopStates
      /\ st.ok \in BOOLEAN /\ st.out \in Words /\ st.fu \in Seq(Token) /\ st.idx \in Nat
  BY DEF LoopInvariant, LoopStates
<1>2. st.out \o w \in Words
  BY <1>1, JoinedWords
<1>3. /\ new \in LoopStates
      /\ new.ok = st.ok /\ new.out = st.out \o w /\ new.fu = st.fu /\ new.idx = st.idx
  BY <1>1, <1>2 DEF Push, LoopStates
<1> HIDE DEF new
<1>4. ASSUME st.ok PROVE Placed(exec, args, st.out \o w, st.fu, st.idx)
  <2>1. NoPuts(st.out) => NoPuts(st.out \o w)
    BY <1>1, NoPutsGrow
  <2>2. \A k \in Nat : AllAt(st.out, args, k) => AllAt(st.out \o w, args, k)
    BY <1>1, AllAtGrows
  <2>3. st.idx \in DOMAIN st.out => st.idx \in DOMAIN (st.out \o w)
    <3>1. /\ DOMAIN st.out = 1..Len(st.out) /\ Len(st.out) \in Nat /\ Len(w) \in Nat
          /\ DOMAIN (st.out \o w) = 1..(Len(st.out) + Len(w))
      BY <1>1, JoinedWords
    <3> QED
      BY <3>1
  <2>4. Placed(exec, args, st.out, st.fu, st.idx)
    BY <1>4 DEF LoopInvariant
  <2> QED
    BY <2>1, <2>2, <2>3, <2>4 DEF Placed
<1> QED
  BY <1>3, <1>4 DEF LoopInvariant, new

\* An error puts nothing right.
LEMMA BadKeeps ==
    ASSUME NEW exec, NEW args, NEW st, LoopInvariant(exec, args, st)
    PROVE  LoopInvariant(exec, args, Bad(st))
<1>1. st \in LoopStates
  BY DEF LoopInvariant
<1>2. Bad(st) \in LoopStates /\ ~Bad(st).ok
  BY <1>1 DEF Bad, LoopStates
<1> QED
  BY <1>2 DEF LoopInvariant

\* One argument is one word.
LEMMA OneWord ==
    ASSUME NEW x \in Word
    PROVE  /\ <<x>> \in Words /\ Len(<<x>>) = 1 /\ DOMAIN <<x>> = 1..1 /\ <<x>>[1] = x
           /\ <<>> \in Words /\ Len(<<>>) = 0 /\ DOMAIN <<>> = {}
BY DEF Words

\* %f and %u: the argument, or a word kept free.
LEMMA SingleKeeps ==
    ASSUME NEW exec, NEW args \in Seq(STRING), NEW st, LoopInvariant(exec, args, st), st.ok,
           NEW tok \in Token, tok.alone \/ Embedded(exec), NEW url \in BOOLEAN
    PROVE  LoopInvariant(exec, args, Single(st, tok, args, url))
<1>1. /\ st \in LoopStates
      /\ st.out \in Words /\ st.fu \in Seq(Token) /\ st.idx \in Nat
      /\ Len(st.out) \in Nat
      /\ Placed(exec, args, st.out, st.fu, st.idx)
  BY DEF LoopInvariant, LoopStates, Words
<1>2. CASE st.fu # <<>>
  BY <1>2, BadKeeps DEF Single
<1>3. CASE st.fu = <<>>
  <2> DEFINE w == IF args = <<>> THEN <<>>
                  ELSE IF Len(args) = 1 THEN <<Put(tok, args[1], url /\ Path2Url(args[1]))>>
                  ELSE <<Lit(tok)>>
             new == Single(st, tok, args, url)
  <2>1. new = [st EXCEPT !.fu = <<tok>>, !.idx = Len(st.out) + 1, !.out = @ \o w]
    BY <1>3 DEF Single
  <2>2. NoPuts(st.out)
    BY <1>1, <1>3 DEF Placed
  <2>3. Len(args) \in Nat /\ DOMAIN args = 1..Len(args) /\ (args = <<>> <=> Len(args) = 0)
    OBVIOUS
  <2>4. ASSUME Len(args) = 1
        PROVE  /\ <<Put(tok, args[1], url /\ Path2Url(args[1]))>> \in Words
               /\ <<Put(tok, args[1], url /\ Path2Url(args[1]))>>[1].is = "put"
               /\ <<Put(tok, args[1], url /\ Path2Url(args[1]))>>[1].arg = args[1]
    <3> DEFINE u == url /\ Path2Url(args[1])
    <3>1. u \in BOOLEAN
      OBVIOUS
    <3>2. args[1] \in STRING
      BY <2>3, <2>4
    <3> HIDE DEF u
    <3>3. /\ Put(tok, args[1], u) \in Word
          /\ Put(tok, args[1], u).is = "put" /\ Put(tok, args[1], u).arg = args[1]
      BY <3>1, <3>2, PutWord
    <3>4. <<Put(tok, args[1], u)>> \in Words /\ <<Put(tok, args[1], u)>>[1] = Put(tok, args[1], u)
      BY <3>3, OneWord
    <3> QED
      BY <3>3, <3>4 DEF u
  <2>5. Lit(tok) \in Word /\ Lit(tok).is = "lit" /\ <<Lit(tok)>> \in Words
    BY WordKinds, OneWord
  <2>6. w \in Words
    BY <2>3, <2>4, <2>5, OneWord
  <2>7. st.out \o w \in Words
    BY <1>1, <2>6, JoinedWords
  <2>8. <<tok>> \in Seq(Token) /\ <<tok>> # <<>> /\ <<tok>>[1] = tok
    OBVIOUS
  <2> HIDE DEF w
  <2>9. /\ new \in LoopStates
        /\ new.out = st.out \o w /\ new.fu = <<tok>> /\ new.idx = Len(st.out) + 1
    <3> HIDE DEF new
    <3>1. Len(st.out) + 1 \in Nat
      BY <1>1
    <3> QED
      BY <1>1, <2>1, <2>7, <2>8, <3>1 DEF LoopStates
  <2>10. CASE Len(args) <= 1
    <3>1. Len(w) = Len(args) /\ \A j \in DOMAIN args : w[j].is = "put" /\ w[j].arg = args[j]
      BY <2>3, <2>4, <2>10 DEF w
    <3>2. AllAt(st.out \o w, args, Len(st.out))
      BY <1>1, <2>2, <2>6, <3>1, AllAtStarts
    <3>3. Placed(exec, args, st.out \o w, <<tok>>, Len(st.out) + 1)
      BY <1>1, <2>8, <2>10, <3>2 DEF Placed
    <3> QED
      BY <2>9, <3>3 DEF LoopInvariant
  <2>11. CASE Len(args) > 1
    <3>1. w = <<Lit(tok)>>
      BY <2>3, <2>11 DEF w
    <3>2. Len(w) = 1 /\ NoPuts(w)
      BY <2>5, <3>1, OneWord DEF NoPuts
    <3>3. NoPuts(st.out \o w)
      BY <1>1, <2>2, <2>6, <3>2, NoPutsGrow
    <3>4. Len(st.out) + 1 \in DOMAIN (st.out \o w)
      <4>1. DOMAIN (st.out \o w) = 1..(Len(st.out) + Len(w))
        BY <1>1, <2>6, JoinedWords
      <4> QED
        BY <1>1, <3>2, <4>1
    <3>5. Placed(exec, args, st.out \o w, <<tok>>, Len(st.out) + 1)
      BY <2>8, <2>11, <3>3, <3>4 DEF Placed
    <3> QED
      BY <2>9, <3>5 DEF LoopInvariant
  <2> QED
    BY <2>3, <2>10, <2>11
<1> QED
  BY <1>2, <1>3

\* %F and %U: all the arguments.
LEMMA SeveralKeeps ==
    ASSUME NEW exec, NEW args \in Seq(STRING), NEW st, LoopInvariant(exec, args, st), st.ok,
           NEW tok \in Token, NEW url \in BOOLEAN
    PROVE  LoopInvariant(exec, args, Several(st, tok, args, url))
<1>1. /\ st \in LoopStates
      /\ st.out \in Words /\ st.fu \in Seq(Token) /\ st.idx \in Nat
      /\ Len(st.out) \in Nat
      /\ Placed(exec, args, st.out, st.fu, st.idx)
  BY DEF LoopInvariant, LoopStates, Words
<1>2. CASE st.fu # <<>>
  BY <1>2, BadKeeps DEF Several
<1>3. CASE st.fu = <<>>
  <2> DEFINE w == [i \in DOMAIN args |-> Put(tok, args[i], url /\ Path2Url(args[i]))]
             new == Several(st, tok, args, url)
  <2>1. new = [st EXCEPT !.fu = <<tok>>, !.out = @ \o w]
    BY <1>3 DEF Several
  <2>2. NoPuts(st.out) /\ st.idx = 0
    BY <1>1, <1>3 DEF Placed
  <2>3. Len(args) \in Nat /\ DOMAIN args = 1..Len(args)
    OBVIOUS
  <2>4. ASSUME NEW j \in DOMAIN args
        PROVE  w[j] \in Word /\ w[j].is = "put" /\ w[j].arg = args[j]
    <3> DEFINE u == url /\ Path2Url(args[j])
    <3>1. u \in BOOLEAN
      OBVIOUS
    <3>2. args[j] \in STRING
      BY <2>3
    <3>3. w[j] = Put(tok, args[j], u)
      OBVIOUS
    <3> HIDE DEF u, w
    <3>4. /\ Put(tok, args[j], u) \in Word
          /\ Put(tok, args[j], u).is = "put" /\ Put(tok, args[j], u).arg = args[j]
      BY <3>1, <3>2, PutWord
    <3> QED
      BY <3>3, <3>4
  <2>5. w \in Words /\ Len(w) = Len(args)
    <3>1. w = [i \in 1..Len(args) |-> w[i]]
      BY <2>3
    <3> HIDE DEF w
    <3> QED
      BY <2>3, <2>4, <3>1 DEF Words
  <2>6. st.out \o w \in Words
    BY <1>1, <2>5, JoinedWords
  <2>7. <<tok>> \in Seq(Token) /\ <<tok>> # <<>>
    OBVIOUS
  <2> HIDE DEF w
  <2>8. /\ new \in LoopStates
        /\ new.out = st.out \o w /\ new.fu = <<tok>> /\ new.idx = 0
    <3> HIDE DEF new
    <3> QED
      BY <1>1, <2>1, <2>2, <2>6, <2>7 DEF LoopStates
  <2>9. AllAt(st.out \o w, args, Len(st.out))
    BY <1>1, <2>2, <2>4, <2>5, AllAtStarts
  <2>10. Placed(exec, args, st.out \o w, <<tok>>, 0)
    BY <1>1, <2>7, <2>9 DEF Placed
  <2> QED
    BY <2>8, <2>10 DEF LoopInvariant
<1> QED
  BY <1>2, <1>3

\* What a turn of the loop can come to.
LEMMA ExpandForms ==
    ASSUME NEW st, NEW tok, NEW args, NEW icon
    PROVE  LET new == Expand(st, tok, args, icon)
           IN  \/ new \in {st, Bad(st), Push(st, <<Lit(tok)>>), Push(st, <<Of("c")>>),
                           Push(st, <<Of("k")>>), Push(st, <<Of("--icon"), Of("i")>>),
                           Push(st, <<>>)}
               \/ /\ st.ok /\ ~tok.pct /\ (Has(tok, "f") \/ Has(tok, "u"))
                  /\ new \in {Single(st, tok, args, FALSE), Single(st, tok, args, TRUE)}
               \/ st.ok /\ new \in {Several(st, tok, args, FALSE), Several(st, tok, args, TRUE)}
BY DEF Expand

\* Words of the entry's own are no arguments.
LEMMA OwnWords ==
    /\ \A t \in Token : <<Lit(t)>> \in Words /\ NoPuts(<<Lit(t)>>)
    /\ \A l \in Letters : <<Of(l)>> \in Words /\ NoPuts(<<Of(l)>>)
    /\ \A l, m \in Letters : <<Of(l), Of(m)>> \in Words /\ NoPuts(<<Of(l), Of(m)>>)
    /\ <<>> \in Words /\ NoPuts(<<>>)
<1>1. ASSUME NEW x \in Word, NEW y \in Word, x.is # "put", y.is # "put"
      PROVE  /\ <<x>> \in Words /\ NoPuts(<<x>>)
             /\ <<x, y>> \in Words /\ NoPuts(<<x, y>>)
  BY <1>1 DEF Words, NoPuts
<1>2. <<>> \in Words /\ NoPuts(<<>>)
  BY DEF Words, NoPuts
<1>3. ASSUME NEW l \in Letters, NEW m \in Letters
      PROVE  /\ <<Of(l)>> \in Words /\ NoPuts(<<Of(l)>>)
             /\ <<Of(l), Of(m)>> \in Words /\ NoPuts(<<Of(l), Of(m)>>)
  <2>1. Of(l) \in Word /\ Of(m) \in Word /\ Of(l).is # "put" /\ Of(m).is # "put"
    BY WordKinds
  <2> QED
    BY <1>1, <2>1
<1>4. ASSUME NEW t \in Token PROVE <<Lit(t)>> \in Words /\ NoPuts(<<Lit(t)>>)
  <2>1. Lit(t) \in Word /\ Lit(t).is # "put"
    BY WordKinds
  <2> QED
    BY <1>1, <2>1
<1> QED
  BY <1>2, <1>3, <1>4

\* One turn of the loop.
LEMMA ExpandKeeps ==
    ASSUME NEW exec \in Seq(Token), NEW args \in Seq(STRING), NEW icon, NEW st,
           LoopInvariant(exec, args, st), NEW i \in DOMAIN exec
    PROVE  LoopInvariant(exec, args, Expand(st, exec[i], args, icon))
<1> DEFINE tok == exec[i]
           new == Expand(st, tok, args, icon)
<1>1. tok \in Token
  OBVIOUS
<1>2. ASSUME ~tok.pct, Has(tok, "f") \/ Has(tok, "u")
      PROVE  tok.alone \/ Embedded(exec)
  BY <1>1, <1>2 DEF Embedded, Token
<1>3. /\ <<Lit(tok)>> \in Words /\ NoPuts(<<Lit(tok)>>)
      /\ <<Of("c")>> \in Words /\ NoPuts(<<Of("c")>>)
      /\ <<Of("k")>> \in Words /\ NoPuts(<<Of("k")>>)
      /\ <<Of("--icon"), Of("i")>> \in Words /\ NoPuts(<<Of("--icon"), Of("i")>>)
      /\ <<>> \in Words /\ NoPuts(<<>>)
  <2>1. <<Lit(tok)>> \in Words /\ NoPuts(<<Lit(tok)>>)
    BY <1>1, OwnWords
  <2>2. \A l \in Letters : <<Of(l)>> \in Words /\ NoPuts(<<Of(l)>>)
    BY OwnWords
  <2>3. \A l, m \in Letters : <<Of(l), Of(m)>> \in Words /\ NoPuts(<<Of(l), Of(m)>>)
    BY OwnWords
  <2>4. <<>> \in Words /\ NoPuts(<<>>)
    BY OwnWords
  <2>5. "c" \in Letters /\ "k" \in Letters /\ "i" \in Letters /\ "--icon" \in Letters
    BY DEF Letters
  <2> QED
    BY <2>1, <2>2, <2>3, <2>4, <2>5
<1> SUFFICES LoopInvariant(exec, args, new)
  OBVIOUS
<1>8. \/ new \in {st, Bad(st), Push(st, <<Lit(tok)>>), Push(st, <<Of("c")>>),
                  Push(st, <<Of("k")>>), Push(st, <<Of("--icon"), Of("i")>>), Push(st, <<>>)}
      \/ /\ st.ok /\ ~tok.pct /\ (Has(tok, "f") \/ Has(tok, "u"))
         /\ new \in {Single(st, tok, args, FALSE), Single(st, tok, args, TRUE)}
      \/ st.ok /\ new \in {Several(st, tok, args, FALSE), Several(st, tok, args, TRUE)}
  BY ExpandForms
<1> HIDE DEF new, tok
<1>4. CASE new \in {st, Bad(st)}
  BY <1>4, BadKeeps
<1>5. CASE new \in {Push(st, <<Lit(tok)>>), Push(st, <<Of("c")>>), Push(st, <<Of("k")>>),
                    Push(st, <<Of("--icon"), Of("i")>>), Push(st, <<>>)}
  <2>1. PICK w \in {<<Lit(tok)>>, <<Of("c")>>, <<Of("k")>>, <<Of("--icon"), Of("i")>>, <<>>} :
           new = Push(st, w)
    BY <1>5
  <2>2. w \in Words /\ NoPuts(w)
    BY <1>3
  <2> QED
    BY <2>1, <2>2, PushKeeps
<1>6. CASE /\ st.ok /\ ~tok.pct /\ (Has(tok, "f") \/ Has(tok, "u"))
           /\ new \in {Single(st, tok, args, FALSE), Single(st, tok, args, TRUE)}
  <2>1. tok.alone \/ Embedded(exec)
    BY <1>2, <1>6
  <2>2. /\ LoopInvariant(exec, args, Single(st, tok, args, FALSE))
        /\ LoopInvariant(exec, args, Single(st, tok, args, TRUE))
    BY <1>1, <1>6, <2>1, SingleKeeps
  <2> QED
    BY <1>6, <2>2
<1>7. CASE st.ok /\ new \in {Several(st, tok, args, FALSE), Several(st, tok, args, TRUE)}
  <2>1. /\ LoopInvariant(exec, args, Several(st, tok, args, FALSE))
        /\ LoopInvariant(exec, args, Several(st, tok, args, TRUE))
    BY <1>1, <1>7, SeveralKeeps
  <2> QED
    BY <1>7, <2>1
<1> QED
  BY <1>4, <1>5, <1>6, <1>7, <1>8

\* The loop as a whole.
LEMMA ExpandedKeeps ==
    ASSUME NEW exec \in Seq(Token), NEW args \in Seq(STRING), NEW icon
    PROVE  LoopInvariant(exec, args, Expanded(exec, args, icon))
<1>1. Len(exec) \in Nat /\ DOMAIN exec = 1..Len(exec)
  OBVIOUS
<1>2. PICK run : FoldRun(run, Len(exec), exec, args, icon)
  BY <1>1, FoldRuns
<1> DEFINE S == {n \in Nat : n <= Len(exec) => LoopInvariant(exec, args, run[n])}
<1>3. 0 \in S
  <2>1. /\ NothingYet \in LoopStates
        /\ NothingYet.out = <<>> /\ NothingYet.fu = <<>> /\ NothingYet.idx = 0
    <3>1. <<>> \in Words /\ <<>> \in Seq(Token)
      BY OwnWords
    <3> QED
      BY <3>1 DEF NothingYet, LoopStates
  <2>2. Placed(exec, args, <<>>, <<>>, 0)
    BY OwnWords DEF Placed
  <2> QED
    BY <1>2, <2>1, <2>2 DEF FoldRun, LoopInvariant
<1>4. ASSUME NEW n \in S PROVE n + 1 \in S
  <2>1. n \in Nat
    OBVIOUS
  <2>2. CASE n + 1 <= Len(exec)
    <3>1. LoopInvariant(exec, args, run[n]) /\ n + 1 \in DOMAIN exec
      BY <1>1, <2>1, <2>2
    <3>2. run[n + 1] = Expand(run[n], exec[n + 1], args, icon)
      BY <1>1, <1>2, <2>1, <2>2 DEF FoldRun
    <3> QED
      BY <2>1, <3>1, <3>2, ExpandKeeps
  <2> QED
    BY <2>1, <2>2
<1>5. Len(exec) \in S
  <2> HIDE DEF S
  <2> QED
    BY <1>1, <1>3, <1>4, Induction
<1> QED
  BY <1>1, <1>2, <1>5 DEF FoldRun


\* As many members: one of T for each of S.
LEMMA SameNumber ==
    ASSUME NEW n \in Nat, NEW S \in SUBSET (1..n), NEW T, NEW f,
           \A x \in S : f[x] \in T,
           \A x, y \in S : f[x] = f[y] => x = y,
           \A t \in T : \E x \in S : f[x] = t
    PROVE  Cardinality(T) = Cardinality(S)
<1>1. IsFiniteSet(S)
  <2>1. IsFiniteSet(1..n)
    BY FS_Interval
  <2> QED
    BY <2>1, FS_Subset
<1> DEFINE g == [x \in S |-> f[x]]
<1>2. g \in [S -> T]
  OBVIOUS
<1>3. \A x \in S : g[x] = f[x]
  OBVIOUS
<1> HIDE DEF g
<1>4. g \in Injection(S, T)
  BY <1>2, <1>3 DEF Injection, IsInjective
<1>5. g \in Surjection(S, T)
  BY <1>2, <1>3 DEF Surjection
<1>6. ExistsBijection(S, T)
  BY <1>4, <1>5 DEF ExistsBijection, Bijection
<1> QED
  BY <1>1, <1>6, FS_Bijection

\* The places of an argument, one by one.
LEMMA DeliveredAt ==
    ASSUME NEW lines, NEW a
    PROVE  /\ \A i \in DOMAIN lines : \A j \in DOMAIN lines[i] :
                  (lines[i][j].is = "put" /\ lines[i][j].arg = a) => <<i, j>> \in Delivered(lines, a)
           /\ \A p \in Delivered(lines, a) :
                  \E i \in DOMAIN lines : \E j \in DOMAIN lines[i] :
                      p = <<i, j>> /\ lines[i][j].is = "put" /\ lines[i][j].arg = a
BY DEF Delivered

\* One command line with all the arguments.
LEMMA OneLineDelivers ==
    ASSUME NEW S, NEW out \in Seq(S), NEW args \in Seq(STRING), NEW k \in Nat,
           AllAt(out, args, k), NEW a,
           NEW lines, DOMAIN lines = 1..1, lines[1] = out
    PROVE  Cardinality(Delivered(lines, a)) = Cardinality({i \in DOMAIN args : args[i] = a})
<1>1. /\ Len(args) \in Nat /\ DOMAIN args = 1..Len(args)
      /\ Len(out) \in Nat /\ DOMAIN out = 1..Len(out)
  OBVIOUS
<1> DEFINE I == {i \in DOMAIN args : args[i] = a}
           f == [i \in I |-> <<1, k + i>>]
           T == Delivered(lines, a)
<1>2. I \in SUBSET (1..Len(args)) /\ \A i \in I : i \in 1..Len(args) /\ args[i] = a
  BY <1>1
<1>3. \A i \in I : f[i] = <<1, k + i>>
  OBVIOUS
<1> HIDE DEF f, I, T
<1>4. ASSUME NEW i \in I PROVE f[i] \in T
  <2>1. k + i \in DOMAIN out
    BY <1>1, <1>2 DEF AllAt
  <2>2. out[k + i].is = "put" /\ out[k + i].arg = a
    BY <1>1, <1>2 DEF AllAt
  <2>3. 1 \in DOMAIN lines
    OBVIOUS
  <2>4. <<1, k + i>> \in Delivered(lines, a)
    BY <2>1, <2>2, <2>3, DeliveredAt
  <2> QED
    BY <1>3, <2>4 DEF T
<1>5. ASSUME NEW i \in I, NEW j \in I, f[i] = f[j] PROVE i = j
  <2>1. <<1, k + i>> = <<1, k + j>>
    BY <1>3, <1>5
  <2> QED
    BY <1>2, <2>1
<1>6. ASSUME NEW t \in T PROVE \E i \in I : f[i] = t
  <2>1. PICK i \in DOMAIN lines : \E j \in DOMAIN lines[i] :
            t = <<i, j>> /\ lines[i][j].is = "put" /\ lines[i][j].arg = a
    BY DeliveredAt DEF T
  <2>2. i = 1
    OBVIOUS
  <2>3. PICK j \in DOMAIN out : t = <<1, j>> /\ out[j].is = "put" /\ out[j].arg = a
    BY <2>1, <2>2
  <2>4. j - k \in DOMAIN args
    BY <1>1, <2>3 DEF AllAt
  <2>5. out[k + (j - k)].arg = args[j - k]
    BY <2>4 DEF AllAt
  <2>6. k + (j - k) = j
    BY <1>1
  <2>7. j - k \in I
    BY <2>3, <2>4, <2>5, <2>6 DEF I
  <2> QED
    BY <1>3, <2>3, <2>6, <2>7
<1>7. Cardinality(T) = Cardinality(I)
  BY <1>1, <1>2, <1>4, <1>5, <1>6, SameNumber
<1> QED
  BY <1>7 DEF T, I

\* A command line per argument, each with its own.
Filled(lines, args, idx) ==
    \A i \in DOMAIN lines :
        /\ idx \in DOMAIN lines[i]
        /\ lines[i][idx].is = "put" /\ lines[i][idx].arg = args[i]
        /\ \A j \in DOMAIN lines[i] : j # idx => lines[i][j].is # "put"

LEMMA InstancesDeliver ==
    ASSUME NEW args \in Seq(STRING), NEW a, NEW idx,
           NEW lines, DOMAIN lines = DOMAIN args,
           Filled(lines, args, idx)
    PROVE  Cardinality(Delivered(lines, a)) = Cardinality({i \in DOMAIN args : args[i] = a})
<1>1. Len(args) \in Nat /\ DOMAIN args = 1..Len(args)
  OBVIOUS
<1> DEFINE I == {i \in DOMAIN args : args[i] = a}
           f == [i \in I |-> <<i, idx>>]
           T == Delivered(lines, a)
<1>2. I \in SUBSET (1..Len(args)) /\ \A i \in I : i \in DOMAIN args /\ args[i] = a
  BY <1>1
<1>3. \A i \in I : f[i] = <<i, idx>>
  OBVIOUS
<1> HIDE DEF f, I, T
<1>4. ASSUME NEW i \in I PROVE f[i] \in T
  <2>2. /\ i \in DOMAIN lines /\ idx \in DOMAIN lines[i]
        /\ lines[i][idx].is = "put" /\ lines[i][idx].arg = a
    BY <1>2 DEF Filled
  <2>1. <<i, idx>> \in Delivered(lines, a)
    BY <2>2, DeliveredAt
  <2> QED
    BY <1>3, <2>1 DEF T
<1>5. ASSUME NEW i \in I, NEW j \in I, f[i] = f[j] PROVE i = j
  <2>1. <<i, idx>> = <<j, idx>>
    BY <1>3, <1>5
  <2> QED
    BY <2>1
<1>6. ASSUME NEW t \in T PROVE \E i \in I : f[i] = t
  <2>1. PICK i \in DOMAIN lines : \E j \in DOMAIN lines[i] :
            t = <<i, j>> /\ lines[i][j].is = "put" /\ lines[i][j].arg = a
    BY DeliveredAt DEF T
  <2>2. PICK j \in DOMAIN lines[i] : t = <<i, j>> /\ lines[i][j].is = "put" /\ lines[i][j].arg = a
    BY <2>1
  <2>3. j = idx
    BY <2>2 DEF Filled
  <2>4. i \in I
    BY <2>2, <2>3 DEF I, Filled
  <2> QED
    BY <1>3, <2>2, <2>3, <2>4
<1>7. Cardinality(T) = Cardinality(I)
  BY <1>1, <1>2, <1>4, <1>5, <1>6, SameNumber
<1> QED
  BY <1>7 DEF T, I

\* The command line of an instance: the word kept free is filled, and only it.
LEMMA InstanceWords ==
    ASSUME NEW st \in LoopStates, NEW args, NEW i, st.idx \in DOMAIN st.out, NoPuts(st.out)
    PROVE  /\ st.idx \in DOMAIN Instance(st, args, i)
           /\ Instance(st, args, i)[st.idx].is = "put"
           /\ Instance(st, args, i)[st.idx].arg = args[i]
           /\ \A j \in DOMAIN Instance(st, args, i) :
                  j # st.idx => Instance(st, args, i)[j].is # "put"
<1> DEFINE p == Put(st.fu[1], args[i], Has(st.fu[1], "u") /\ Path2Url(args[i]))
<1>1. Instance(st, args, i) = [st.out EXCEPT ![st.idx] = p]
  BY DEF Instance
<1>2. p.is = "put" /\ p.arg = args[i]
  BY DEF Put
<1> HIDE DEF p
<1> QED
  BY <1>1, <1>2 DEF NoPuts

\* gen_entry_args leaves no argument out and repeats none.
LEMMA LinesDeliver ==
    ASSUME NEW exec \in Seq(Token), NEW args \in Seq(STRING), NEW icon,
           gen_entry_args(exec, args, icon) # <<>>,
           ~(Embedded(exec) /\ Len(args) > 1), NEW a \in Range(args)
    PROVE  LET lines == gen_entry_args(exec, args, icon)
           IN  /\ Len(lines) \in Nat /\ DOMAIN lines = 1..Len(lines)
               /\ Cardinality(Delivered(lines, a)) = Cardinality({i \in DOMAIN args : args[i] = a})
<1> DEFINE st == Expanded(exec, args, icon)
           lines == gen_entry_args(exec, args, icon)
<1>1. lines = IF ~st.ok \/ (args # <<>> /\ st.fu = <<>>) THEN <<>>
              ELSE IF Len(args) > 1 /\ st.idx > 0 /\ st.fu[1].alone
              THEN [i \in DOMAIN args |-> Instance(st, args, i)]
              ELSE <<st.out>>
  BY DEF gen_entry_args, Expanded
<1>2. LoopInvariant(exec, args, st)
  BY ExpandedKeeps
<1>3. args # <<>> /\ Len(args) \in Nat /\ DOMAIN args = 1..Len(args)
  BY DEF Range
<1> HIDE DEF st
<1>4. lines # <<>>
  OBVIOUS
<1> SUFFICES /\ Len(lines) \in Nat /\ DOMAIN lines = 1..Len(lines)
             /\ Cardinality(Delivered(lines, a)) = Cardinality({i \in DOMAIN args : args[i] = a})
  OBVIOUS
<1> HIDE DEF lines
<1>5. st.ok /\ st.fu # <<>>
  BY <1>1, <1>3, <1>4
<1>6. /\ st \in LoopStates /\ st.out \in Words /\ st.idx \in Nat
      /\ Placed(exec, args, st.out, st.fu, st.idx)
  BY <1>2, <1>5 DEF LoopInvariant, LoopStates
<1>7. CASE (st.idx = 0 \/ Len(args) <= 1) /\ \E k \in Nat : AllAt(st.out, args, k)
  <2>1. lines = <<st.out>>
    BY <1>1, <1>3, <1>5, <1>6, <1>7
  <2>2. PICK k \in Nat : AllAt(st.out, args, k)
    BY <1>7
  <2>3. Len(lines) = 1 /\ DOMAIN lines = 1..1 /\ lines[1] = st.out
    BY <2>1
  <2>4. st.out \in Seq(Word)
    BY <1>6 DEF Words
  <2> QED
    BY <2>2, <2>3, <2>4, OneLineDelivers
<1>8. CASE /\ Len(args) > 1 /\ st.idx \in DOMAIN st.out /\ NoPuts(st.out)
           /\ st.fu[1].alone \/ Embedded(exec)
  <2>1. st.idx > 0
    BY <1>6, <1>8 DEF Words
  <2>2. lines = [i \in DOMAIN args |-> Instance(st, args, i)]
    BY <1>1, <1>5, <1>8, <2>1
  <2>3. DOMAIN lines = DOMAIN args /\ Len(lines) = Len(args)
    BY <1>3, <2>2
  <2>4. \A i \in DOMAIN lines : lines[i] = Instance(st, args, i)
    BY <2>2, <2>3
  <2>5. Filled(lines, args, st.idx)
    BY <1>6, <1>8, <2>4, InstanceWords DEF Filled
  <2> QED
    BY <1>3, <2>3, <2>5, InstancesDeliver
<1> QED
  BY <1>5, <1>6, <1>7, <1>8 DEF Placed

\* What is launched is one of the entries there are.
LEMMA EntryLoaded ==
    ASSUME NEW r \in Requests, r.kind = "entry", NEW e \in load_entry(r), e.kind = "entry"
    PROVE  e \in {s.path : s \in Requests}
                 \cup UNION {{f.file : f \in DataDirs[i]} : i \in DOMAIN DataDirs}
<1>1. CASE r.path # None
  BY <1>1 DEF load_entry, Parsed, LookupFailed
<1>2. CASE r.path = None
  <2>1. e \in find_entry(DataDirs, r.target)
    BY <1>2 DEF load_entry
  <2>2. PICK i \in DOMAIN DataDirs : \E f \in DataDirs[i] : f.file = e
    BY <2>1, FoundFirst
  <2> QED
    BY <2>2
<1> QED
  BY <1>1, <1>2

\* A command's arguments are its words.
LEMMA CommandDelivers ==
    ASSUME NEW r \in Requests, CommandLines(r) # <<>>, NEW a
    PROVE  LET lines == CommandLines(r)
           IN  /\ Len(lines) \in Nat /\ DOMAIN lines = 1..Len(lines)
               /\ Cardinality(Delivered(lines, a)) = Cardinality({i \in DOMAIN r.args : r.args[i] = a})
<1> DEFINE lines == CommandLines(r)
           out == [i \in DOMAIN r.args |-> Put("argv", r.args[i], FALSE)]
<1>1. r.args \in Seq(STRING)
  BY LaunchAssumption
<1>2. Len(r.args) \in Nat /\ DOMAIN r.args = 1..Len(r.args)
  BY <1>1
<1>3. lines = <<out>>
  BY DEF CommandLines
<1>4. DOMAIN out = DOMAIN r.args /\ Len(out) = Len(r.args) /\ out \in Seq({out[i] : i \in DOMAIN out})
  <2>1. \A i \in DOMAIN out : out[i] \in {out[j] : j \in DOMAIN out}
    OBVIOUS
  <2>2. DOMAIN out = 1..Len(r.args) /\ out = [i \in 1..Len(r.args) |-> out[i]]
    BY <1>2
  <2> HIDE DEF out
  <2> QED
    BY <1>2, <2>1, <2>2
<1>5. \A i \in DOMAIN r.args : out[i].is = "put" /\ out[i].arg = r.args[i]
  BY DEF Put
<1> HIDE DEF lines, out
<1>6. AllAt(out, r.args, 0)
  BY <1>2, <1>4, <1>5 DEF AllAt
<1>7. Len(lines) = 1 /\ DOMAIN lines = 1..1 /\ lines[1] = out
  BY <1>3
<1>8. Cardinality(Delivered(lines, a)) = Cardinality({i \in DOMAIN r.args : r.args[i] = a})
  BY <1>1, <1>4, <1>6, <1>7, OneLineDelivers
<1> QED
  BY <1>7, <1>8 DEF lines

\* ... and an entry's are where its field is.
LEMMA EntryDelivers ==
    ASSUME NEW r \in Requests, r.kind = "entry", NEW e \in load_entry(r), EntryLines(r, e) # <<>>,
           ~(Embedded(Tail(ExecLine(e, r.action))) /\ Len(r.args) > 1), NEW a \in Range(r.args)
    PROVE  LET lines == EntryLines(r, e)
           IN  /\ Len(lines) \in Nat /\ DOMAIN lines = 1..Len(lines)
               /\ Cardinality(Delivered(lines, a)) = Cardinality({i \in DOMAIN r.args : r.args[i] = a})
<1>1. r.args \in Seq(STRING)
  BY LaunchAssumption
<1>2. /\ e.kind = "entry" /\ check_basic(e, r.action, Executables)
      /\ EntryLines(r, e) = gen_entry_args(Tail(ExecLine(e, r.action)), r.args, e.icon)
  BY DEF EntryLines
<1>3. ExecLine(e, r.action) # <<>> /\ (r.action = "" \/ r.action \in DOMAIN e.groups)
  BY <1>2 DEF check_basic, ActionUsable
<1>4. e \in {s.path : s \in Requests}
            \cup UNION {{f.file : f \in DataDirs[i]} : i \in DOMAIN DataDirs}
  BY <1>2, EntryLoaded
<1>5. r.action \in {""} \cup DOMAIN e.groups
  BY <1>3
<1>6. Tail(ExecLine(e, r.action)) \in Seq(Token)
  BY <1>2, <1>3, <1>4, <1>5, EntriesAssumption
<1> DEFINE exec  == Tail(ExecLine(e, r.action))
           args  == r.args
           icon  == e.icon
           lines == gen_entry_args(exec, args, icon)
<1>7. /\ exec \in Seq(Token) /\ args \in Seq(STRING) /\ lines # <<>> /\ a \in Range(args)
      /\ ~(Embedded(exec) /\ Len(args) > 1)
  BY <1>1, <1>2, <1>6
<1> HIDE DEF exec, args, icon
<1>8. /\ Len(lines) \in Nat /\ DOMAIN lines = 1..Len(lines)
      /\ Cardinality(Delivered(lines, a)) = Cardinality({i \in DOMAIN args : args[i] = a})
  BY <1>7, LinesDeliver
<1> QED
  BY <1>2, <1>8 DEF exec, args, icon

\* Whatever the request is for.
LEMMA TargetDelivers ==
    ASSUME NEW r \in Requests, NEW e \in (IF r.kind = "entry" THEN load_entry(r) ELSE {None}),
           resolve_target(r, e) # <<>>,
           r.kind = "entry" => ~(Embedded(Tail(ExecLine(e, r.action))) /\ Len(r.args) > 1),
           NEW a \in Range(r.args)
    PROVE  LET lines == resolve_target(r, e)
           IN  /\ Len(lines) \in Nat /\ DOMAIN lines = 1..Len(lines)
               /\ Cardinality(Delivered(lines, a)) = Cardinality({i \in DOMAIN r.args : r.args[i] = a})
<1>1. CASE r.kind = "entry"
  <2>1. resolve_target(r, e) = EntryLines(r, e)
    BY <1>1 DEF resolve_target
  <2> QED
    BY <1>1, <2>1, EntryDelivers
<1>2. CASE r.kind = "command"
  <2>1. resolve_target(r, e) = CommandLines(r)
    BY <1>2 DEF resolve_target
  <2> QED
    BY <2>1, CommandDelivers
<1>3. r.kind # "nothing"
  <2>1. r.kind = "nothing" => r.args = <<>>
    BY LaunchAssumption
  <2> QED
    BY <2>1 DEF Range
<1> QED
  BY <1>1, <1>2, <1>3, LaunchAssumption

\* The words of the command lines are those of the units started.
LEMMA ArgumentsNext ==
    ASSUME ArgumentsDelivered, LaunchInv, [Next]_vars
    PROVE  ArgumentsDelivered'
<1>1. CASE Resolve
  <2>1. req' = req /\ req \in Requests
    BY <1>1 DEF Resolve, LaunchInv, LaunchTypeOK
  <2>2. PICK e \in (IF req.kind = "entry" THEN load_entry(req) ELSE {None}), desktop \in Desktops :
            LET lines == resolve_target(req, e)
                n     == Len(lines)
            IN \E hex \in [1..n -> Hexes] :
                  \/ UNCHANGED <<source, argvs>>
                  \/ /\ n # 0 /\ source' = e
                     /\ argvs' = [i \in 1..n |->
                           build_argv(req, e, lines[i], UnitNames(req, n, desktop, hex)[i])]
    BY <1>1 DEF Resolve
  <2> DEFINE lines == resolve_target(req, e)
             n == Len(lines)
  <2>3. PICK hex \in [1..n -> Hexes] :
            \/ UNCHANGED <<source, argvs>>
            \/ /\ n # 0 /\ source' = e
               /\ argvs' = [i \in 1..n |->
                     build_argv(req, e, lines[i], UnitNames(req, n, desktop, hex)[i])]
    BY <2>2
  <2>4. CASE UNCHANGED <<source, argvs>>
    BY <2>1, <2>4 DEF ArgumentsDelivered
  <2>5. CASE /\ n # 0 /\ source' = e
             /\ argvs' = [i \in 1..n |->
                   build_argv(req, e, lines[i], UnitNames(req, n, desktop, hex)[i])]
    <3> DEFINE words == [k \in DOMAIN argvs' |-> argvs'[k].words]
    <3>1. DOMAIN argvs' = 1..n /\ \A i \in 1..n : argvs'[i].words = lines[i]
      BY <2>5 DEF build_argv
    <3>2. words = [i \in 1..n |-> lines[i]]
      BY <3>1
    <3>3. lines # <<>>
      BY <2>5
    <3>4. SUFFICES ASSUME req.kind = "entry" =>
                              ~(Embedded(Tail(ExecLine(e, req.action))) /\ Len(req.args) > 1),
                          NEW a \in Range(req.args)
                   PROVE  Cardinality(Delivered(words, a))
                              = Cardinality({i \in DOMAIN req.args : req.args[i] = a})
      BY <2>1, <2>5 DEF ArgumentsDelivered
    <3> HIDE DEF words
    <3>5. /\ n \in Nat /\ DOMAIN lines = 1..n
          /\ Cardinality(Delivered(lines, a))
                 = Cardinality({i \in DOMAIN req.args : req.args[i] = a})
      BY <2>1, <3>3, <3>4, TargetDelivers
    <3>6. Delivered(words, a) = Delivered(lines, a)
      <4>1. DOMAIN words = DOMAIN lines /\ \A i \in DOMAIN lines : words[i] = lines[i]
        BY <3>2, <3>5
      <4> HIDE DEF lines
      <4> QED
        BY <4>1 DEF Delivered
    <3> QED
      BY <3>5, <3>6
  <2> QED
    BY <2>3, <2>4, <2>5
<1>2. ASSUME UNCHANGED <<req, source, argvs>> PROVE ArgumentsDelivered'
  BY <1>2 DEF ArgumentsDelivered
<1> QED
  BY <1>1, <1>2 DEF Next, Exec, Spawn, SpawnFails, Wait, Finish, Killed, ChildEnds, OthersStart, vars

\* For any entries and any arguments, however many and however often the same
\* one: each reaches the instances as often as it was given.
THEOREM ArgumentsAlwaysDelivered == Spec => []ArgumentsDelivered
<1>1. Init => ArgumentsDelivered
  BY DEF Init, ArgumentsDelivered
<1> QED
  BY <1>1, ArgumentsNext, InitLaunch, LaunchNext, PTL DEF Spec
=============================================================================
