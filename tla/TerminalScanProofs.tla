------------------------- MODULE TerminalScanProofs -------------------------
(***************************************************************************)
(* Theorems about TerminalScan, for any number of scanners, any files,     *)
(* lists and programs: its variables keep their types, the cache file      *)
(* never hides a terminal, and a scan that finds none has overlooked none. *)
(***************************************************************************)
EXTENDS TerminalScan, TLAPS, WellFoundedInduction

USE DEF NotCached

-----------------------------------------------------------------------------
(* Type correctness.                                                       *)

\* The values the constants lend to the variables.
LEMMA Basics ==
    /\ AnyPath \in Paths
    /\ Uncached \in Cache
    /\ [p \in Paths |-> NotCached] \in Cache
BY ScanAssumption DEF AnyPath, Uncached, Cache

LEMMA InitTypes == Init => ScanTypeOK
<1> SUFFICES ASSUME Init PROVE ScanTypeOK
    OBVIOUS
<1>1. files \in Files
    BY ScanAssumption DEF Init
<1>2. had \in [Paths -> SUBSET Nat]
    BY <1>1 DEF Init, Files
<1> QED
    BY <1>1, <1>2, Basics DEF Init, ScanTypeOK

\* file_mtime gives a time, of a file that is not there too.
LEMMA MtimeNat ==
    ASSUME ScanTypeOK, NEW p \in Paths
    PROVE  file_mtime(p) \in Nat
BY DEF ScanTypeOK, Files, file_mtime

LEMMA ReturnTypes ==
    ASSUME ScanTypeOK, NEW s \in Scanners, Return(s)
    PROVE  /\ pc' \in [Scanners -> {"idle", "explicit", "list", "stat", "read", "save", "write", "done"}]
           /\ cache' \in [Scanners -> Cache]
           /\ changed' \in [Scanners -> BOOLEAN]
           /\ left' \in [Scanners -> SUBSET Paths]
           /\ at' \in [Scanners -> Paths]
           /\ mtime' \in [Scanners -> Nat]
BY Basics DEF ScanTypeOK, Return, Goto

LEMMA ScanTypes ==
    ASSUME ScanTypeOK, NEW s \in Scanners, Scan(s)
    PROVE  ScanTypeOK'
<1>1. CASE Begin(s)
    BY <1>1 DEF Begin, Goto, ScanTypeOK, world, memory
<1>2. CASE TryExplicit(s)
  <2>1. CASE Return(s)
    BY <1>2, <2>1, ReturnTypes DEF TryExplicit, ScanTypeOK, world
  <2>2. CASE UNCHANGED <<pc, memory>>
    BY <1>2, <2>2 DEF TryExplicit, ScanTypeOK, world, memory
  <2> QED
    BY <1>2, <2>1, <2>2 DEF TryExplicit
<1>3. CASE Load(s)
    BY <1>3 DEF Load, Goto, ScanTypeOK, world
<1>4. CASE List(s)
    BY <1>4 DEF List, Goto, ScanTypeOK, world
<1>5. CASE Stat(s)
  <2>1. PICK p \in NextPaths(s) :
          /\ left' = [left EXCEPT ![s] = @ \ {p}]
          /\ IF Id[p] \in excluded[s] \/ cache[s][p] = file_mtime(p)
             THEN UNCHANGED <<pc, at, mtime>>
             ELSE /\ at' = [at EXCEPT ![s] = p]
                  /\ mtime' = [mtime EXCEPT ![s] = file_mtime(p)]
                  /\ Goto(s, "read")
    BY <1>5 DEF Stat
  <2>2. p \in Paths
    BY DEF NextPaths, ScanTypeOK
  <2>3. file_mtime(p) \in Nat
    BY <2>2, MtimeNat
  <2> QED
    BY <1>5, <2>1, <2>2, <2>3 DEF Stat, Goto, ScanTypeOK, world
<1>6. CASE Read(s)
  <2>1. cache' \in [Scanners -> Cache]
    <3>1. CASE UNCHANGED cache
        BY <3>1 DEF ScanTypeOK
    <3>2. CASE cache' = [cache EXCEPT ![s] = [cache[s] EXCEPT ![at[s]] = mtime[s]]]
      <4>1. at[s] \in Paths /\ mtime[s] \in Nat /\ cache[s] \in Cache
        BY DEF ScanTypeOK
      <4>2. [cache[s] EXCEPT ![at[s]] = mtime[s]] \in Cache
        BY <4>1 DEF Cache
      <4> QED
        BY <3>2, <4>2 DEF ScanTypeOK
    <3> QED
        BY <1>6, <3>1, <3>2 DEF Read
  <2>2. changed' \in [Scanners -> BOOLEAN]
    BY <1>6 DEF Read, ScanTypeOK
  <2> QED
    BY <1>6, <2>1, <2>2 DEF Read, Goto, ScanTypeOK, world
<1>7. CASE ListEnds(s)
    BY <1>7 DEF ListEnds, Goto, ScanTypeOK, world, memory
<1>8. CASE Truncate(s)
    BY <1>8, Basics DEF Truncate, Goto, ScanTypeOK, world, memory
<1>9. CASE Write(s)
  <2>1. notTerminals' \in Cache
    BY <1>9 DEF Write, ScanTypeOK, Cache
  <2> QED
    BY <1>9, <2>1, ReturnTypes DEF Write, ScanTypeOK, world
<1>10. CASE SaveSkipped(s)
    BY <1>10, ReturnTypes DEF SaveSkipped, ScanTypeOK, world
<1> QED
    BY <1>1, <1>2, <1>3, <1>4, <1>5, <1>6, <1>7, <1>8, <1>9, <1>10 DEF Scan

LEMMA AroundTypes ==
    ASSUME ScanTypeOK, Around
    PROVE  ScanTypeOK'
<1>1. ASSUME NEW p \in Paths, Change(p) PROVE ScanTypeOK'
  <2>1. PICK c \in Edits, t \in Nat :
          /\ files' = [files EXCEPT ![p] = [content |-> c, mtime |-> t]]
          /\ had' = had \/ had' = [had EXCEPT ![p] = had[p] \cup {t}]
    BY <1>1, ScanAssumption DEF Change
  <2>2. [content |-> c, mtime |-> t] \in [content : Contents \cup {Gone}, mtime : Nat]
    BY ScanAssumption
  <2>3. files' \in Files
    BY <2>1, <2>2 DEF ScanTypeOK, Files
  <2>4. had' \in [Paths -> SUBSET Nat]
    BY <2>1 DEF ScanTypeOK
  <2> QED
    BY <1>1, <2>3, <2>4 DEF Change, ScanTypeOK, memory
<1>2. CASE Install
    BY <1>2 DEF Install, ScanTypeOK, memory
<1> QED
    BY <1>1, <1>2 DEF Around

LEMMA TypeNext == ScanTypeOK /\ [Next]_vars => ScanTypeOK'
<1> SUFFICES ASSUME ScanTypeOK, [Next]_vars PROVE ScanTypeOK'
    OBVIOUS
<1>1. CASE UNCHANGED vars
    BY <1>1 DEF vars, world, memory, ScanTypeOK
<1> QED
    BY <1>1, ScanTypes, AroundTypes DEF Next

\* Every variable keeps its type, for any scanners, files, lists and programs:
\* in particular times, of files that have gone and of mixed cache lines too,
\* are natural numbers.
THEOREM ScanTypeCorrect == Spec => []ScanTypeOK
BY InitTypes, TypeNext, PTL DEF Spec

-----------------------------------------------------------------------------
(* The cache.  A note of path p with time t does no harm, now or later: it *)
(* is false of no file that has that time, and no later file has it, since *)
(* a file at p has had it.                                                 *)

Harmless(p, t) ==
    /\ t \in had[p] \cup {NotCached, 0}
    /\ (files[p].content # Gone /\ files[p].mtime = t) => ~is_terminal(files[p].content)

\* No file has time 0, which is what a file that is gone and a cut line are
\* noted with.
Stamped ==
    \A p \in Paths : files[p].content # Gone => files[p].mtime \in had[p] \ {0}

\* Harmless is what is in the cache file, what each scanner has of it, and the
\* time that a scanner has taken before it reads the file.
CacheInv ==
    /\ ScanTypeOK
    /\ Stamped
    /\ \A p \in Paths : Harmless(p, notTerminals[p])
    /\ \A s \in Scanners : \A p \in Paths : Harmless(p, cache[s][p])
    /\ \A s \in Scanners : mtime[s] \in had[at[s]] \cup {0}

\* Notes of no time and of time 0.
LEMMA NoNote ==
    ASSUME ScanTypeOK, Stamped, NEW p \in Paths
    PROVE  Harmless(p, NotCached) /\ Harmless(p, 0)
BY DEF ScanTypeOK, Stamped, Files, Harmless

LEMMA InitCache == Apart /\ Init => CacheInv
<1> SUFFICES ASSUME Apart, Init PROVE CacheInv
    OBVIOUS
<1>1. ScanTypeOK
    BY InitTypes
<1>2. Stamped
    BY <1>1, ScanAssumption DEF Init, Stamped, ScanTypeOK, Files
<1>3. \A p \in Paths : Harmless(p, NotCached)
    BY <1>1, <1>2, NoNote
<1>4. \A s \in Scanners : mtime[s] \in had[at[s]] \cup {0}
    BY DEF Init
<1> QED
    BY <1>1, <1>2, <1>3, <1>4 DEF Init, CacheInv, Uncached

\* A step that leaves the files alone has only to account for its notes.
LEMMA OnlyNotes ==
    ASSUME CacheInv, ScanTypeOK', UNCHANGED <<files, had>>,
           \A p \in Paths : Harmless(p, notTerminals'[p]),
           \A s \in Scanners : \A p \in Paths : Harmless(p, cache'[s][p]),
           \A s \in Scanners : mtime'[s] \in had[at'[s]] \cup {0}
    PROVE  CacheInv'
BY DEF CacheInv, Stamped, Harmless

\* The end of a scanner: it keeps no note.
LEMMA ReturnKeeps ==
    ASSUME CacheInv, NEW s \in Scanners, Return(s)
    PROVE  /\ \A r \in Scanners : \A p \in Paths : Harmless(p, cache'[r][p])
           /\ \A r \in Scanners : mtime'[r] \in had[at'[r]] \cup {0}
<1>1. \A p \in Paths : Harmless(p, NotCached)
    BY NoNote DEF CacheInv
<1>2. \A r \in Scanners : cache'[r] = IF r = s THEN Uncached ELSE cache[r]
    BY DEF Return, CacheInv, ScanTypeOK
<1>3. \A r \in Scanners : /\ at'[r] = IF r = s THEN AnyPath ELSE at[r]
                          /\ mtime'[r] = IF r = s THEN 0 ELSE mtime[r]
    BY DEF Return, CacheInv, ScanTypeOK
<1> QED
    BY <1>1, <1>2, <1>3 DEF CacheInv, Uncached

LEMMA ScanKeeps ==
    ASSUME CacheInv, NEW s \in Scanners, Scan(s)
    PROVE  CacheInv'
<1> USE DEF CacheInv
<1>0. ScanTypeOK'
    BY ScanTypes
<1>1. CASE Begin(s) \/ ListEnds(s)
    BY <1>0, <1>1, OnlyNotes DEF Begin, ListEnds, world, memory
<1>2. CASE TryExplicit(s)
  <2>1. CASE Return(s)
    BY <1>0, <1>2, <2>1, ReturnKeeps, OnlyNotes DEF TryExplicit, world
  <2>2. CASE UNCHANGED memory
    BY <1>0, <1>2, <2>2, OnlyNotes DEF TryExplicit, world, memory
  <2> QED
    BY <1>2, <2>1, <2>2 DEF TryExplicit
<1>3. CASE Load(s)
  <2>1. \A r \in Scanners : cache'[r] = IF r = s THEN notTerminals ELSE cache[r]
    BY <1>3 DEF Load, ScanTypeOK
  <2> QED
    BY <1>0, <1>3, <2>1, OnlyNotes DEF Load, world
<1>4. CASE List(s)
    BY <1>0, <1>4, OnlyNotes DEF List, world
<1>5. CASE Stat(s)
  <2>1. PICK p \in NextPaths(s) :
          \/ UNCHANGED <<at, mtime>>
          \/ /\ at' = [at EXCEPT ![s] = p]
             /\ mtime' = [mtime EXCEPT ![s] = file_mtime(p)]
    BY <1>5 DEF Stat
  <2>2. p \in Paths
    BY DEF NextPaths, ScanTypeOK
  <2>3. file_mtime(p) \in had[p] \cup {0}
    BY <2>2 DEF Stamped, file_mtime
  <2>4. \A r \in Scanners : mtime'[r] \in had[at'[r]] \cup {0}
    BY <2>1, <2>2, <2>3 DEF ScanTypeOK
  <2> QED
    BY <1>0, <1>5, <2>4, OnlyNotes DEF Stat, world
<1>6. CASE Read(s)
  <2>1. CASE UNCHANGED cache
    BY <1>0, <1>6, <2>1, OnlyNotes DEF Read, world
  <2>2. CASE /\ ~is_terminal(files[at[s]].content)
             /\ cache' = [cache EXCEPT ![s] = [cache[s] EXCEPT ![at[s]] = mtime[s]]]
    <3>1. Harmless(at[s], mtime[s])
        BY <2>2 DEF Harmless
    <3>2. at[s] \in Paths /\ cache[s] \in [Paths -> Nat \cup {NotCached}]
        BY DEF ScanTypeOK, Cache
    <3>3. \A r \in Scanners : \A p \in Paths :
            cache'[r][p] = IF r = s /\ p = at[s] THEN mtime[s] ELSE cache[r][p]
        BY <2>2, <3>2 DEF ScanTypeOK
    <3> QED
        BY <1>0, <1>6, <3>1, <3>3, OnlyNotes DEF Read, world
  <2> QED
    BY <1>6, <2>1, <2>2 DEF Read
<1>7. CASE Truncate(s)
  <2>1. \A p \in Paths : Harmless(p, Uncached[p])
    BY NoNote DEF Uncached
  <2> QED
    BY <1>0, <1>7, <2>1, OnlyNotes DEF Truncate, world, memory
<1>8. CASE Write(s)
  <2>1. \A p \in Paths : notTerminals'[p] \in {0, notTerminals[p], cache[s][p]}
    BY <1>8 DEF Write
  <2>2. \A p \in Paths : Harmless(p, notTerminals'[p])
    BY <2>1, NoNote
  <2> QED
    BY <1>0, <1>8, <2>2, ReturnKeeps, OnlyNotes DEF Write, world
<1>9. CASE SaveSkipped(s)
    BY <1>0, <1>9, ReturnKeeps, OnlyNotes DEF SaveSkipped, world
<1> QED
    BY <1>1, <1>2, <1>3, <1>4, <1>5, <1>6, <1>7, <1>8, <1>9 DEF Scan

\* The step that needs Apart: the new time is none that anything is noted with.
LEMMA ChangeKeeps ==
    ASSUME Apart, CacheInv, NEW p \in Paths, Change(p), ScanTypeOK'
    PROVE  CacheInv'
<1> USE DEF CacheInv
<1>1. PICK c \in Edits, t \in Nat :
        /\ files' = [files EXCEPT ![p] = [content |-> c, mtime |-> t]]
        /\ \/ c = Gone /\ had' = had
           \/ t \notin had[p] \cup {0} /\ had' = [had EXCEPT ![p] = @ \cup {t}]
    BY ScanAssumption DEF Change
<1>2. UNCHANGED <<notTerminals, cache, mtime, at>>
    BY DEF Change, memory
<1>3. /\ files'[p].content = c /\ files'[p].mtime = t
      /\ \A q \in Paths \ {p} : files'[q] = files[q] /\ had'[q] = had[q]
      /\ c # Gone => t \in had'[p] /\ t \notin had[p] \cup {0}
      /\ had[p] \subseteq had'[p]
    BY <1>1 DEF ScanTypeOK, Files
<1>4. Stamped'
    BY <1>3 DEF Stamped
<1>5. ASSUME NEW q \in Paths, NEW u \in Nat \cup {NotCached}, Harmless(q, u)
      PROVE  Harmless(q, u)'
  <2>1. CASE q = p
    BY <1>1, <1>3, <1>5, <2>1 DEF Harmless, ScanTypeOK
  <2>2. CASE q # p
    BY <1>3, <1>5, <2>2 DEF Harmless
  <2> QED
    BY <2>1, <2>2
<1>6. /\ \A q \in Paths : notTerminals[q] \in Nat \cup {NotCached}
      /\ \A s \in Scanners : \A q \in Paths : cache[s][q] \in Nat \cup {NotCached}
    BY DEF ScanTypeOK, Cache
<1>7. \A q \in Paths : Harmless(q, notTerminals[q])'
    BY <1>2, <1>5, <1>6 DEF Harmless
<1>8. \A s \in Scanners : \A q \in Paths : Harmless(q, cache[s][q])'
    BY <1>2, <1>5, <1>6 DEF Harmless
<1>9. \A s \in Scanners : mtime'[s] \in had'[at'[s]] \cup {0}
    BY <1>2, <1>3 DEF ScanTypeOK
<1> QED
    BY <1>4, <1>7, <1>8, <1>9

LEMMA CacheNext == Apart /\ CacheInv /\ [Next]_vars => CacheInv'
<1> SUFFICES ASSUME Apart, CacheInv, [Next]_vars PROVE CacheInv'
    OBVIOUS
<1>0. ScanTypeOK'
    BY TypeNext DEF CacheInv
<1>1. CASE UNCHANGED vars
    BY <1>0, <1>1, OnlyNotes DEF CacheInv, vars, world, memory
<1>2. CASE Install
    BY <1>0, <1>2, OnlyNotes DEF Install, CacheInv, memory
<1> QED
    BY <1>0, <1>1, <1>2, ScanKeeps, ChangeKeeps DEF Next, Around

\* For any number of launches that share the cache file without a lock, and any
\* edits of the entries that give no file a time one at its place had before: a
\* path whose noted time is the file's time is no terminal.
THEOREM CacheIsTruthful == Spec => []CacheTruthful
<1>1. CASE Apart
  <2>1. CacheInv => CacheTruthful
    BY DEF CacheInv, Harmless, CacheTruthful, SkippedIsNoTerminal
  <2> QED
    BY <1>1, <2>1, InitCache, CacheNext, PTL DEF Spec
<1>2. CASE ~Apart
  <2>1. CacheTruthful
    BY <1>2 DEF CacheTruthful
  <2> QED
    BY <2>1, PTL
<1> QED
    BY <1>1, <1>2

-----------------------------------------------------------------------------
(* Reading the preference lists: the fold of parse_terminal_list, line by  *)
(* line.  The induction runs over a set of numbers, since the provers take *)
(* no predicate as a parameter.                                            *)

\* Nothing read yet.
NoLines == [explicit |-> <<>>, excluded |-> {}, protected |-> {}]

\* Some numbers have a least one.
LEMMA LeastNumber ==
    ASSUME NEW T \in SUBSET Nat, T # {}
    PROVE  \E i \in T : \A k \in T : i <= k
<1> DEFINE R == {ss \in Nat \X Nat : ss[1] < ss[2]}
<1>1. IsWellFoundedOn(R, Nat)
  BY NatLessThanWellFounded DEF OpToRel
<1>2. PICK i \in T : \A k \in T : ~(<<k, i>> \in R)
  <2> HIDE DEF R
  <2> QED
    BY <1>1, WFMin
<1>3. \A k \in T : ~(k < i)
  BY <1>2
<1> QED
  BY <1>3

\* Induction, over a set rather than a predicate.
LEMMA Induction ==
    ASSUME NEW S, 0 \in S, \A n \in S \cap Nat : n + 1 \in S
    PROVE  Nat \subseteq S
<1> SUFFICES ASSUME Nat \ S # {} PROVE FALSE
  OBVIOUS
<1>1. PICK i \in Nat \ S : \A k \in Nat \ S : i <= k
  BY LeastNumber
<1>2. i # 0 /\ i - 1 \in Nat
  BY <1>1
<1>3. i - 1 \in S
  BY <1>1, <1>2
<1> QED
  BY <1>1, <1>2, <1>3

\* FoldLeft takes the last index first.
LEMMA MaxIn ==
    ASSUME NEW n \in Nat, NEW s \in SUBSET (1..n), s # {}
    PROVE  Max(s) \in s /\ \A y \in s : Max(s) >= y
<1> DEFINE T == {n - k : k \in s}
<1>1. T \in SUBSET Nat /\ T # {}
  <2>1. \A k \in s : n - k \in Nat
    OBVIOUS
  <2> QED
    BY <2>1
<1>2. PICK i \in T : \A j \in T : i <= j
  BY <1>1, LeastNumber
<1>3. PICK k \in s : i = n - k
  OBVIOUS
<1>4. \A y \in s : n - k <= n - y
  BY <1>2, <1>3
<1>5. \A y \in s : k >= y
  BY <1>4
<1> QED
  BY <1>5 DEF Max

\* FoldLeft is defined over the subsets of the sequence's domain.  There is a
\* function that satisfies its equation, so CHOOSE gives one ...
LEMMA FoldExists ==
    ASSUME NEW N \in Nat, NEW lines
    PROVE  \E g : g = [s \in SUBSET (1..N) |->
                         IF s = {} THEN NoLines
                         ELSE parse_terminal_list(g[s \ {Max(s)}], lines[Max(s)])]
<1> DEFINE Good(n, g) == g = [s \in SUBSET (1..n) |->
                                IF s = {} THEN NoLines
                                ELSE parse_terminal_list(g[s \ {Max(s)}], lines[Max(s)])]
           S == {n \in Nat : \E g : Good(n, g)}
<1>1. 0 \in S
  <2> DEFINE g == [s \in {{}} |-> NoLines]
  <2>1. SUBSET (1..0) = {{}}
    OBVIOUS
  <2>2. Good(0, g)
    BY <2>1
  <2> QED
    BY <2>2
<1>2. ASSUME NEW n \in S PROVE n + 1 \in S
  <2>1. n \in Nat
    OBVIOUS
  <2>2. PICK g : Good(n, g)
    OBVIOUS
  <2> DEFINE h == [s \in SUBSET (1..n+1) |->
                     IF n + 1 \in s THEN parse_terminal_list(g[s \ {n + 1}], lines[n + 1]) ELSE g[s]]
  <2>3. ASSUME NEW s \in SUBSET (1..n+1), n + 1 \in s
        PROVE  s \ {n + 1} \in SUBSET (1..n) /\ s # {} /\ Max(s) = n + 1
    <3>1. n + 1 \in Nat /\ s # {}
      BY <2>1, <2>3
    <3>2. Max(s) \in s /\ Max(s) >= n + 1
      BY <2>3, <3>1, MaxIn
    <3>3. Max(s) = n + 1
      <4>1. Max(s) \in 1..n+1
        BY <3>2
      <4> QED
        BY <2>1, <3>2, <4>1
    <3>4. \A k \in s \ {n + 1} : k \in 1..n
      BY <2>1
    <3> QED
      BY <3>1, <3>3, <3>4
  <2>4. ASSUME NEW s \in SUBSET (1..n+1)
        PROVE  h[s] = IF s = {} THEN NoLines
                      ELSE parse_terminal_list(h[s \ {Max(s)}], lines[Max(s)])
    <3>1. CASE n + 1 \in s
      <4>1. h[s \ {n + 1}] = g[s \ {n + 1}]
        BY <2>1, <2>3, <3>1
      <4> QED
        BY <2>3, <3>1, <4>1
    <3>2. CASE n + 1 \notin s
      <4>1. s \in SUBSET (1..n) /\ h[s] = g[s]
        BY <2>1, <3>2
      <4>2. g[s] = IF s = {} THEN NoLines
                   ELSE parse_terminal_list(g[s \ {Max(s)}], lines[Max(s)])
        BY <2>2, <4>1
      <4>3. h[s \ {Max(s)}] = g[s \ {Max(s)}]
        BY <3>2
      <4> QED
        BY <4>1, <4>2, <4>3
    <3> QED
      BY <3>1, <3>2
  <2>5. Good(n + 1, h)
    <3>1. h = [s \in SUBSET (1..n+1) |-> h[s]]
      OBVIOUS
    <3> HIDE DEF h
    <3> QED
      BY <2>4, <3>1
  <2> HIDE DEF h, Good
  <2> QED
    BY <2>1, <2>5
<1>3. N \in S
  <2> HIDE DEF S
  <2> QED
    BY <1>1, <1>2, Induction
<1> QED
  BY <1>3

\* ... and its value is what the loop over the sequence ends with.
LEMMA FoldRuns ==
    ASSUME NEW N \in Nat, NEW lines, DOMAIN lines = 1..N
    PROVE  \E run : /\ run[0] = NoLines
                    /\ \A n \in 1..N : run[n] = parse_terminal_list(run[n - 1], lines[n])
                    /\ read_terminal_lists(lines) = run[N]
<1> DEFINE Eqn(g) == g = [s \in SUBSET (1..N) |->
                            IF s = {} THEN NoLines
                            ELSE parse_terminal_list(g[s \ {Max(s)}], lines[Max(s)])]
           g == CHOOSE g : Eqn(g)
           h == [n \in 0..N |-> g[1..n]]
<1>1. Eqn(g)
  <2>1. \E f : Eqn(f)
    BY FoldExists
  <2> HIDE DEF Eqn
  <2> QED
    BY <2>1
<1>2. read_terminal_lists(lines) = g[1..N]
  BY DEF read_terminal_lists, FoldLeft, MapThenFoldSet, NoLines
<1> HIDE DEF g
<1>3. h[0] = NoLines
  <2>1. 1..0 = {} /\ {} \in SUBSET (1..N)
    OBVIOUS
  <2>2. g[{}] = NoLines
    BY <1>1, <2>1
  <2> QED
    BY <2>1, <2>2
<1>4. ASSUME NEW n \in 1..N PROVE h[n] = parse_terminal_list(h[n - 1], lines[n])
  <2>1. 1..n \in SUBSET (1..N) /\ 1 \in 1..n
    OBVIOUS
  <2>2. Max(1..n) = n
    <3>1. n \in Nat /\ n \in 1..n /\ 1..n \in SUBSET (1..n)
      OBVIOUS
    <3>2. Max(1..n) \in 1..n /\ Max(1..n) >= n
      BY <3>1, MaxIn
    <3> QED
      BY <3>2
  <2>3. (1..n) \ {n} = 1..(n - 1)
    OBVIOUS
  <2>4. g[1..n] = parse_terminal_list(g[1..(n - 1)], lines[n])
    BY <1>1, <2>1, <2>2, <2>3
  <2>5. n \in 0..N /\ n - 1 \in 0..N
    OBVIOUS
  <2> QED
    BY <2>4, <2>5
<1>5. h[N] = g[1..N]
  <2>1. N \in 0..N
    OBVIOUS
  <2> QED
    BY <2>1
<1> HIDE DEF h
<1> QED
  BY <1>2, <1>3, <1>4, <1>5

-----------------------------------------------------------------------------
(* No terminal is overlooked.  A scanner that has found nothing yet still  *)
(* has in front of it every terminal that was usable all the time and that *)
(* the lists do not rule out; at the end of its list there is none.        *)

\* What one line of a list does, by its form.
LEMMA LineForms ==
    ASSUME NEW acc, NEW line
    PROVE  \/ parse_terminal_list(acc, line) = [acc EXCEPT !.explicit = Append(@, line)]
              /\ line.sign = ""
           \/ parse_terminal_list(acc, line) = [acc EXCEPT !.excluded = @ \cup {line.id}]
              /\ line.sign = "-" /\ line.action = "" /\ line.id \notin acc.protected
           \/ parse_terminal_list(acc, line)
                 = [acc EXCEPT !.protected = @ \cup {line.id}, !.excluded = @ \ {line.id}]
              /\ line.sign = "+" /\ line.action = ""
           \/ parse_terminal_list(acc, line) = acc
              /\ ~(line.sign = "+" /\ line.action = "")
BY Zenon DEF parse_terminal_list

\* An id that some line of l excludes and no line of l protects.
RuledBy(l, x) ==
    /\ \E i \in DOMAIN l : l[i] = [sign |-> "-", id |-> x, action |-> ""]
    /\ \A i \in DOMAIN l : l[i] # [sign |-> "+", id |-> x, action |-> ""]

\* A record with the fields of read_terminal_lists.
IsRead(acc) ==
    acc \in [explicit : {acc.explicit}, excluded : {acc.excluded}, protected : {acc.protected}]

LEMMA LineFields ==
    ASSUME NEW acc, NEW line, IsRead(acc)
    PROVE  LET new == parse_terminal_list(acc, line)
           IN  /\ IsRead(new)
               /\ \/ /\ new.excluded = acc.excluded /\ new.protected = acc.protected
                     /\ ~(line.sign = "+" /\ line.action = "")
                  \/ /\ new.excluded = acc.excluded \cup {line.id} /\ new.protected = acc.protected
                     /\ line.sign = "-" /\ line.action = "" /\ line.id \notin acc.protected
                  \/ /\ new.excluded = acc.excluded \ {line.id}
                     /\ new.protected = acc.protected \cup {line.id}
                     /\ line.sign = "+" /\ line.action = ""
<1> DEFINE new == parse_terminal_list(acc, line)
<1>1. CASE new = [acc EXCEPT !.explicit = Append(@, line)] /\ line.sign = ""
  BY <1>1 DEF IsRead
<1>2. CASE /\ new = [acc EXCEPT !.excluded = @ \cup {line.id}]
           /\ line.sign = "-" /\ line.action = "" /\ line.id \notin acc.protected
  BY <1>2 DEF IsRead
<1>3. CASE /\ new = [acc EXCEPT !.protected = @ \cup {line.id}, !.excluded = @ \ {line.id}]
           /\ line.sign = "+" /\ line.action = ""
  BY <1>3 DEF IsRead
<1>4. CASE new = acc /\ ~(line.sign = "+" /\ line.action = "")
  BY <1>4
<1> QED
  BY <1>1, <1>2, <1>3, <1>4, LineForms

\* What the loop over the lines keeps: the ids excluded so far stand in such a
\* line, and the ids protected so far are remembered and not excluded.
ReadSoFar(l, n, excl, prot) ==
    /\ \A x \in excl :
          \E i \in 1..n : l[i].sign = "-" /\ l[i].id = x /\ l[i].action = ""
    /\ \A i \in 1..n : l[i].sign = "+" /\ l[i].action = "" => l[i].id \in prot \ excl

LEMMA LineKeeps ==
    ASSUME NEW l, NEW n \in Nat, NEW acc, IsRead(acc),
           ReadSoFar(l, n, acc.excluded, acc.protected)
    PROVE  LET new == parse_terminal_list(acc, l[n + 1])
           IN  IsRead(new) /\ ReadSoFar(l, n + 1, new.excluded, new.protected)
<1> DEFINE new == parse_terminal_list(acc, l[n + 1])
           line == l[n + 1]
<1>0. 1..(n + 1) = (1..n) \cup {n + 1}
  OBVIOUS
<1>1. /\ IsRead(new)
      /\ \/ /\ new.excluded = acc.excluded /\ new.protected = acc.protected
            /\ ~(line.sign = "+" /\ line.action = "")
         \/ /\ new.excluded = acc.excluded \cup {line.id} /\ new.protected = acc.protected
            /\ line.sign = "-" /\ line.action = "" /\ line.id \notin acc.protected
         \/ /\ new.excluded = acc.excluded \ {line.id}
            /\ new.protected = acc.protected \cup {line.id}
            /\ line.sign = "+" /\ line.action = ""
  BY LineFields
<1> HIDE DEF new
<1>2. ReadSoFar(l, n + 1, new.excluded, new.protected)
  BY <1>0, <1>1 DEF ReadSoFar
<1> QED
  BY <1>1, <1>2 DEF new

\* What the lists exclude in the end is what they rule out, in whatever order
\* the lines and the files they come from stand.
LEMMA ExcludedRuled ==
    ASSUME NEW l \in Lists
    PROVE  \A x \in read_terminal_lists(l).excluded : RuledBy(l, x)
<1>0. l \in Seq(Range(l))
  BY ListsAssumption
<1>1. \A line \in Range(l) :
        line \in [sign : {"", "-", "+"}, id : {line.id}, action : {line.action}]
  BY ListsAssumption
<1>2. Len(l) \in Nat /\ DOMAIN l = 1..Len(l)
  BY <1>0
<1>3. \A i \in DOMAIN l : l[i] \in Range(l)
  BY DEF Range
<1>4. PICK run : /\ run[0] = NoLines
                 /\ \A n \in 1..Len(l) : run[n] = parse_terminal_list(run[n - 1], l[n])
                 /\ read_terminal_lists(l) = run[Len(l)]
  BY <1>2, FoldRuns
<1> DEFINE Kept(n) == IsRead(run[n]) /\ ReadSoFar(l, n, run[n].excluded, run[n].protected)
           S == {n \in Nat : n <= Len(l) => Kept(n)}
<1>5. 0 \in S
  <2>1. /\ NoLines.excluded = {} /\ NoLines.protected = {}
        /\ IsRead(NoLines)
    BY DEF NoLines, IsRead
  <2>2. 1..0 = {}
    OBVIOUS
  <2>3. ReadSoFar(l, 0, {}, {})
    BY <2>2 DEF ReadSoFar
  <2> QED
    BY <1>4, <2>1, <2>3
<1>6. ASSUME NEW n \in S PROVE n + 1 \in S
  <2>1. n \in Nat
    OBVIOUS
  <2>2. CASE n + 1 <= Len(l)
    <3>1. Kept(n)
      BY <1>2, <2>1, <2>2
    <3>2. run[n + 1] = parse_terminal_list(run[n], l[n + 1])
      BY <1>2, <1>4, <2>1, <2>2
    <3> QED
      BY <2>1, <3>1, <3>2, LineKeeps
  <2> QED
    BY <2>1, <2>2
<1>7. Len(l) \in S
  <2> HIDE DEF S
  <2> QED
    BY <1>2, <1>5, <1>6, Induction
<1> HIDE DEF Kept
<1>8. /\ \A x \in read_terminal_lists(l).excluded :
            \E i \in 1..Len(l) : l[i].sign = "-" /\ l[i].id = x /\ l[i].action = ""
      /\ \A i \in 1..Len(l) : l[i].sign = "+" /\ l[i].action = ""
            => l[i].id \notin read_terminal_lists(l).excluded
  <2>1. Kept(Len(l))
    BY <1>2, <1>7
  <2> QED
    BY <1>4, <2>1 DEF Kept, ReadSoFar
<1> SUFFICES ASSUME NEW x \in read_terminal_lists(l).excluded
             PROVE  RuledBy(l, x)
  OBVIOUS
<1>9. PICK i \in 1..Len(l) : l[i].sign = "-" /\ l[i].id = x /\ l[i].action = ""
  BY <1>8
<1>10. l[i] = [sign |-> "-", id |-> x, action |-> ""]
  <2>1. l[i] \in [sign : {"", "-", "+"}, id : {l[i].id}, action : {l[i].action}]
    BY <1>1, <1>2, <1>3
  <2> QED
    BY <1>9, <2>1
<1>11. ASSUME NEW k \in DOMAIN l, l[k] = [sign |-> "+", id |-> x, action |-> ""]
       PROVE  FALSE
  <2> DEFINE plus == [sign |-> "+", id |-> x, action |-> ""]
  <2>1. plus.sign = "+" /\ plus.id = x /\ plus.action = ""
    OBVIOUS
  <2> HIDE DEF plus
  <2>2. l[k] = plus
    BY <1>11 DEF plus
  <2> QED
    BY <1>2, <1>8, <2>1, <2>2
<1> QED
  BY <1>2, <1>10, <1>11 DEF RuledBy

\* The terminals still to be found are ahead of the scanner.
Ahead(s) ==
    found[s] = None =>
        \A p \in Overlooked(s) :
            \/ pc[s] \in {"idle", "explicit", "list"}
            \/ pc[s] \in {"stat", "read"} /\ p \in left[s]
            \/ pc[s] = "read" /\ p = at[s]

WatchInv ==
    /\ CacheInv
    /\ lists \in [Scanners -> Lists \cup {<<>>}]
    /\ DOMAIN excluded = Scanners /\ excluded = [s \in Scanners |-> excluded[s]]
    /\ DOMAIN found = Scanners /\ found = [s \in Scanners |-> found[s]]
    /\ \A s \in Scanners : steady[s] \subseteq UsablePaths
    /\ \A s \in Scanners : \A x \in excluded[s] : RuledBy(lists[s], x)
    /\ \A s \in Scanners : Ahead(s)

LEMMA InitWatch == Apart /\ Init => WatchInv
<1> SUFFICES ASSUME Apart, Init PROVE WatchInv
  OBVIOUS
<1>1. CacheInv
  BY InitCache
<1> QED
  BY <1>1 DEF Init, WatchInv, Ahead

\* The files and programs alone say what is usable.
LEMMA SameUsable ==
    ASSUME UNCHANGED <<files, executables>>
    PROVE  UsablePaths' = UsablePaths
BY DEF UsablePaths, Usable

\* A usable terminal is a file that is there.
LEMMA UsableThere ==
    ASSUME NEW p \in UsablePaths
    PROVE  p \in Paths /\ files[p].content # Gone /\ is_terminal(files[p].content)
<1>1. p \in Paths /\ is_terminal(files[p].content)
  BY DEF UsablePaths, Usable
<1>2. files[p].content.kind = "entry"
  BY <1>1 DEF is_terminal
<1>3. Gone.kind = "gone"
  BY DEF Gone
<1> QED
  BY <1>1, <1>2, <1>3

\* A scanner that is not beginning loses terminals from its history, never
\* gains one.
LEMMA SteadyShrinks ==
    ASSUME Remember, NEW s \in Scanners, pc[s] = "explicit" \/ pc'[s] # "explicit"
    PROVE  steady'[s] = steady[s] \cap UsablePaths'
BY DEF Remember

LEMMA SteadyUsable ==
    ASSUME Remember
    PROVE  \A s \in Scanners : steady'[s] \subseteq UsablePaths'
BY DEF Remember

LEMMA OverlookedShrinks ==
    ASSUME NEW s \in Scanners, steady'[s] \subseteq steady[s], lists'[s] = lists[s]
    PROVE  Overlooked(s)' \subseteq Overlooked(s)
BY DEF Overlooked, RuledOut

\* A scanner that takes no part in a step.
LEMMA OthersWatch ==
    ASSUME WatchInv, Remember, NEW r \in Scanners, UNCHANGED <<lists[r], pc[r], left[r], at[r], found[r]>>
    PROVE  Ahead(r)'
<1>1. steady'[r] \subseteq steady[r]
  BY SteadyShrinks
<1>2. Overlooked(r)' \subseteq Overlooked(r)
  BY <1>1, OverlookedShrinks
<1> QED
  BY <1>2 DEF WatchInv, Ahead

\* The cache and the lists pass over no terminal that is to be found.
LEMMA NotPassed ==
    ASSUME WatchInv, NEW s \in Scanners, NEW p \in Overlooked(s)
    PROVE  Id[p] \notin excluded[s] /\ cache[s][p] # file_mtime(p)
<1>1. p \in UsablePaths
  BY DEF WatchInv, Overlooked
<1>2. p \in Paths /\ files[p].content # Gone /\ is_terminal(files[p].content)
  BY <1>1, UsableThere
<1>3. cache[s][p] # file_mtime(p)
  BY <1>2 DEF WatchInv, CacheInv, Harmless, file_mtime
<1>4. Id[p] \notin excluded[s]
  <2>1. ~RuledBy(lists[s], Id[p])
    BY <1>2 DEF Overlooked, RuledOut, RuledBy
  <2> QED
    BY <2>1 DEF WatchInv
<1> QED
  BY <1>3, <1>4

\* A step that reads no list has only to account for the scanner that takes it.
LEMMA OnlyAhead ==
    ASSUME WatchInv, CacheInv', Remember, UNCHANGED <<lists, excluded>>,
           DOMAIN found' = Scanners, found' = [s \in Scanners |-> found'[s]],
           \A s \in Scanners : Ahead(s)'
    PROVE  WatchInv'
BY SteadyUsable DEF WatchInv


LEMMA ScanWatches ==
    ASSUME WatchInv, CacheInv', NEW s \in Scanners, Scan(s)
    PROVE  WatchInv'
<1>0. /\ \A r \in Scanners : Ahead(r)
      /\ ScanTypeOK
      /\ DOMAIN found = Scanners /\ found = [r \in Scanners |-> found[r]]
  BY DEF WatchInv, CacheInv
<1>1. CASE Begin(s)
  <2>1. PICK l \in Lists :
          /\ lists' = [lists EXCEPT ![s] = l]
          /\ excluded' = [excluded EXCEPT ![s] = read_terminal_lists(l).excluded]
    BY <1>1 DEF Begin
  <2>2. /\ lists' \in [Scanners -> Lists \cup {<<>>}]
        /\ \A r \in Scanners : lists'[r] = IF r = s THEN l ELSE lists[r]
    BY <2>1 DEF WatchInv
  <2>3. /\ DOMAIN excluded' = Scanners /\ excluded' = [r \in Scanners |-> excluded'[r]]
        /\ \A r \in Scanners :
              excluded'[r] = IF r = s THEN read_terminal_lists(l).excluded ELSE excluded[r]
    BY <2>1 DEF WatchInv
  <2>4. \A r \in Scanners : \A x \in excluded'[r] : RuledBy(lists'[r], x)
    BY <2>2, <2>3, ExcludedRuled DEF WatchInv
  <2>5. DOMAIN found' = Scanners /\ found' = [r \in Scanners |-> found'[r]]
    BY <1>0, <1>1 DEF Begin, Result
  <2>6. ASSUME NEW r \in Scanners PROVE Ahead(r)'
    <3>1. CASE r = s
      <4>1. pc'[s] = "explicit"
        BY <1>0, <1>1 DEF Begin, Goto, ScanTypeOK
      <4> QED
        BY <3>1, <4>1 DEF Ahead
    <3>2. CASE r # s
      <4>1. UNCHANGED <<lists[r], pc[r], left[r], at[r], found[r]>>
        BY <1>0, <1>1, <2>2, <3>2 DEF Begin, Goto, Result, ScanTypeOK, memory
      <4> QED
        BY <1>1, <4>1, OthersWatch DEF Begin
    <3> QED
      BY <3>1, <3>2
  <2>7. \A r \in Scanners : steady'[r] \subseteq UsablePaths'
    BY <1>1, SteadyUsable DEF Begin
  <2> QED
    BY <2>2, <2>3, <2>4, <2>5, <2>6, <2>7 DEF WatchInv
<1>2. CASE ~Begin(s)
  <2>1. /\ Remember /\ UNCHANGED <<lists, excluded, files, executables>>
    BY <1>2 DEF Scan, TryExplicit, Load, List, Stat, Read, ListEnds, Truncate, Write, SaveSkipped,
                world, choice
  <2>2. DOMAIN found' = Scanners /\ found' = [r \in Scanners |-> found'[r]]
    BY <1>0, <1>2 DEF Scan, TryExplicit, Load, List, Stat, Read, ListEnds, Truncate, Write,
                SaveSkipped, Result
  <2>3. ASSUME NEW r \in Scanners, r # s PROVE Ahead(r)'
    <3>1. UNCHANGED <<pc[r], left[r], at[r], found[r]>>
      BY <1>0, <1>2, <2>3 DEF Scan, TryExplicit, Load, List, Stat, Read, ListEnds, Truncate, Write,
                SaveSkipped, Result, Goto, Return, memory, ScanTypeOK
    <3> QED
      BY <2>1, <3>1, OthersWatch
  <2>4. pc[s] = "explicit" \/ pc'[s] # "explicit"
    BY <1>0, <1>2 DEF Scan, TryExplicit, Load, List, Stat, Read, ListEnds, Truncate, Write,
                SaveSkipped, Goto, Return, ScanTypeOK
  <2>5. Overlooked(s)' \subseteq Overlooked(s)
    BY <2>1, <2>4, SteadyShrinks, OverlookedShrinks
  <2>6. ASSUME NEW p \in Overlooked(s)', found'[s] = None
        PROVE  \/ pc'[s] \in {"idle", "explicit", "list"}
               \/ pc'[s] \in {"stat", "read"} /\ p \in left'[s]
               \/ pc'[s] = "read" /\ p = at'[s]
    <3>0. /\ p \in Overlooked(s) /\ p \in UsablePaths
          /\ p \in Paths /\ files[p].content # Gone
      BY <2>5, <2>6, UsableThere DEF WatchInv, Overlooked
    <3>1. found[s] = None => \/ pc[s] \in {"idle", "explicit", "list"}
                             \/ pc[s] \in {"stat", "read"} /\ p \in left[s]
                             \/ pc[s] = "read" /\ p = at[s]
      BY <1>0, <3>0 DEF Ahead
    <3>2. CASE TryExplicit(s)
      <4>1. \A e, a, o : build_terminal(e, a, o) # None
        BY DEF build_terminal, None
      <4>2. Failed # None
        BY DEF Failed, None
      <4>3. CASE UNCHANGED pc
        BY <3>2, <4>3 DEF TryExplicit
      <4>4. CASE \E o, e, a : Result(s, Failed) \/ Result(s, build_terminal(e, a, o))
        BY <1>0, <2>6, <4>1, <4>2, <4>4 DEF Result
      <4> QED
        BY <3>2, <4>3, <4>4 DEF TryExplicit
    <3>3. CASE Load(s)
      BY <1>0, <3>3 DEF Load, Goto, ScanTypeOK
    <3>4. CASE List(s)
      BY <1>0, <3>0, <3>4 DEF List, Goto, ScanTypeOK
    <3>5. CASE Stat(s)
      <4>1. PICK q \in NextPaths(s) :
              /\ left' = [left EXCEPT ![s] = @ \ {q}]
              /\ IF Id[q] \in excluded[s] \/ cache[s][q] = file_mtime(q)
                 THEN UNCHANGED <<pc, at, mtime>>
                 ELSE /\ at' = [at EXCEPT ![s] = q]
                      /\ mtime' = [mtime EXCEPT ![s] = file_mtime(q)]
                      /\ Goto(s, "read")
        BY <3>5 DEF Stat
      <4>2. pc[s] = "stat" /\ p \in left[s]
        BY <2>6, <3>1, <3>5 DEF Stat
      <4>3. Id[p] \notin excluded[s] /\ cache[s][p] # file_mtime(p)
        BY <3>0, NotPassed
      <4>4. left'[s] = left[s] \ {q} /\ pc'[s] \in {"stat", "read"}
        BY <1>0, <4>1, <4>2 DEF ScanTypeOK, Goto
      <4>5. p = q => pc'[s] = "read" /\ at'[s] = q
        BY <1>0, <4>1, <4>3 DEF ScanTypeOK, Goto
      <4> QED
        BY <4>2, <4>4, <4>5
    <3>6. CASE Read(s)
      <4>1. \A o : build_terminal(files[at[s]].content, "", o) # None
        BY DEF build_terminal, None
      <4>2. ~Usable(files[at[s]].content)
        BY <1>0, <2>6, <3>6, <4>1 DEF Read, Result
      <4>3. p # at[s]
        BY <3>0, <4>2 DEF UsablePaths
      <4>4. found'[s] = found[s] /\ pc[s] = "read" /\ pc'[s] = "stat" /\ left' = left
        BY <1>0, <3>6, <4>2 DEF Read, Goto, ScanTypeOK
      <4> QED
        BY <2>6, <3>1, <4>3, <4>4
    <3>7. CASE ListEnds(s)
      BY <2>6, <3>1, <3>7 DEF ListEnds
    <3>8. CASE Truncate(s) \/ Write(s) \/ SaveSkipped(s)
      BY <2>6, <3>1, <3>8 DEF Truncate, Write, SaveSkipped
    <3> QED
      BY <1>2, <3>2, <3>3, <3>4, <3>5, <3>6, <3>7, <3>8 DEF Scan
  <2>7. Ahead(s)'
    BY <2>6 DEF Ahead
  <2> QED
    BY <2>1, <2>2, <2>3, <2>7, OnlyAhead
<1> QED
  BY <1>1, <1>2

LEMMA WatchNext == Apart /\ WatchInv /\ [Next]_vars => WatchInv'
<1> SUFFICES ASSUME Apart, WatchInv, [Next]_vars PROVE WatchInv'
  OBVIOUS
<1>1. CacheInv'
  BY CacheNext DEF WatchInv
<1>2. CASE UNCHANGED vars
  <2>1. UsablePaths' = UsablePaths
    BY <1>2, SameUsable DEF vars, world
  <2>2. ASSUME NEW s \in Scanners PROVE Ahead(s)'
    <3>1. UNCHANGED <<steady, lists, pc, left, at, found>>
      BY <1>2 DEF vars, memory, choice
    <3>2. Overlooked(s)' = Overlooked(s)
      BY <3>1 DEF Overlooked, RuledOut
    <3> QED
      BY <3>1, <3>2 DEF WatchInv, Ahead
  <2> QED
    BY <1>1, <1>2, <2>1, <2>2 DEF WatchInv, vars, choice
<1>3. CASE Around
  <2>1. Remember /\ UNCHANGED <<lists, excluded, pc, left, at, found>>
    BY <1>3 DEF Around, Change, Install, choice, memory
  <2>2. ASSUME NEW s \in Scanners PROVE Ahead(s)'
    <3>1. UNCHANGED <<lists[s], pc[s], left[s], at[s], found[s]>>
      BY <2>1
    <3> QED
      BY <2>1, <3>1, OthersWatch
  <2>3. DOMAIN found' = Scanners /\ found' = [s \in Scanners |-> found'[s]]
    BY <2>1 DEF WatchInv
  <2> QED
    BY <1>1, <2>1, <2>2, <2>3, OnlyAhead
<1> QED
  BY <1>1, <1>2, <1>3, ScanWatches DEF Next

\* For any number of launches at a time, any files, programs and preference
\* lists, and any edits of the entries that bring no time back: a scan that
\* ends with no terminal has overlooked none that was there and usable all the
\* time and that the lists do not rule out.
THEOREM NothingOverlooked == Spec => []NoTerminalOverlooked
<1>1. CASE Apart
  <2>1. WatchInv => NoTerminalOverlooked
    BY DEF WatchInv, Ahead, NoTerminalOverlooked
  <2> QED
    BY <1>1, <2>1, InitWatch, WatchNext, PTL DEF Spec
<1>2. CASE ~Apart
  <2>1. NoTerminalOverlooked
    BY <1>2 DEF NoTerminalOverlooked
  <2> QED
    BY <2>1, PTL
<1> QED
  BY <1>1, <1>2
=============================================================================
