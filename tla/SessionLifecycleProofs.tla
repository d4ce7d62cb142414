----------------------- MODULE SessionLifecycleProofs -----------------------
(***************************************************************************)
(* What the life of a session guarantees for every set of compositor ids:  *)
(* the types, whatever is started when; and, when no wsmr start begins     *)
(* while another start or a stop is under way (Orderly), that cleanup-env  *)
(* comes last, that sessions follow one another, and that wsmr stop        *)
(* reports success only when the compositor is down.                       *)
(*                                                                         *)
(* The first half is about the unit graph: its edges, the sets of units    *)
(* that a request concerns, and what the request does to the jobs.  The    *)
(* second half is the inductive invariant and one lemma per kind of step.  *)
(***************************************************************************)
EXTENDS SessionLifecycle, TLAPS

-----------------------------------------------------------------------------
(* Units and edges.                                                        *)

\* A table is the function it is made from.
LEMMA TabulatedIs ==
    ASSUME NEW f
    PROVE  Tabulated(f) = f
  BY DEF Tabulated

\* The other units that are named here.
Pre(i) == <<"pre", i>>
Session(i) == <<"session", i>>
Gs == <<"gs", Shared>>
GsPre == <<"gspre", Shared>>
Waitenv == <<"waitenv", Shared>>
Apps == <<"apps", Shared>>

\* The rows of Requires.
LEMMA RequiresRows ==
    /\ RequiresRow("pre") = {"env"}
    /\ RequiresRow("session") = {"pre", "wm"}
    /\ RequiresRow("wm") = {"pre"}
    /\ \A k : k \notin {"pre", "session", "wm"} => RequiresRow(k) = {}
PROOF
  <1>1. RequiresRow("pre") = {"env"} BY DEF RequiresRow
  <1>2. RequiresRow("session") = {"pre", "wm"} BY DEF RequiresRow
  <1>3. RequiresRow("wm") = {"pre"} BY DEF RequiresRow
  <1>4. ASSUME NEW k, k \notin {"pre", "session", "wm"} PROVE RequiresRow(k) = {}
    <2> k # "pre" /\ k # "session" /\ k # "wm" BY <1>4
    <2> QED BY DEF RequiresRow
  <1> QED BY <1>1, <1>2, <1>3, <1>4

\* The rows of BindsTo.
LEMMA BindsToRows ==
    /\ BindsToRow("envelope") = {"env", "wm"}
    /\ BindsToRow("pre") = {"gspre"}
    /\ BindsToRow("session") = {"gs"}
    /\ BindsToRow("wm") = {"session"}
    /\ BindsToRow("env") = {"pre"}
    /\ \A k : k \notin {"envelope", "pre", "session", "wm", "env"} => BindsToRow(k) = {}
PROOF
  <1>1. BindsToRow("envelope") = {"env", "wm"} BY DEF BindsToRow
  <1>2. BindsToRow("pre") = {"gspre"} BY DEF BindsToRow
  <1>3. BindsToRow("session") = {"gs"} BY DEF BindsToRow
  <1>4. BindsToRow("wm") = {"session"} BY DEF BindsToRow
  <1>5. BindsToRow("env") = {"pre"} BY DEF BindsToRow
  <1>6. ASSUME NEW k, k \notin {"envelope", "pre", "session", "wm", "env"} PROVE BindsToRow(k) = {}
    <2> k # "envelope" /\ k # "pre" /\ k # "session" /\ k # "wm" /\ k # "env" BY <1>6
    <2> QED BY DEF BindsToRow
  <1> QED BY <1>1, <1>2, <1>3, <1>4, <1>5, <1>6

\* The rows of Wants.
LEMMA WantsRows ==
    /\ WantsRow("session") = {"waitenv"}
    /\ WantsRow("wm") = {"envelope"}
    /\ WantsRow("env") = {"envelope"}
    /\ \A k : k \notin {"session", "wm", "env"} => WantsRow(k) = {}
PROOF
  <1>1. WantsRow("session") = {"waitenv"} BY DEF WantsRow
  <1>2. WantsRow("wm") = {"envelope"} BY DEF WantsRow
  <1>3. WantsRow("env") = {"envelope"} BY DEF WantsRow
  <1>4. ASSUME NEW k, k \notin {"session", "wm", "env"} PROVE WantsRow(k) = {}
    <2> k # "session" /\ k # "wm" /\ k # "env" BY <1>4
    <2> QED BY DEF WantsRow
  <1> QED BY <1>1, <1>2, <1>3, <1>4

\* The rows of PropagatesStopTo.
LEMMA PropagatesStopToRows ==
    /\ PropagatesStopToRow("envelope") = {"wm"}
    /\ PropagatesStopToRow("pre") = {"gspre"}
    /\ PropagatesStopToRow("session") = {"gs"}
    /\ PropagatesStopToRow("wm") = {"session", "gs"}
    /\ PropagatesStopToRow("env") = {"pre"}
    /\ \A k : k \notin {"envelope", "pre", "session", "wm", "env"} => PropagatesStopToRow(k) = {}
PROOF
  <1>1. PropagatesStopToRow("envelope") = {"wm"} BY DEF PropagatesStopToRow
  <1>2. PropagatesStopToRow("pre") = {"gspre"} BY DEF PropagatesStopToRow
  <1>3. PropagatesStopToRow("session") = {"gs"} BY DEF PropagatesStopToRow
  <1>4. PropagatesStopToRow("wm") = {"session", "gs"} BY DEF PropagatesStopToRow
  <1>5. PropagatesStopToRow("env") = {"pre"} BY DEF PropagatesStopToRow
  <1>6. ASSUME NEW k, k \notin {"envelope", "pre", "session", "wm", "env"} PROVE PropagatesStopToRow(k) = {}
    <2> k # "envelope" /\ k # "pre" /\ k # "session" /\ k # "wm" /\ k # "env" BY <1>6
    <2> QED BY DEF PropagatesStopToRow
  <1> QED BY <1>1, <1>2, <1>3, <1>4, <1>5, <1>6

\* The rows of PartOf.
LEMMA PartOfRows ==
    /\ PartOfRow("apps") = {"gs"}
    /\ \A k : k \notin {"apps"} => PartOfRow(k) = {}
PROOF
  <1>1. PartOfRow("apps") = {"gs"} BY DEF PartOfRow
  <1>2. ASSUME NEW k, k \notin {"apps"} PROVE PartOfRow(k) = {}
    <2> k # "apps" BY <1>2
    <2> QED BY DEF PartOfRow
  <1> QED BY <1>1, <1>2

\* A relation's table holds its rows.
LEMMA Relations ==
    /\ Requires = [u \in Units |-> Of(RequiresRow(u[1]), u[2])]
    /\ BindsTo = [u \in Units |-> Of(BindsToRow(u[1]), u[2])]
    /\ Wants = [u \in Units |-> Of(WantsRow(u[1]), u[2])]
    /\ PropagatesStopTo = [u \in Units |-> Of(PropagatesStopToRow(u[1]), u[2])]
    /\ PartOf = [u \in Units |-> Of(PartOfRow(u[1]), u[2])]
  BY TabulatedIs DEF Table, Requires, BindsTo, Wants, PropagatesStopTo, PartOf

\* Units of a kind.
LEMMA UnitForm ==
    ASSUME NEW u \in Units
    PROVE  /\ u = <<u[1], u[2]>>
           /\ u[1] \in PerId \cup Common
           /\ u[1] \in PerId => u[2] \in Ids
           /\ u[1] \in Common => u[2] = Shared
  BY DEF Units, PerId, Common

\* The units that the model names.
LEMMA NamedUnits ==
    /\ \A i \in Ids : {Env(i), Wm(i), Envelope(i), BindPid(i), Pre(i), Session(i)} \subseteq Units
    /\ {Gs, GsPre, Waitenv, Apps, Shutdown} \subseteq Units
  BY DEF Units, PerId, Common, Env, Wm, Envelope, BindPid, Pre, Session, Gs, GsPre, Waitenv, Apps,
         Shutdown

\* The other end of an edge.
LEMMA OfMember ==
    ASSUME NEW K, NEW i, NEW v
    PROVE  v \in Of(K, i) <=> \E k \in K : v = <<k, IF k \in PerId THEN i ELSE Shared>>
  BY DEF Of

\* Of does not depend on more than the kind and the instance.
LEMMA OfKind ==
    ASSUME NEW K, NEW i, NEW v, v \in Of(K, i)
    PROVE  v[1] \in K
  BY OfMember

\* What Twice computes.
LEMMA TwiceIs ==
    ASSUME NEW rel
    PROVE  Twice(rel) = [u \in Units |-> UNION {rel[v] : v \in rel[u]}]
  BY TabulatedIs DEF Twice

\* A set that a relation does not leave, its doubling does not leave.
LEMMA TwiceClosed ==
    ASSUME NEW rel, NEW S \in SUBSET Units, \A u \in S : rel[u] \subseteq S
    PROVE  \A u \in S : Twice(rel)[u] \subseteq S
  BY TwiceIs

\* A relation in which every unit has itself.
Reflexive(rel) == rel \in [Units -> SUBSET Units] /\ \A u \in Units : u \in rel[u]

\* Its doubling is another, and has what it has.
LEMMA TwiceGrows ==
    ASSUME NEW rel, Reflexive(rel)
    PROVE  /\ Reflexive(Twice(rel))
           /\ \A u \in Units : \A v \in rel[u] : rel[v] \subseteq Twice(rel)[u]
           /\ \A u \in Units : rel[u] \subseteq Twice(rel)[u]
PROOF
  <1>1. \A u \in Units : Twice(rel)[u] = UNION {rel[v] : v \in rel[u]}
    BY TwiceIs
  <1>2. Twice(rel) \in [Units -> SUBSET Units]
    BY TwiceIs DEF Reflexive
  <1>3. \A u \in Units : \A v \in rel[u] : rel[v] \subseteq Twice(rel)[u]
    BY <1>1 DEF Reflexive
  <1>4. \A u \in Units : rel[u] \subseteq Twice(rel)[u]
    BY <1>3 DEF Reflexive
  <1> QED BY <1>2, <1>3, <1>4 DEF Reflexive

\* Reach does not leave a set that the relation does not leave.
LEMMA ReachStays ==
    ASSUME NEW rel, NEW S \in SUBSET Units, \A u \in S : rel[u] \subseteq S
    PROVE  \A u \in S : Reach(rel)[u] \subseteq S
PROOF
  <1> DEFINE r0 == [u \in Units |-> {u} \cup rel[u]]
             r1 == Twice(r0)
             r2 == Twice(r1)
             r3 == Twice(r2)
  <1>1. \A u \in S : r0[u] \subseteq S
    OBVIOUS
  <1> HIDE DEF r0
  <1>2. \A u \in S : r1[u] \subseteq S
    BY <1>1, TwiceClosed
  <1> HIDE DEF r1
  <1>3. \A u \in S : r2[u] \subseteq S
    BY <1>2, TwiceClosed
  <1> HIDE DEF r2
  <1>4. \A u \in S : r3[u] \subseteq S
    BY <1>3, TwiceClosed
  <1> HIDE DEF r3
  <1>5. \A u \in S : Twice(r3)[u] \subseteq S
    BY <1>4, TwiceClosed
  <1>6. Reach(rel) = Twice(r3)
    BY DEF Reach, r0, r1, r2, r3
  <1> QED BY <1>5, <1>6

\* Reach has the unit itself, and what is at most four steps away.
LEMMA ReachGoes ==
    ASSUME NEW rel \in [Units -> SUBSET Units]
    PROVE  /\ Reach(rel) \in [Units -> SUBSET Units]
           /\ \A u \in Units : u \in Reach(rel)[u]
           /\ \A u \in Units : rel[u] \subseteq Reach(rel)[u]
           /\ \A u \in Units : \A v \in rel[u] : rel[v] \subseteq Reach(rel)[u]
           /\ \A u \in Units : \A v \in rel[u] : \A w \in rel[v] : rel[w] \subseteq Reach(rel)[u]
           /\ \A u \in Units : \A v \in rel[u] : \A w \in rel[v] : \A x \in rel[w] :
                  rel[x] \subseteq Reach(rel)[u]
PROOF
  <1> DEFINE r0 == [u \in Units |-> {u} \cup rel[u]]
             r1 == Twice(r0)
             r2 == Twice(r1)
             r3 == Twice(r2)
             r4 == Twice(r3)
  <1>1. Reflexive(r0) /\ \A u \in Units : rel[u] \subseteq r0[u]
    BY DEF Reflexive
  <1> HIDE DEF r0
  <1>2. /\ Reflexive(r1)
        /\ \A u \in Units : \A v \in r0[u] : r0[v] \subseteq r1[u]
        /\ \A u \in Units : r0[u] \subseteq r1[u]
    BY <1>1, TwiceGrows
  <1> HIDE DEF r1
  <1>3. /\ Reflexive(r2)
        /\ \A u \in Units : \A v \in r1[u] : r1[v] \subseteq r2[u]
        /\ \A u \in Units : r1[u] \subseteq r2[u]
    BY <1>2, TwiceGrows
  <1> HIDE DEF r2
  <1>4. Reflexive(r3) /\ \A u \in Units : r2[u] \subseteq r3[u]
    BY <1>3, TwiceGrows
  <1> HIDE DEF r3
  <1>5. Reflexive(r4) /\ \A u \in Units : r3[u] \subseteq r4[u]
    BY <1>4, TwiceGrows
  <1> HIDE DEF r4
  <1>6. Reach(rel) = r4
    BY DEF Reach, r0, r1, r2, r3, r4
  <1>7. \A u \in Units : rel[u] \subseteq r1[u] /\ \A v \in rel[u] : rel[v] \subseteq r1[u]
    BY <1>1, <1>2
  <1>8. \A u \in Units : r1[u] \subseteq r2[u] /\ r2[u] \subseteq r4[u]
    BY <1>3, <1>4, <1>5
  <1>9. ASSUME NEW u \in Units, NEW v \in rel[u], NEW w \in rel[v]
        PROVE  rel[w] \subseteq r2[u] /\ \A x \in rel[w] : rel[x] \subseteq r2[u]
    <2>1. w \in r1[u] /\ w \in Units
      BY <1>7
    <2>2. r1[w] \subseteq r2[u]
      BY <1>3, <2>1
    <2> QED BY <1>7, <2>1, <2>2
  <1>10. \A u \in Units : \A v \in rel[u] : \A w \in rel[v] : rel[w] \subseteq r4[u]
    BY <1>8, <1>9
  <1>11. \A u \in Units : \A v \in rel[u] : \A w \in rel[v] : \A x \in rel[w] : rel[x] \subseteq r4[u]
    BY <1>8, <1>9
  <1>12. r4 \in [Units -> SUBSET Units] /\ \A u \in Units : u \in r4[u]
    BY <1>5 DEF Reflexive
  <1>13. \A u \in Units : rel[u] \subseteq r4[u] /\ \A v \in rel[u] : rel[v] \subseteq r4[u]
    BY <1>7, <1>8
  <1> QED BY <1>6, <1>10, <1>11, <1>12, <1>13

\* PullsIn and TakesAlong are relations of units.
LEMMA Derived ==
    /\ PullsIn = [u \in Units |-> Requires[u] \cup BindsTo[u] \cup Wants[u]]
    /\ TakesAlong = [u \in Units |-> PropagatesStopTo[u]
                        \cup {v \in Units : u \in Requires[v] \cup BindsTo[v] \cup PartOf[v]}]
    /\ FailsStart = [u \in Units |-> {v \in Units : u \in Requires[v] \cup BindsTo[v]}]
    /\ StopsOnStop = [u \in Units |-> {v \in Units : u \in BindsTo[v] \/ v \in PropagatesStopTo[u]}]
    /\ KeepsNeeded = [u \in Units |-> {v \in Units : u \in Requires[v] \cup BindsTo[v] \cup Wants[v]}]
    /\ Conflicts = [u \in Units |-> IF u = Shutdown THEN Units \ {u} ELSE {Shutdown}]
    /\ StartStops =
           [u \in Units |-> UNION {UNION {StopWith[c] : c \in Conflicts[v]} : v \in StartWith[u]}]
  BY TabulatedIs DEF PullsIn, TakesAlong, FailsStart, StopsOnStop, KeepsNeeded, Conflicts, StartStops

\* An edge of a relation given by rows leads to a unit.
LEMMA OfUnits ==
    ASSUME NEW K \in SUBSET (PerId \cup Common), NEW i \in Ids
    PROVE  Of(K, i) \subseteq Units
  BY DEF Of, Units, PerId, Common

\* Every edge of the graph leads to a unit.
LEMMA EdgesAreUnits ==
    /\ Requires \in [Units -> SUBSET Units]
    /\ BindsTo \in [Units -> SUBSET Units]
    /\ Wants \in [Units -> SUBSET Units]
    /\ PropagatesStopTo \in [Units -> SUBSET Units]
PROOF
  <1>1. ASSUME NEW u \in Units, NEW K, K \in SUBSET (PerId \cup Common), u[1] \in Common => K = {}
        PROVE  Of(K, u[2]) \subseteq Units
    BY <1>1, OfUnits, UnitForm DEF Of
  <1>2. ASSUME NEW u \in Units
        PROVE  RequiresRow(u[1]) \in SUBSET (PerId \cup Common)
               /\ (u[1] \in Common => RequiresRow(u[1]) = {})
    BY RequiresRows DEF PerId, Common
  <1>3. ASSUME NEW u \in Units
        PROVE  BindsToRow(u[1]) \in SUBSET (PerId \cup Common)
               /\ (u[1] \in Common => BindsToRow(u[1]) = {})
    BY BindsToRows DEF PerId, Common
  <1>4. ASSUME NEW u \in Units
        PROVE  WantsRow(u[1]) \in SUBSET (PerId \cup Common)
               /\ (u[1] \in Common => WantsRow(u[1]) = {})
    BY WantsRows DEF PerId, Common
  <1>5. ASSUME NEW u \in Units
        PROVE  PropagatesStopToRow(u[1]) \in SUBSET (PerId \cup Common)
               /\ (u[1] \in Common => PropagatesStopToRow(u[1]) = {})
    BY PropagatesStopToRows DEF PerId, Common
  <1>6. ASSUME NEW u \in Units
        PROVE  /\ Of(RequiresRow(u[1]), u[2]) \subseteq Units
               /\ Of(BindsToRow(u[1]), u[2]) \subseteq Units
               /\ Of(WantsRow(u[1]), u[2]) \subseteq Units
               /\ Of(PropagatesStopToRow(u[1]), u[2]) \subseteq Units
    BY <1>1, <1>2, <1>3, <1>4, <1>5
  <1> QED BY <1>6, Relations

\* The graph's relations between kinds, as far as they are used below.
LEMMA PullsKinds ==
    ASSUME NEW u \in Units, NEW v \in PullsIn[u]
    PROVE  /\ u[1] \in {"envelope", "pre", "session", "wm", "env"}
           /\ v[1] \in {"envelope", "pre", "session", "wm", "env", "gspre", "gs", "waitenv"}
           /\ v = <<v[1], IF v[1] \in PerId THEN u[2] ELSE Shared>>
PROOF
  <1>1. PICK K : K \in {RequiresRow(u[1]), BindsToRow(u[1]), WantsRow(u[1])} /\ v \in Of(K, u[2])
    BY Derived, Relations
  <1>2. PICK k \in K : v = <<k, IF k \in PerId THEN u[2] ELSE Shared>>
    BY <1>1, OfMember
  <1>3. v[1] = k
    BY <1>2
  <1>4. /\ u[1] \in {"envelope", "pre", "session", "wm", "env"}
        /\ k \in {"envelope", "pre", "session", "wm", "env", "gspre", "gs", "waitenv"}
    <2>1. CASE K = RequiresRow(u[1])
      BY <1>2, <2>1, RequiresRows
    <2>2. CASE K = BindsToRow(u[1])
      BY <1>2, <2>2, BindsToRows
    <2>3. CASE K = WantsRow(u[1])
      BY <1>2, <2>3, WantsRows
    <2> QED BY <1>1, <2>1, <2>2, <2>3
  <1> QED BY <1>2, <1>3, <1>4

\* What a stop takes along: an outer unit takes outer units, none takes shutdown.
LEMMA TakesKinds ==
    ASSUME NEW u \in Units, NEW v \in TakesAlong[u]
    PROVE  /\ v \in Units
           /\ u[1] \in {"apps", "gs", "envelope", "session", "wm"}
                  => v[1] \in {"apps", "gs", "envelope", "session", "wm"}
           /\ u[1] # "shutdown" /\ v[1] # "shutdown"
PROOF
  <1>1. CASE v \in PropagatesStopTo[u]
    <2>1. v \in Of(PropagatesStopToRow(u[1]), u[2])
      BY <1>1, Relations
    <2>2. v[1] \in PropagatesStopToRow(u[1])
      BY <2>1, OfKind
    <2> QED BY <1>1, <2>2, PropagatesStopToRows, EdgesAreUnits
  <1>2. CASE v \in Units /\ u \in Requires[v] \cup BindsTo[v] \cup PartOf[v]
    <2>1. PICK K : K \in {RequiresRow(v[1]), BindsToRow(v[1]), PartOfRow(v[1])} /\ u \in Of(K, v[2])
      BY <1>2, Relations
    <2>2. u[1] \in K
      BY <2>1, OfKind
    <2>3. CASE K = RequiresRow(v[1])
      BY <1>2, <2>2, <2>3, RequiresRows
    <2>4. CASE K = BindsToRow(v[1])
      BY <1>2, <2>2, <2>4, BindsToRows
    <2>5. CASE K = PartOfRow(v[1])
      BY <1>2, <2>2, <2>5, PartOfRows
    <2> QED BY <2>1, <2>3, <2>4, <2>5
  <1> QED BY <1>1, <1>2, Derived

\* The edges that carry a start from the envelope to the environment, and a stop
\* from any of a session's outer units to every compositor.
LEMMA Edges ==
    /\ PullsIn \in [Units -> SUBSET Units]
    /\ TakesAlong \in [Units -> SUBSET Units]
    /\ \A i \in Ids :
          /\ Env(i) \in PullsIn[Envelope(i)]
          /\ Pre(i) \in PullsIn[Env(i)]
          /\ Wm(i) \in TakesAlong[Envelope(i)]
          /\ Gs \in TakesAlong[Wm(i)]
          /\ Gs \in TakesAlong[Session(i)]
          /\ Session(i) \in TakesAlong[Gs]
          /\ Wm(i) \in TakesAlong[Session(i)]
PROOF
  <1>1. PullsIn \in [Units -> SUBSET Units] /\ TakesAlong \in [Units -> SUBSET Units]
    BY Derived, EdgesAreUnits
  <1>2. ASSUME NEW i \in Ids
        PROVE  /\ Env(i) \in BindsTo[Envelope(i)]
               /\ Pre(i) \in BindsTo[Env(i)]
               /\ Wm(i) \in PropagatesStopTo[Envelope(i)]
               /\ Gs \in PropagatesStopTo[Wm(i)]
               /\ Gs \in PropagatesStopTo[Session(i)]
               /\ Gs \in BindsTo[Session(i)]
               /\ Session(i) \in BindsTo[Wm(i)]
    <2>1. /\ BindsTo[Envelope(i)] = Of({"env", "wm"}, i)
          /\ BindsTo[Env(i)] = Of({"pre"}, i)
          /\ BindsTo[Session(i)] = Of({"gs"}, i)
          /\ BindsTo[Wm(i)] = Of({"session"}, i)
      BY Relations, BindsToRows, NamedUnits DEF Envelope, Env, Session, Wm
    <2>2. /\ PropagatesStopTo[Envelope(i)] = Of({"wm"}, i)
          /\ PropagatesStopTo[Wm(i)] = Of({"session", "gs"}, i)
          /\ PropagatesStopTo[Session(i)] = Of({"gs"}, i)
      BY Relations, PropagatesStopToRows, NamedUnits DEF Envelope, Session, Wm
    <2> QED BY <2>1, <2>2 DEF Of, PerId, Env, Pre, Wm, Gs, Session
  <1> QED BY <1>1, <1>2, Derived, NamedUnits

-----------------------------------------------------------------------------
(* The units a request concerns.                                           *)

\* The units of i's session.
SessionUnits(i) == {Envelope(i), Pre(i), Session(i), Wm(i), Env(i)}

\* The units that every stop of a session takes along.
OuterKinds == {"apps", "gs", "envelope", "session", "wm"}
Outer == {u \in Units : u[1] \in OuterKinds}

\* The shutdown target and the others.
LEMMA ShutdownApart ==
    /\ \A u \in Units : u[1] = "shutdown" <=> u = Shutdown
    /\ StopWith[Shutdown] = {Shutdown}
    /\ StartWith[Shutdown] = {Shutdown}
    /\ \A u \in Units \ {Shutdown} : u \in StopWith[u] /\ StopWith[u] \subseteq Units \ {Shutdown}
    /\ \A u \in Units \ {Shutdown} : u \in StartWith[u] /\ StartWith[u] \subseteq Units \ {Shutdown}
PROOF
  <1>1. \A u \in Units : u[1] = "shutdown" <=> u = Shutdown
    BY UnitForm DEF Shutdown, PerId, Common
  <1>2. \A u \in {Shutdown} : TakesAlong[u] \subseteq {Shutdown} /\ PullsIn[u] \subseteq {Shutdown}
    BY <1>1, TakesKinds, PullsKinds, NamedUnits
  <1>3. \A u \in Units \ {Shutdown} : TakesAlong[u] \subseteq Units \ {Shutdown}
    BY <1>1, TakesKinds
  <1>4. \A u \in Units \ {Shutdown} : PullsIn[u] \subseteq Units \ {Shutdown}
    <2> SUFFICES ASSUME NEW u \in Units \ {Shutdown}, NEW v \in PullsIn[u]
                 PROVE  v \in Units \ {Shutdown}
      OBVIOUS
    <2>1. v \in Units
      BY Edges
    <2>2. v[1] # "shutdown"
      BY PullsKinds
    <2> QED BY <1>1, <2>1, <2>2
  <1>5. /\ \A u \in {Shutdown} : Reach(TakesAlong)[u] \subseteq {Shutdown}
        /\ \A u \in {Shutdown} : Reach(PullsIn)[u] \subseteq {Shutdown}
    BY <1>2, ReachStays, NamedUnits
  <1>6. \A u \in Units \ {Shutdown} : Reach(TakesAlong)[u] \subseteq Units \ {Shutdown}
    BY <1>3, ReachStays
  <1>7. \A u \in Units \ {Shutdown} : Reach(PullsIn)[u] \subseteq Units \ {Shutdown}
    BY <1>4, ReachStays
  <1>8. \A u \in Units : u \in Reach(TakesAlong)[u] /\ u \in Reach(PullsIn)[u]
    BY Edges, ReachGoes
  <1> QED BY <1>1, <1>5, <1>6, <1>7, <1>8, NamedUnits DEF StopWith, StartWith

\* What starts with the envelope, the pid's unit and an application.
LEMMA StartSets ==
    /\ \A i \in Ids :
          /\ StartWith[Envelope(i)] \subseteq SessionUnits(i) \cup {Gs, GsPre, Waitenv}
          /\ {Envelope(i), Env(i), Pre(i)} \subseteq StartWith[Envelope(i)]
    /\ \A u \in Units : u[1] \in {"bindpid", "apps"} => StartWith[u] = {u}
PROOF
  <1>1. ASSUME NEW i \in Ids
        PROVE  /\ Reach(PullsIn)[Envelope(i)] \subseteq SessionUnits(i) \cup {Gs, GsPre, Waitenv}
               /\ {Envelope(i), Env(i), Pre(i)} \subseteq Reach(PullsIn)[Envelope(i)]
    <2> DEFINE S == SessionUnits(i) \cup {Gs, GsPre, Waitenv}
    <2>1. S \in SUBSET Units
      BY NamedUnits DEF SessionUnits
    <2>2. ASSUME NEW u \in S, NEW v \in PullsIn[u]
          PROVE  v \in S
      <3>1. /\ u[1] \in {"envelope", "pre", "session", "wm", "env"}
            /\ v[1] \in {"envelope", "pre", "session", "wm", "env", "gspre", "gs", "waitenv"}
            /\ v = <<v[1], IF v[1] \in PerId THEN u[2] ELSE Shared>>
        BY <2>1, <2>2, PullsKinds
      <3>2. u[2] = i
        BY <2>2, <3>1 DEF SessionUnits, Envelope, Pre, Session, Wm, Env, Gs, GsPre, Waitenv
      <3> QED BY <3>1, <3>2 DEF PerId, SessionUnits, Envelope, Pre, Session, Wm, Env, Gs, GsPre, Waitenv
    <2>3. \A u \in S : PullsIn[u] \subseteq S
      BY <2>2
    <2>4. Envelope(i) \in S
      BY DEF SessionUnits
    <2> HIDE DEF S
    <2>5. Reach(PullsIn)[Envelope(i)] \subseteq S
      BY <2>1, <2>3, <2>4, ReachStays
    <2>6. {Envelope(i), Env(i), Pre(i)} \subseteq Reach(PullsIn)[Envelope(i)]
      BY Edges, ReachGoes, NamedUnits
    <2> QED BY <2>5, <2>6 DEF S
  <1>2. ASSUME NEW u \in Units, u[1] \in {"bindpid", "apps"}
        PROVE  Reach(PullsIn)[u] = {u}
    <2>1. \A v \in {u} : PullsIn[v] \subseteq {u}
      BY <1>2, PullsKinds
    <2>2. Reach(PullsIn)[u] \subseteq {u}
      BY <2>1, ReachStays
    <2> QED BY <2>2, Edges, ReachGoes
  <1> QED BY <1>1, <1>2 DEF StartWith

\* A start stops the shutdown target; the start of that stops everything else.
LEMMA StartStopsSets ==
    /\ \A u \in Units \ {Shutdown} : StartStops[u] = {Shutdown}
    /\ StartStops[Shutdown] = Units \ {Shutdown}
PROOF
  <1>1. ASSUME NEW u \in Units \ {Shutdown}
        PROVE  StartStops[u] = {Shutdown}
    <2>1. \A v \in StartWith[u] : Conflicts[v] = {Shutdown}
      BY ShutdownApart, Derived
    <2>2. \A v \in StartWith[u] : UNION {StopWith[c] : c \in Conflicts[v]} = {Shutdown}
      BY <2>1, ShutdownApart
    <2>3. u \in StartWith[u]
      BY ShutdownApart
    <2>4. StartStops[u] = UNION {UNION {StopWith[c] : c \in Conflicts[v]} : v \in StartWith[u]}
      BY Derived
    <2> QED BY <2>2, <2>3, <2>4
  <1>2. StartStops[Shutdown] = Units \ {Shutdown}
    <2>1. Conflicts[Shutdown] = Units \ {Shutdown}
      BY Derived, NamedUnits
    <2>2. UNION {StopWith[c] : c \in Units \ {Shutdown}} = Units \ {Shutdown}
      BY ShutdownApart
    <2>3. StartStops[Shutdown] = UNION {UNION {StopWith[c] : c \in Conflicts[v]} : v \in {Shutdown}}
      BY Derived, ShutdownApart, NamedUnits
    <2> QED BY <2>1, <2>2, <2>3
  <1> QED BY <1>1, <1>2

\* A stop of an outer unit stops outer units, every compositor among them.
LEMMA StopSets ==
    ASSUME NEW u \in Units, u[1] \in {"envelope", "session", "wm", "gs"}
    PROVE  /\ StopWith[u] \subseteq Outer
           /\ u \in StopWith[u]
           /\ \A k \in Ids : Wm(k) \in StopWith[u]
PROOF
  <1>1. \A v \in Outer : TakesAlong[v] \subseteq Outer
    BY TakesKinds DEF Outer, OuterKinds
  <1>2. Outer \in SUBSET Units /\ u \in Outer
    BY DEF Outer, OuterKinds
  <1>3. Reach(TakesAlong)[u] \subseteq Outer
    BY <1>1, <1>2, ReachStays
  <1>4. u \in Reach(TakesAlong)[u]
    BY Edges, ReachGoes
  <1>5. ASSUME NEW k \in Ids
        PROVE  Wm(k) \in Reach(TakesAlong)[u]
    <2>1. u[2] \in Ids \/ u = Gs
      BY UnitForm DEF PerId, Common, Gs
    <2>2. CASE u = Gs
      BY <2>2, Edges, ReachGoes, NamedUnits
    <2>3. CASE u[2] \in Ids /\ u = Session(u[2])
      BY <2>3, Edges, ReachGoes, NamedUnits
    <2>4. CASE u[2] \in Ids /\ u = Wm(u[2])
      BY <2>4, Edges, ReachGoes, NamedUnits
    <2>5. CASE u[2] \in Ids /\ u = Envelope(u[2])
      BY <2>5, Edges, ReachGoes, NamedUnits
    <2>6. u = <<u[1], u[2]>> /\ (u[1] = "gs" => u = Gs)
      BY UnitForm DEF PerId, Common, Gs
    <2> QED BY <2>1, <2>2, <2>3, <2>4, <2>5, <2>6 DEF Session, Wm, Envelope
  <1> QED BY <1>3, <1>4, <1>5 DEF StopWith

\* The order of the units, as far as it is used below.
LEMMA Order ==
    /\ \A i \in Ids : /\ Wm(i) \in IsBefore[Pre(i)]
                      /\ Pre(i) \in IsAfter[Wm(i)]
                      /\ Pre(i) \in IsBefore[Env(i)]
                      /\ Env(i) \in IsAfter[Pre(i)]
                      /\ Envelope(i) \in IsAfter[Env(i)]
    /\ \A u \in Units \ {Shutdown} : u \in IsAfter[Shutdown] \/ u \in IsBefore[Shutdown]
    /\ \A u \in Units \ {Shutdown} : Shutdown \in IsAfter[u] \/ Shutdown \in IsBefore[u]
PROOF
  <1>1. IsBefore = [u \in Units |->
            {v \in Units : \/ v \in Of(BeforeRow(u[1]), u[2])
                           \/ u \in Of(AfterRow(v[1]), v[2])
                           \/ v = Shutdown /\ u[1] \in AfterRow("shutdown")
                           \/ u = Shutdown /\ v[1] = "envelope"}]
    BY TabulatedIs DEF IsBefore
  <1>2. IsAfter = [u \in Units |-> {v \in Units : u \in IsBefore[v]}]
    BY TabulatedIs DEF IsAfter
  <1>3. /\ BeforeRow("envelope") = {"env", "wm"}
        /\ BeforeRow("env") = {"pre", "gspre"}
    BY DEF BeforeRow
  <1>4. /\ AfterRow("wm") = {"pre", "gspre"}
        /\ AfterRow("shutdown") = {"gspre", "gs", "pre", "session", "wm", "env", "waitenv", "bindpid",
                                   "apps"}
    BY DEF AfterRow
  <1>5. ASSUME NEW i \in Ids
        PROVE  /\ Wm(i) \in IsBefore[Pre(i)]
               /\ Pre(i) \in IsBefore[Env(i)]
               /\ Env(i) \in IsBefore[Envelope(i)]
    <2>1. Pre(i) \in Of({"pre", "gspre"}, i) /\ Env(i) \in Of({"env", "wm"}, i)
      BY DEF Of, PerId, Pre, Env
    <2>2. /\ Wm(i)[1] = "wm" /\ Wm(i)[2] = i
          /\ Env(i)[1] = "env" /\ Env(i)[2] = i
          /\ Envelope(i)[1] = "envelope" /\ Envelope(i)[2] = i
      BY DEF Wm, Env, Envelope
    <2> QED BY <1>1, <1>3, <1>4, <2>1, <2>2, NamedUnits
  <1>6. ASSUME NEW u \in Units \ {Shutdown}
        PROVE  Shutdown \in IsBefore[u] \/ u \in IsBefore[Shutdown]
    <2>1. u[1] \in AfterRow("shutdown") \/ u[1] = "envelope"
      BY <1>4, ShutdownApart, UnitForm DEF PerId, Common
    <2> QED BY <1>1, <2>1, NamedUnits
  <1> QED BY <1>2, <1>5, <1>6, NamedUnits

\* The units that go when the environment's or the compositor's does by itself.
LEMMA StopsOnStopSets ==
    ASSUME NEW i \in Ids
    PROVE  /\ StopsOnStop[Env(i)] \subseteq {u \in Units : u[1] = "envelope"} \cup {Pre(i)}
           /\ Envelope(i) \in StopsOnStop[Env(i)]
           /\ StopsOnStop[Wm(i)] \subseteq {u \in Units : u[1] \in {"envelope", "session", "gs"}}
PROOF
  <1>1. ASSUME NEW k, NEW v \in Units, <<k, i>> \in BindsTo[v]
        PROVE  k \in BindsToRow(v[1])
    BY <1>1, Relations, OfKind
  <1>2. ASSUME NEW k, <<k, i>> \in Units, NEW v \in PropagatesStopTo[<<k, i>>]
        PROVE  v \in Of(PropagatesStopToRow(k), i)
    BY <1>2, Relations
  <1>3. ASSUME NEW v \in StopsOnStop[Env(i)]
        PROVE  v \in {u \in Units : u[1] = "envelope"} \cup {Pre(i)}
    <2>1. v \in Units /\ (Env(i) \in BindsTo[v] \/ v \in PropagatesStopTo[Env(i)])
      BY <1>3, Derived, NamedUnits
    <2>2. CASE Env(i) \in BindsTo[v]
      <3>1. "env" \in BindsToRow(v[1])
        BY <1>1, <2>1, <2>2 DEF Env
      <3> QED BY <2>1, <3>1, BindsToRows
    <2>3. CASE v \in PropagatesStopTo[Env(i)]
      <3>1. v \in Of({"pre"}, i)
        BY <1>2, <2>3, PropagatesStopToRows, NamedUnits DEF Env
      <3> QED BY <3>1 DEF Of, PerId, Pre
    <2> QED BY <2>1, <2>2, <2>3
  <1>4. ASSUME NEW v \in StopsOnStop[Wm(i)]
        PROVE  v \in {u \in Units : u[1] \in {"envelope", "session", "gs"}}
    <2>1. v \in Units /\ (Wm(i) \in BindsTo[v] \/ v \in PropagatesStopTo[Wm(i)])
      BY <1>4, Derived, NamedUnits
    <2>2. CASE Wm(i) \in BindsTo[v]
      <3>1. "wm" \in BindsToRow(v[1])
        BY <1>1, <2>1, <2>2 DEF Wm
      <3> QED BY <2>1, <3>1, BindsToRows
    <2>3. CASE v \in PropagatesStopTo[Wm(i)]
      <3>1. v \in Of({"session", "gs"}, i)
        BY <1>2, <2>3, PropagatesStopToRows, NamedUnits DEF Wm
      <3> QED BY <2>1, <3>1, OfKind
    <2> QED BY <2>1, <2>2, <2>3
  <1>5. Env(i) \in BindsTo[Envelope(i)]
    <2>1. BindsTo[Envelope(i)] = Of({"env", "wm"}, i)
      BY Relations, BindsToRows, NamedUnits DEF Envelope
    <2> QED BY <2>1 DEF Of, PerId, Env
  <1>6. Envelope(i) \in StopsOnStop[Env(i)]
    BY <1>5, Derived, NamedUnits
  <1> QED BY <1>3, <1>4, <1>6

\* The units that keep the environment's, and the ones around it, needed.
LEMMA Needed ==
    ASSUME NEW i \in Ids
    PROVE  /\ Env(i) \in KeepsNeeded[Pre(i)]
           /\ Pre(i) \in KeepsNeeded[Env(i)]
           /\ Pre(i) \in KeepsNeeded[GsPre]
PROOF
  <1>1. /\ BindsTo[Env(i)] = Of({"pre"}, i)
        /\ BindsTo[Pre(i)] = Of({"gspre"}, i)
        /\ Requires[Pre(i)] = Of({"env"}, i)
    BY Relations, BindsToRows, RequiresRows, NamedUnits DEF Env, Pre
  <1>2. Pre(i) \in BindsTo[Env(i)] /\ GsPre \in BindsTo[Pre(i)] /\ Env(i) \in Requires[Pre(i)]
    BY <1>1 DEF Of, PerId, Env, Pre, GsPre
  <1> QED BY <1>2, Derived, NamedUnits

-----------------------------------------------------------------------------
(* The jobs a request leaves.                                              *)

Jobs == [type : {"none", "start", "starting", "stop"}, hard : BOOLEAN]

SoftStop  == [type |-> "stop", hard |-> FALSE]
SoftStart == [type |-> "start", hard |-> FALSE]

\* The jobs that are made.
LEMMA JobForms ==
    /\ NoJob \in Jobs /\ SoftStop \in Jobs /\ SoftStart \in Jobs
    /\ NoJob.type = "none" /\ NoJob.hard = FALSE
    /\ Job("stop", "replace") = SoftStop
    /\ Job("start", "replace") = SoftStart
    /\ Job("stop", OnJobMode) = [type |-> "stop", hard |-> TRUE]
    /\ Job("start", OnJobMode) = [type |-> "start", hard |-> TRUE]
  BY DEF Jobs, NoJob, SoftStop, SoftStart, Job, OnJobMode

\* A job that is made firmer.
LEMMA FirmerForms ==
    ASSUME NEW one \in Jobs, NEW mode
    PROVE  /\ Firmer(one, mode) \in Jobs
           /\ Firmer(one, mode).type = one.type
           /\ one.hard => Firmer(one, mode).hard
           /\ mode = OnJobMode => Firmer(one, mode).hard
           /\ mode = "replace" => Firmer(one, mode) = one
PROOF
  <1> DEFINE h == one.hard \/ Job(one.type, mode).hard
  <1>1. Firmer(one, mode) = [one EXCEPT !.hard = h]
    BY DEF Firmer
  <1>2. h \in BOOLEAN /\ (one.hard => h = TRUE)
    OBVIOUS
  <1>3. mode = OnJobMode => h = TRUE
    BY DEF Job, OnJobMode
  <1>4. mode = "replace" => h = one.hard
    <2>1. one.hard \in BOOLEAN
      BY DEF Jobs
    <2>2. mode = "replace" => Job(one.type, mode).hard = FALSE
      BY DEF Job
    <2> QED BY <2>1, <2>2
  <1> HIDE DEF h
  <1>5. [one EXCEPT !.hard = h] = [type |-> one.type, hard |-> h]
    BY DEF Jobs
  <1>6. /\ one = [type |-> one.type, hard |-> one.hard]
        /\ one.type \in {"none", "start", "starting", "stop"}
    BY DEF Jobs
  <1>7. Firmer(one, mode).type = one.type /\ Firmer(one, mode).hard = h
    BY <1>1, <1>5
  <1>8. Firmer(one, mode) \in Jobs
    BY <1>1, <1>2, <1>5, <1>6 DEF Jobs
  <1>9. mode = "replace" => Firmer(one, mode) = one
    BY <1>1, <1>4, <1>5, <1>6
  <1> QED BY <1>2, <1>3, <1>7, <1>8, <1>9

\* What Installed computes.
LEMMA InstalledIs ==
    ASSUME NEW j, NEW starts, NEW stops, NEW mode, NEW u \in Units
    PROVE  Installed(j, starts, stops, mode)[u] =
             IF u \in starts /\ (st[u] # "active" \/ j[u].type = "stop")
             THEN IF Starting(j[u]) THEN Firmer(j[u], mode) ELSE Job("start", mode)
             ELSE IF u \in stops /\ (st[u] # "inactive" \/ Starting(j[u]))
             THEN IF j[u].type = "stop" THEN Firmer(j[u], mode) ELSE Job("stop", mode)
             ELSE j[u]
  BY TabulatedIs DEF Installed

\* A request leaves jobs.
LEMMA InstalledType ==
    ASSUME NEW j \in [Units -> Jobs], NEW starts, NEW stops, NEW mode
    PROVE  Installed(j, starts, stops, mode) \in [Units -> Jobs]
PROOF
  <1>1. DOMAIN Installed(j, starts, stops, mode) = Units
        /\ Installed(j, starts, stops, mode)
             = [u \in Units |-> Installed(j, starts, stops, mode)[u]]
    BY TabulatedIs DEF Installed
  <1>2. \A u \in Units : Firmer(j[u], mode) \in Jobs
    BY FirmerForms
  <1>3. Job("start", mode) \in Jobs /\ Job("stop", mode) \in Jobs
    BY DEF Job, Jobs
  <1>4. \A u \in Units : Installed(j, starts, stops, mode)[u] \in Jobs
    BY <1>2, <1>3, InstalledIs
  <1> QED BY <1>1, <1>4

\* So do a trigger and a failed start.
LEMMA TriggeredType ==
    ASSUME NEW j \in [Units -> Jobs], NEW us, NEW trigger
    PROVE  Triggered(j, us, trigger) \in [Units -> Jobs]
  BY InstalledType DEF Triggered, Started

\* A start that fails leaves jobs.
LEMMA StartFailedType ==
    ASSUME NEW j \in [Units -> Jobs], NEW u
    PROVE  StartFailed(j, u) \in [Units -> Jobs]
PROOF
  <1> DEFINE lost == {v \in FailsWith[u] : Starting(j[v])}
             left == [v \in Units |-> IF v \in lost THEN NoJob ELSE j[v]]
  <1>1. left \in [Units -> Jobs]
    BY JobForms
  <1>2. StartFailed(j, u) = Triggered(left, lost, OnFailure)
    BY TabulatedIs DEF StartFailed
  <1> HIDE DEF left, lost
  <1> QED BY <1>1, <1>2, TriggeredType

\* A job that is done leaves jobs.
LEMMA DoneType ==
    ASSUME NEW j \in [Units -> Jobs], NEW u
    PROVE  Done(j, u) \in [Units -> Jobs]
  BY JobForms DEF Done

-----------------------------------------------------------------------------
(* The type invariant.                                                     *)

\* Its parts.
StType == st \in [Units -> States] /\ \A u \in Units \ Services : st[u] \in {"active", "inactive"}
JobType == job \in [Units -> Jobs]
RestType ==
    /\ anchor \in [Ids -> Anchors]
    /\ stop \in {<<>>} \cup {<<i>> : i \in Ids} \cup {<<i, "ok">> : i \in Ids}

\* The type invariant is the conjunction of its parts.
LEMMA TypeParts == LifecycleTypeOK <=> StType /\ JobType /\ RestType
  BY DEF LifecycleTypeOK, StType, JobType, RestType, Jobs

\* The units that run a process.
LEMMA NamedServices ==
    /\ \A i \in Ids : {Env(i), Wm(i), BindPid(i)} \subseteq Services
    /\ Waitenv \in Services
    /\ \A u \in Units : u[1] \in {"env", "wm"} => u \in Services
  BY NamedUnits DEF Services, Env, Wm, BindPid, Waitenv

\* A unit's state is set to one that it may have.
LEMMA SetType ==
    ASSUME StType, NEW u \in Units, NEW x \in States, Set(u, x),
           u \in Services \/ x \in {"active", "inactive"}
    PROVE  StType'
  BY DEF StType, Set, States, Services

\* A job that is going to run.
LEMMA StartingType ==
    ASSUME NEW j \in [Units -> Jobs], NEW u \in Units
    PROVE  /\ [j EXCEPT ![u].type = "starting"] \in [Units -> Jobs]
           /\ [j EXCEPT ![u].type = "starting"][u].type = "starting"
           /\ [j EXCEPT ![u].type = "starting"][u].hard = j[u].hard
           /\ \A v \in Units \ {u} : [j EXCEPT ![u].type = "starting"][v] = j[v]
  BY DEF Jobs

\* Every step keeps the types.
LEMMA TypeNext ==
    ASSUME LifecycleTypeOK, [Next]_vars
    PROVE  LifecycleTypeOK'
PROOF
  <1> USE DEF States
  <1>0. StType /\ JobType /\ RestType
    BY TypeParts
  <1>1. ASSUME NEW u \in Units, RunTarget(u)
        PROVE  StType' /\ JobType' /\ RestType'
    BY <1>0, <1>1, SetType, DoneType DEF RunTarget, JobType, RestType
  <1>2. ASSUME NEW u \in Units, RunService(u)
        PROVE  StType' /\ JobType' /\ RestType'
    <2>1. RestType'
      BY <1>0, <1>2 DEF RunService, RestType
    <2>2. StType'
      <3>1. CASE UNCHANGED st
        BY <1>0, <3>1 DEF StType
      <3>2. CASE \E x \in {"active", "activating"} : Set(u, x)
        BY <1>0, <1>2, <3>2, SetType DEF RunService
      <3> QED BY <1>2, <3>1, <3>2 DEF RunService
    <2>3. JobType'
      <3> DEFINE j == [job EXCEPT ![u].type = "starting"]
      <3>1. j \in [Units -> Jobs]
        BY <1>0, StartingType DEF JobType
      <3> HIDE DEF j
      <3>2. \A j2 \in ensure_bindpid(j, u[2]) : j2 \in [Units -> Jobs]
        BY <3>1, InstalledType DEF ensure_bindpid, Started
      <3>3. job' = Done(job, u) \/ job' = j \/ job' \in ensure_bindpid(j, u[2])
        BY <1>2 DEF RunService, j
      <3> QED BY <1>0, <3>1, <3>2, <3>3, DoneType DEF JobType
    <2> QED BY <2>1, <2>2, <2>3
  <1>3. ASSUME NEW u \in Units, RunStop(u)
        PROVE  StType' /\ JobType' /\ RestType'
    <2>1. CASE Set(u, "deactivating") /\ UNCHANGED <<job, anchor, stop>>
      BY <1>0, <1>3, <2>1, SetType DEF RunStop, JobType, RestType
    <2>2. CASE job' = Done(job, u) /\ UNCHANGED <<st, anchor, stop>>
      BY <1>0, <2>2, DoneType DEF JobType, RestType, StType
    <2> QED BY <1>3, <2>1, <2>2 DEF RunStop
  <1>4. ASSUME NEW u \in Units, ServiceGone(u)
        PROVE  StType' /\ JobType' /\ RestType'
    <2>1. StType' /\ RestType'
      BY <1>0, <1>4, SetType DEF ServiceGone, RestType
    <2>2. \/ job' = StartFailed(job, u)
          \/ job' = Triggered(Done(job, u), {u}, OnSuccess)
          \/ job' = Triggered(job, {u}, OnSuccess)
      BY <1>4 DEF ServiceGone
    <2>3. JobType'
      BY <1>0, <2>2, DoneType, TriggeredType, StartFailedType DEF JobType
    <2> QED BY <2>1, <2>3
  <1>5. ASSUME NEW u \in Units, Unneeded(u)
        PROVE  StType' /\ JobType' /\ RestType'
    BY <1>0, <1>5, InstalledType DEF Unneeded, Stopped, StType, JobType, RestType
  <1>6. ASSUME NEW i \in Ids, PrepareEnds(i) \/ Ready(i)
        PROVE  StType' /\ JobType' /\ RestType'
    BY <1>0, <1>6, SetType, DoneType, NamedUnits DEF PrepareEnds, Ready, JobType, RestType
  <1>7. ASSUME NEW i \in Ids, WaitpidEnds(i)
        PROVE  StType' /\ JobType' /\ RestType'
    <2>1. StType' /\ RestType'
      BY <1>0, <1>7, SetType, NamedUnits DEF WaitpidEnds, RestType
    <2>2. JobType'
      BY <1>0, <1>7, DoneType, TriggeredType DEF WaitpidEnds, JobType
    <2> QED BY <2>1, <2>2
  <1>8. ASSUME NEW u \in Units, ServiceEnds(u)
        PROVE  StType' /\ JobType' /\ RestType'
    <2>1. StType' /\ RestType'
      BY <1>0, <1>8, SetType, NamedServices DEF ServiceEnds, RestType
    <2>2. JobType'
      BY <1>0, <1>8, InstalledType DEF ServiceEnds, Unexpected, Stopped, JobType
    <2> QED BY <2>1, <2>2
  <1>9. ASSUME NEW ok \in BOOLEAN, WaitenvEnds(ok)
        PROVE  StType' /\ JobType' /\ RestType'
    <2>1. StType' /\ RestType'
      BY <1>0, <1>9, SetType, NamedUnits DEF WaitenvEnds, RestType, Waitenv
    <2>2. \/ job' = Done(job, Waitenv)
          \/ job' = Triggered(Done(job, Waitenv), {Waitenv}, OnFailure)
      BY <1>9 DEF WaitenvEnds, Waitenv
    <2>3. JobType'
      BY <1>0, <2>2, DoneType, TriggeredType DEF JobType
    <2> QED BY <2>1, <2>3
  <1>10. ASSUME AppStarts
         PROVE  StType' /\ JobType' /\ RestType'
    BY <1>0, <1>10, InstalledType DEF AppStarts, Started, StType, JobType, RestType
  <1>11. ASSUME NEW i \in Ids, Anchor(i)
         PROVE  StType' /\ JobType' /\ RestType'
    <2>1. StType'
      BY <1>0, <1>11 DEF Anchor, StartChecks, StartBinds, Bound, AnchorStarts, Signal, AnchorEnds, AnchorDies,
                         StType
    <2>2. \/ UNCHANGED job
          \/ \E starts, stops : job' = Installed(job, starts, stops, "replace")
      BY <1>11 DEF Anchor, StartChecks, StartBinds, Bound, AnchorStarts, Signal, AnchorEnds, AnchorDies,
                   Started, Stopped
    <2>3. JobType'
      BY <1>0, <2>2, InstalledType DEF JobType
    <2>4. stop' = stop /\ (UNCHANGED anchor \/ \E to \in Anchors : Moves(i, to))
      BY <1>11 DEF Anchor, StartChecks, StartBinds, Bound, AnchorStarts, Signal, AnchorEnds, AnchorDies, Anchors
    <2>5. RestType'
      BY <1>0, <2>4 DEF RestType, Moves
    <2> QED BY <2>1, <2>3, <2>5
  <1>12. ASSUME NEW i \in Ids, Stopper(i)
         PROVE  StType' /\ JobType' /\ RestType'
    <2>1. StType' /\ anchor' = anchor
      BY <1>0, <1>12 DEF Stopper, stop_wm, JobGone, TimedOut, StopReturns, StType
    <2>2. JobType'
      BY <1>0, <1>12, InstalledType DEF Stopper, stop_wm, JobGone, TimedOut, StopReturns, JobType, Stopped
    <2>3. stop' \in {<<>>, <<i>>, <<i, "ok">>}
      BY <1>12 DEF Stopper, stop_wm, JobGone, TimedOut, StopReturns
    <2>4. RestType'
      BY <1>0, <2>1, <2>3 DEF RestType
    <2> QED BY <2>1, <2>2, <2>4
  <1>13. CASE UNCHANGED vars
    BY <1>13 DEF vars, LifecycleTypeOK
  <1>14. LifecycleTypeOK' <=> StType' /\ JobType' /\ RestType'
    BY DEF LifecycleTypeOK, StType, JobType, RestType, Jobs
  <1> QED BY <1>1, <1>2, <1>3, <1>4, <1>5, <1>6, <1>7, <1>8, <1>9, <1>10, <1>11, <1>12, <1>13, <1>14
         DEF Next, Manager, Ends

\* Initially nothing is up.
LEMMA TypeInit ==
    ASSUME Init
    PROVE  LifecycleTypeOK
  BY DEF Init, LifecycleTypeOK, NoJob, States, Anchors

\* The variables of the session's life always hold values of their kind.
THEOREM LifecycleTypeCorrect == Spec => []LifecycleTypeOK
  BY TypeInit, TypeNext, PTL DEF Spec

-----------------------------------------------------------------------------
(* The inductive invariant, for starts that do not overlap.  From the start of *)
(* the shutdown target to its arrival the session drains: nothing is started  *)
(* any more, and whatever is up has an irreversible stop.                     *)

Draining == Starting(job[Shutdown])

\* A session has begun and is not over: a unit of it is up or has a job.
Engaged(i) == \E u \in SessionUnits(i) : st[u] # "inactive" \/ job[u].type # "none"

\* What the environment and the compositor hang on is there or comes.
Alive(i) == Starting(job[Pre(i)]) \/ st[Pre(i)] = "active"

\* A wsmr start has made its check and not yet its request.
Beginning(i) == anchor[i] \in {"checked", "bound"}

\* Only draining makes jobs irreversible.
HardInv == \A u \in Units : job[u].hard => Draining /\ job[u].type # "none"

\* While the session drains.
DrainInv ==
    Draining =>
        /\ job[Shutdown].hard
        /\ st[Shutdown] = "inactive"
        /\ \A u \in Units \ {Shutdown} :
              /\ ~Starting(job[u])
              /\ st[u] # "inactive" => job[u].type = "stop" /\ job[u].hard

\* While the shutdown target is there nothing else is, and what is to be started
\* has it stopped first.
RestInv ==
    st[Shutdown] = "active" =>
        \A u \in Units \ {Shutdown} :
            st[u] = "inactive" /\ (job[u].type = "none" \/ job[Shutdown].type = "stop")

\* The compositor needs the pre target, and that needs the environment.
OrderInv(i) ==
    /\ st[Pre(i)] = "active" => st[Env(i)] = "active"
    /\ st[Wm(i)] # "inactive" => st[Pre(i)] = "active"

\* cleanup-env does not run ahead of a start of the compositor.
CleanupInv(i) == st[Env(i)] = "deactivating" => ~Starting(job[Wm(i)])

\* A session that does not drain: the environment and the pre target stay, the
\* compositor comes with the envelope only, and the envelope is there before the
\* environment is.
WorkInv(i) ==
    ~Draining =>
        /\ job[Pre(i)].type # "stop"
        /\ job[Env(i)].type # "stop"
        /\ Engaged(i) => Alive(i)
        /\ Alive(i) => Starting(job[Env(i)]) \/ st[Env(i)] = "active"
        /\ Starting(job[Wm(i)]) =>
               \/ Starting(job[Envelope(i)])
               \/ st[Envelope(i)] = "active" /\ job[Envelope(i)].type # "stop"
        /\ st[Env(i)] # "inactive" => ~Starting(job[Envelope(i)])

SessionInv(i) == OrderInv(i) /\ CleanupInv(i) /\ WorkInv(i)

\* graphical-session-pre is there only for a session that is or comes.
GsPreInv == ~Draining /\ (st[GsPre] = "active" \/ Starting(job[GsPre])) => \E i \in Ids : Alive(i)

\* There is one session at most.
AloneInv == \A i, k \in Ids : Engaged(i) /\ Engaged(k) => i = k

\* When a start has checked, sessions are over or drain, and no other start and no
\* stop has begun.
BeginInv ==
    \A i \in Ids : Beginning(i) =>
        \A k \in Ids : /\ Beginning(k) => k = i
                       /\ ~Up(Wm(k))
                       /\ Engaged(k) => Draining
                       /\ stop # <<k>>

\* The job that wsmr stop waits for.
StopInv ==
    \A i \in Ids : stop = <<i>> =>
        \/ job[Wm(i)].type = "stop"
        \/ st[Wm(i)] = "inactive" /\ job[Wm(i)].type = "none"

\* The inductive invariant.
LifecycleInv ==
    /\ LifecycleTypeOK
    /\ HardInv
    /\ DrainInv
    /\ RestInv
    /\ \A i \in Ids : SessionInv(i)
    /\ GsPreInv
    /\ AloneInv
    /\ BeginInv
    /\ StopInv

-----------------------------------------------------------------------------
(* What requests do in states of the invariant.                            *)

\* The units of different kinds, and of different sessions, are different ones.
LEMMA Apart ==
    /\ \A i \in Ids :
          /\ Env(i)[1] = "env" /\ Env(i)[2] = i
          /\ Wm(i)[1] = "wm" /\ Wm(i)[2] = i
          /\ Envelope(i)[1] = "envelope" /\ Envelope(i)[2] = i
          /\ BindPid(i)[1] = "bindpid" /\ BindPid(i)[2] = i
          /\ Pre(i)[1] = "pre" /\ Pre(i)[2] = i
          /\ Session(i)[1] = "session" /\ Session(i)[2] = i
    /\ Gs[1] = "gs" /\ GsPre[1] = "gspre" /\ Waitenv[1] = "waitenv" /\ Apps[1] = "apps"
    /\ Shutdown[1] = "shutdown"
  BY DEF Env, Wm, Envelope, BindPid, Pre, Session, Gs, GsPre, Waitenv, Apps, Shutdown

\* A stop while the session drains changes nothing; otherwise what is up or is to
\* come has a stop afterwards.
LEMMA StoppedEffect ==
    ASSUME JobType, StType, HardInv, DrainInv, NEW us,
           NEW X, X = UNION {StopWith[u] : u \in us}
    PROVE  /\ Draining /\ Shutdown \notin X => Stopped(job, us) = job
           /\ ~Draining => \A u \in Units : Stopped(job, us)[u] =
                  IF u \in X /\ (st[u] # "inactive" \/ Starting(job[u])) THEN SoftStop ELSE job[u]
PROOF
  <1> DEFINE jn == Stopped(job, us)
  <1>1. \A u \in Units : jn[u] =
            IF u \in X /\ (st[u] # "inactive" \/ Starting(job[u]))
            THEN IF job[u].type = "stop" THEN Firmer(job[u], "replace") ELSE Job("stop", "replace")
            ELSE job[u]
    BY InstalledIs DEF Stopped
  <1>2. \A u \in Units : job[u] \in Jobs /\ Firmer(job[u], "replace") = job[u]
    BY FirmerForms DEF JobType
  <1>3. jn \in [Units -> Jobs]
    BY InstalledType DEF Stopped, JobType
  <1> HIDE DEF jn
  <1>4. ASSUME Draining, Shutdown \notin X
        PROVE  jn = job
    <2>1. \A u \in Units \ {Shutdown} : jn[u] = job[u]
      BY <1>1, <1>2, <1>4 DEF DrainInv
    <2>2. jn[Shutdown] = job[Shutdown]
      BY <1>1, <1>4, NamedUnits
    <2>3. \A u \in Units : jn[u] = job[u]
      BY <2>1, <2>2
    <2> QED BY <1>3, <2>3 DEF JobType
  <1>5. ASSUME ~Draining, NEW u \in Units
        PROVE  jn[u] = IF u \in X /\ (st[u] # "inactive" \/ Starting(job[u])) THEN SoftStop ELSE job[u]
    <2>1. job[u].type = "stop" => job[u] = SoftStop
      <3>1. job[u].hard = FALSE
        BY <1>2, <1>5 DEF HardInv, Jobs
      <3> QED BY <1>2, <3>1 DEF Jobs, SoftStop
    <2> QED BY <1>1, <1>2, <2>1, JobForms
  <1> QED BY <1>4, <1>5 DEF jn

\* A start is refused while the session drains.
LEMMA StartRefusedDraining ==
    ASSUME DrainInv, Draining, NEW u \in Units \ {Shutdown}
    PROVE  StartRefused(job, u, "replace")
  BY StartStopsSets DEF DrainInv, Draining, StartRefused, Refused

\* A start otherwise.  What it starts has a start afterwards, and the shutdown
\* target, if it is there, a stop.
LEMMA StartedEffect ==
    ASSUME StType, NEW j \in [Units -> Jobs], \A u \in Units : j[u].hard = FALSE, ~Starting(j[Shutdown]),
           NEW u \in Units \ {Shutdown}, NEW v \in Units
    PROVE  Started(j, u, "replace")[v] =
             IF v \in StartWith[u] /\ (st[v] # "active" \/ j[v].type = "stop")
             THEN IF Starting(j[v]) THEN j[v] ELSE SoftStart
             ELSE IF v = Shutdown /\ st[v] = "active" THEN SoftStop
             ELSE j[v]
PROOF
  <1>1. StartStops[u] = {Shutdown}
    BY StartStopsSets
  <1>2. j[v] \in Jobs /\ Firmer(j[v], "replace") = j[v]
    BY FirmerForms
  <1>3. j[v].type = "stop" => j[v] = SoftStop
    BY <1>2 DEF Jobs, SoftStop
  <1>4. v = Shutdown => st[v] \in {"active", "inactive"}
    BY NamedUnits DEF StType, Services, Shutdown
  <1>5. Started(j, u, "replace")[v] =
             IF v \in StartWith[u] /\ (st[v] # "active" \/ j[v].type = "stop")
             THEN IF Starting(j[v]) THEN Firmer(j[v], "replace") ELSE Job("start", "replace")
             ELSE IF v \in {Shutdown} /\ (st[v] # "inactive" \/ Starting(j[v]))
             THEN IF j[v].type = "stop" THEN Firmer(j[v], "replace") ELSE Job("stop", "replace")
             ELSE j[v]
    BY <1>1, InstalledIs DEF Started
  <1> QED BY <1>2, <1>3, <1>4, <1>5, JobForms

\* The trigger is not refused, and the session drains.
LEMMA TriggerEffect ==
    ASSUME NEW j \in [Units -> Jobs], st[Shutdown] = "inactive",
           \A u \in Units \ {Shutdown} : Starting(j[u]) => ~j[u].hard,
           j[Shutdown].type = "stop" => ~j[Shutdown].hard,
           NEW us, NEW trigger, us \cap trigger # {}
    PROVE  /\ Starting(Triggered(j, us, trigger)[Shutdown])
           /\ Triggered(j, us, trigger)[Shutdown].hard
           /\ \A u \in Units \ {Shutdown} :
                 /\ ~Starting(Triggered(j, us, trigger)[u])
                 /\ st[u] # "inactive" \/ Starting(j[u]) =>
                        /\ Triggered(j, us, trigger)[u].type = "stop"
                        /\ Triggered(j, us, trigger)[u].hard
                 /\ j[u].type = "stop" => Triggered(j, us, trigger)[u].type = "stop"
                 /\ st[u] = "inactive" /\ ~Starting(j[u]) => Triggered(j, us, trigger)[u] = j[u]
PROOF
  <1> DEFINE jn == Started(j, Shutdown, OnJobMode)
  <1>1. /\ StartWith[Shutdown] = {Shutdown}
        /\ StartStops[Shutdown] = Units \ {Shutdown}
        /\ Shutdown \in Units
    BY ShutdownApart, StartStopsSets, NamedUnits
  <1>2. jn[Shutdown] =
            IF Starting(j[Shutdown]) THEN Firmer(j[Shutdown], OnJobMode) ELSE Job("start", OnJobMode)
    BY <1>1, InstalledIs DEF Started
  <1>3. \A u \in Units \ {Shutdown} : jn[u] =
            IF st[u] # "inactive" \/ Starting(j[u])
            THEN IF j[u].type = "stop" THEN Firmer(j[u], OnJobMode) ELSE Job("stop", OnJobMode)
            ELSE j[u]
    BY <1>1, InstalledIs DEF Started
  <1> HIDE DEF jn
  <1>4. \A u \in Units : Firmer(j[u], OnJobMode).type = j[u].type /\ Firmer(j[u], OnJobMode).hard
    BY FirmerForms
  <1>5. Starting(jn[Shutdown]) /\ jn[Shutdown].hard
    BY <1>1, <1>2, <1>4, JobForms DEF Starting
  <1>6. ~Refused(j, {Shutdown}, Units \ {Shutdown}, OnJobMode)
    BY DEF Refused, OnJobMode
  <1>7. ~Cyclic(jn)
    BY <1>5 DEF Cyclic, Starting
  <1>8. ~StartRefused(j, Shutdown, OnJobMode)
    BY <1>1, <1>6, <1>7 DEF StartRefused, jn
  <1>9. Triggered(j, us, trigger) = jn
    BY <1>8 DEF Triggered, jn
  <1>10. ASSUME NEW u \in Units \ {Shutdown}
         PROVE  /\ ~Starting(jn[u])
                /\ st[u] # "inactive" \/ Starting(j[u]) => jn[u].type = "stop" /\ jn[u].hard
                /\ j[u].type = "stop" => jn[u].type = "stop"
                /\ st[u] = "inactive" /\ ~Starting(j[u]) => jn[u] = j[u]
    BY <1>3, <1>4, JobForms DEF Starting
  <1> QED BY <1>5, <1>9, <1>10

-----------------------------------------------------------------------------
(* Steps that leave most of the units alone.                               *)

\* The units of i's session are as they were.
Same(i) == \A u \in SessionUnits(i) : st'[u] = st[u] /\ job'[u] = job[u]

\* What is said of a session does not change when its units do not.
LEMMA SessionFrame ==
    ASSUME NEW i \in Ids, Same(i)
    PROVE  /\ Engaged(i)' <=> Engaged(i)
           /\ Alive(i)' <=> Alive(i)
           /\ Up(Wm(i))' <=> Up(Wm(i))
           /\ job'[Wm(i)] = job[Wm(i)] /\ st'[Wm(i)] = st[Wm(i)]
           /\ SessionInv(i) /\ (Draining' <=> Draining) => SessionInv(i)'
PROOF
  <1>1. /\ st'[Envelope(i)] = st[Envelope(i)] /\ job'[Envelope(i)] = job[Envelope(i)]
        /\ st'[Pre(i)] = st[Pre(i)] /\ job'[Pre(i)] = job[Pre(i)]
        /\ st'[Wm(i)] = st[Wm(i)] /\ job'[Wm(i)] = job[Wm(i)]
        /\ st'[Env(i)] = st[Env(i)] /\ job'[Env(i)] = job[Env(i)]
    BY DEF Same, SessionUnits
  <1>2. Engaged(i)' <=> Engaged(i)
    BY DEF Same, Engaged
  <1>3. Alive(i)' <=> Alive(i)
    BY <1>1 DEF Alive, Starting
  <1>4. OrderInv(i) => OrderInv(i)'
    BY <1>1 DEF OrderInv
  <1>5. CleanupInv(i) => CleanupInv(i)'
    BY <1>1 DEF CleanupInv, Starting
  <1>6. WorkInv(i) /\ (Draining' <=> Draining) => WorkInv(i)'
    BY <1>1, <1>2, <1>3 DEF WorkInv, Starting
  <1> QED BY <1>1, <1>2, <1>3, <1>4, <1>5, <1>6 DEF SessionInv, Up

\* A step of at most one session, that neither begins nor ends draining.
LEMMA OneSessionStep ==
    ASSUME LifecycleInv, NEW i \in Ids, \A k \in Ids \ {i} : Same(k), Draining' <=> Draining,
           SessionInv(i)', Engaged(i)' => Engaged(i), ~Draining /\ Alive(i) => Alive(i)',
           Up(Wm(i))' => Up(Wm(i)) \/ (Engaged(i) /\ ~Draining),
           stop = <<i>> => \/ job'[Wm(i)].type = "stop"
                           \/ st'[Wm(i)] = "inactive" /\ job'[Wm(i)].type = "none",
           UNCHANGED <<anchor, stop>>
    PROVE  /\ \A k \in Ids : SessionInv(k)'
           /\ AloneInv' /\ BeginInv' /\ StopInv'
           /\ ~Draining /\ (\E k \in Ids : Alive(k)) => (\E k \in Ids : Alive(k)')
PROOF
  <1>1. \A k \in Ids \ {i} : /\ SessionInv(k)'
                             /\ Engaged(k)' <=> Engaged(k)
                             /\ Alive(k)' <=> Alive(k)
                             /\ Up(Wm(k))' <=> Up(Wm(k))
                             /\ job'[Wm(k)] = job[Wm(k)] /\ st'[Wm(k)] = st[Wm(k)]
    BY SessionFrame DEF LifecycleInv
  <1>2. AloneInv'
    BY <1>1 DEF LifecycleInv, AloneInv
  <1>3. \A k \in Ids : Beginning(k)' <=> Beginning(k)
    BY DEF Beginning
  <1>4. BeginInv'
    BY <1>1, <1>3 DEF LifecycleInv, BeginInv
  <1>5. StopInv'
    BY <1>1 DEF LifecycleInv, StopInv
  <1> QED BY <1>1, <1>2, <1>4, <1>5

\* A step of no session's units.
LEMMA QuietStep ==
    ASSUME LifecycleInv, \A k \in Ids : Same(k), Draining' <=> Draining
    PROVE  /\ \A k \in Ids : SessionInv(k)'
           /\ \A k \in Ids : Engaged(k)' <=> Engaged(k)
           /\ \A k \in Ids : Alive(k)' <=> Alive(k)
           /\ \A k \in Ids : Up(Wm(k))' <=> Up(Wm(k))
           /\ AloneInv'
           /\ stop' = stop => StopInv'
           /\ UNCHANGED <<anchor, stop>> => BeginInv'
PROOF
  <1>1. \A k \in Ids : /\ SessionInv(k)'
                       /\ Engaged(k)' <=> Engaged(k)
                       /\ Alive(k)' <=> Alive(k)
                       /\ Up(Wm(k))' <=> Up(Wm(k))
                       /\ job'[Wm(k)] = job[Wm(k)] /\ st'[Wm(k)] = st[Wm(k)]
    BY SessionFrame DEF LifecycleInv
  <1>2. AloneInv'
    BY <1>1 DEF LifecycleInv, AloneInv
  <1>3. anchor' = anchor => \A k \in Ids : Beginning(k)' <=> Beginning(k)
    BY DEF Beginning
  <1>4. UNCHANGED <<anchor, stop>> => BeginInv'
    BY <1>1, <1>3 DEF LifecycleInv, BeginInv
  <1>5. stop' = stop => StopInv'
    BY <1>1 DEF LifecycleInv, StopInv
  <1> QED BY <1>1, <1>2, <1>4, <1>5

\* A step of one unit: its state is x and its job b from now on.
Becomes(u, x, b) ==
    /\ st'[u] = x /\ job'[u] = b
    /\ \A v \in Units \ {u} : st'[v] = st[v] /\ job'[v] = job[v]

\* What such a step keeps, if it makes no job irreversible, starts nothing while the
\* session drains, and leaves everything down while the shutdown target is there.
LEMMA OneUnitStep ==
    ASSUME LifecycleInv, NEW u \in Units \ {Shutdown}, NEW x, NEW b, Becomes(u, x, b),
           b.hard => job[u].hard /\ b.type # "none",
           Draining => ~Starting(b) /\ (x # "inactive" => b.type = "stop" /\ b.hard),
           st[Shutdown] = "active" => x = "inactive" /\ (b.type = "none" \/ job[Shutdown].type = "stop")
    PROVE  /\ HardInv' /\ DrainInv' /\ RestInv'
           /\ Draining' <=> Draining
           /\ \A k \in Ids : u \notin SessionUnits(k) => Same(k)
PROOF
  <1>1. st'[Shutdown] = st[Shutdown] /\ job'[Shutdown] = job[Shutdown]
    BY NamedUnits DEF Becomes
  <1>2. Draining' <=> Draining
    BY <1>1 DEF Draining, Starting
  <1>3. HardInv'
    BY <1>2 DEF Becomes, LifecycleInv, HardInv
  <1>4. DrainInv'
    BY <1>1, <1>2 DEF Becomes, LifecycleInv, DrainInv, Starting
  <1>5. RestInv'
    BY <1>1 DEF Becomes, LifecycleInv, RestInv
  <1>6. \A k \in Ids : u \notin SessionUnits(k) => Same(k)
    BY NamedUnits DEF Becomes, Same, SessionUnits
  <1> QED BY <1>2, <1>3, <1>4, <1>5, <1>6

\* A unit that is in one session is in no other.
LEMMA OwnUnits ==
    ASSUME NEW i \in Ids, NEW u \in SessionUnits(i)
    PROVE  /\ u \in Units \ {Shutdown, GsPre}
           /\ \A k \in Ids \ {i} : u \notin SessionUnits(k)
PROOF
  <1>1. \A k \in Ids : \A v \in SessionUnits(k) :
            v[2] = k /\ v[1] \in {"envelope", "pre", "session", "wm", "env"}
    BY DEF SessionUnits, Envelope, Pre, Session, Wm, Env
  <1>2. u \in Units
    BY NamedUnits DEF SessionUnits
  <1> QED BY <1>1, <1>2, Apart

\* The units of no session.
LEMMA SharedUnits ==
    ASSUME NEW u \in Units, u[1] \notin {"envelope", "pre", "session", "wm", "env"}
    PROVE  \A k \in Ids : u \notin SessionUnits(k)
  BY DEF SessionUnits, Envelope, Pre, Session, Wm, Env

\* Every unit of one of these kinds is the one of a session.
LEMMA SessionUnitForm ==
    ASSUME NEW u \in Units, u[1] \in {"envelope", "pre", "session", "wm", "env"}
    PROVE  /\ u[2] \in Ids
           /\ u \in SessionUnits(u[2])
           /\ u[1] = "envelope" => u = Envelope(u[2])
           /\ u[1] = "pre" => u = Pre(u[2])
           /\ u[1] = "session" => u = Session(u[2])
           /\ u[1] = "wm" => u = Wm(u[2])
           /\ u[1] = "env" => u = Env(u[2])
  BY UnitForm DEF PerId, Common, SessionUnits, Envelope, Pre, Session, Wm, Env

-----------------------------------------------------------------------------
(* The three kinds of transactions.                                        *)

\* A unit other than the shutdown target goes and triggers the end of the session;
\* j are the jobs that are left then.
LEMMA TriggerStep ==
    ASSUME LifecycleInv, LifecycleTypeOK', NEW u \in Units \ {Shutdown}, st[u] # "inactive",
           u[1] \in {"env", "pre"} => u[1] = "env" /\ st[u] # "active",
           st' = [st EXCEPT ![u] = "inactive"],
           NEW j \in [Units -> Jobs], j[Shutdown] = job[Shutdown],
           \A v \in Units : j[v] \in {job[v], NoJob},
           \A v \in Units : job[v].type = "stop" /\ v # u => j[v] = job[v],
           NEW us, NEW trigger, us \cap trigger # {}, job' = Triggered(j, us, trigger),
           UNCHANGED <<anchor, stop>>
    PROVE  LifecycleInv'
PROOF
  <1>0. StType /\ JobType /\ StType'
    BY TypeParts DEF LifecycleInv, LifecycleTypeOK, StType
  <1>1. st[Shutdown] = "inactive"
    <2>1. st[Shutdown] \in {"active", "inactive"}
      BY <1>0, NamedUnits DEF StType, Services, Shutdown
    <2> QED BY <2>1 DEF LifecycleInv, RestInv
  <1>2. \A v \in Units \ {Shutdown} : Starting(j[v]) => ~j[v].hard
    BY JobForms DEF LifecycleInv, HardInv, DrainInv
  <1>3. j[Shutdown].type = "stop" => ~j[Shutdown].hard
    BY NamedUnits DEF LifecycleInv, HardInv, Draining, Starting
  <1>4. /\ Starting(job'[Shutdown])
        /\ job'[Shutdown].hard
        /\ \A v \in Units \ {Shutdown} :
              /\ ~Starting(job'[v])
              /\ st[v] # "inactive" \/ Starting(j[v]) => job'[v].type = "stop" /\ job'[v].hard
              /\ j[v].type = "stop" => job'[v].type = "stop"
              /\ st[v] = "inactive" /\ ~Starting(j[v]) => job'[v] = j[v]
    BY <1>1, <1>2, <1>3, TriggerEffect
  <1>5. /\ \A v \in Units \ {u} : st'[v] = st[v]
        /\ st'[u] = "inactive"
    BY <1>0 DEF StType
  <1>6. Draining'
    BY <1>4 DEF Draining, Starting
  <1>7. HardInv'
    <2> SUFFICES ASSUME NEW v \in Units, job'[v].hard
                 PROVE  job'[v].type # "none"
      BY <1>6 DEF HardInv
    <2>1. CASE v = Shutdown
      BY <1>4, <2>1 DEF Starting
    <2>2. CASE v # Shutdown /\ (st[v] # "inactive" \/ Starting(j[v]))
      BY <1>4, <2>2
    <2>3. CASE v # Shutdown /\ ~(st[v] # "inactive" \/ Starting(j[v]))
      BY <1>4, <2>3, JobForms DEF LifecycleInv, HardInv
    <2> QED BY <2>1, <2>2, <2>3
  <1>8. DrainInv'
    BY <1>1, <1>4, <1>5 DEF DrainInv, Starting
  <1>9. RestInv'
    BY <1>1, <1>5 DEF RestInv
  <1>10. ASSUME NEW i \in Ids
         PROVE  SessionInv(i)'
    <2>1. OrderInv(i)
      BY DEF LifecycleInv, SessionInv
    <2>2. OrderInv(i)'
      BY <1>5, <2>1, NamedUnits, Apart DEF OrderInv
    <2>3. CleanupInv(i)'
      BY <1>4, NamedUnits, Apart DEF CleanupInv, Starting
    <2>4. WorkInv(i)'
      BY <1>6 DEF WorkInv
    <2> QED BY <2>2, <2>3, <2>4 DEF SessionInv
  <1>11. ASSUME NEW i \in Ids
         PROVE  /\ Engaged(i)' => Engaged(i)
                /\ Up(Wm(i))' => Up(Wm(i))
                /\ Beginning(i)' <=> Beginning(i)
    <2>1. \A v \in Units \ {Shutdown} :
              (st'[v] # "inactive" \/ job'[v].type # "none") => (st[v] # "inactive" \/ job[v].type # "none")
      BY <1>4, <1>5, JobForms DEF Starting
    <2>2. Engaged(i)' => Engaged(i)
      BY <2>1, OwnUnits DEF Engaged
    <2>3. Up(Wm(i))' => Up(Wm(i))
      BY <1>5, NamedUnits DEF Up
    <2> QED BY <2>2, <2>3 DEF Beginning
  <1>12. AloneInv'
    BY <1>11 DEF LifecycleInv, AloneInv
  <1>13. BeginInv'
    BY <1>6, <1>11 DEF LifecycleInv, BeginInv
  <1>14. StopInv'
    <2> SUFFICES ASSUME NEW i \in Ids, stop = <<i>>
                 PROVE  \/ job'[Wm(i)].type = "stop"
                        \/ st'[Wm(i)] = "inactive" /\ job'[Wm(i)].type = "none"
      BY DEF StopInv
    <2>1. Wm(i) \in Units \ {Shutdown}
      BY NamedUnits, Apart
    <2>2. CASE job[Wm(i)].type = "stop" \/ Wm(i) = u
      BY <1>4, <2>1, <2>2
    <2>3. CASE Wm(i) # u /\ st[Wm(i)] = "inactive" /\ job[Wm(i)].type = "none"
      <3>1. j[Wm(i)].type = "none"
        BY <2>1, <2>3, JobForms
      <3> QED BY <1>4, <1>5, <2>1, <2>3, <3>1 DEF Starting
    <2> QED BY <2>2, <2>3 DEF LifecycleInv, StopInv
  <1> QED BY <1>6, <1>7, <1>8, <1>9, <1>10, <1>12, <1>13, <1>14 DEF LifecycleInv, GsPreInv

\* Outer units of the session are stopped, those of X: because they are told to, or
\* because the environment's or the compositor's process has ended.
LEMMA StopStep ==
    ASSUME LifecycleInv, LifecycleTypeOK', ~Draining,
           NEW X \in SUBSET Outer,
           \A i \in Ids : Envelope(i) \in X => Wm(i) \in X,
           \A i \in Ids : st'[Env(i)] = "deactivating" /\ Starting(job[Wm(i)]) => Wm(i) \in X,
           \A v \in Units : job'[v] =
               IF v \in X /\ (st[v] # "inactive" \/ Starting(job[v])) THEN SoftStop ELSE job[v],
           \A v \in Units : \/ st'[v] = st[v]
                            \/ /\ st[v] # "inactive" /\ st'[v] = "deactivating"
                               /\ v[1] \in {"env", "wm"}
                               /\ v[1] = "env" => st[v] # "active",
           \A i \in Ids : Beginning(i)' => Beginning(i),
           stop' = stop \/ \E i \in Ids : stop' = <<i>> /\ Up(Wm(i)) /\ job'[Wm(i)].type = "stop"
    PROVE  LifecycleInv'
PROOF
  <1>1. \A v \in X : v \in Units /\ v[1] \in OuterKinds
    BY DEF Outer
  <1>2. /\ Shutdown \notin X
        /\ GsPre \notin X
        /\ \A i \in Ids : Pre(i) \notin X /\ Env(i) \notin X
    BY <1>1, Apart DEF OuterKinds
  <1>3. /\ job'[Shutdown] = job[Shutdown] /\ st'[Shutdown] = st[Shutdown]
        /\ job'[GsPre] = job[GsPre] /\ st'[GsPre] = st[GsPre]
        /\ \A i \in Ids : /\ job'[Pre(i)] = job[Pre(i)] /\ st'[Pre(i)] = st[Pre(i)]
                          /\ job'[Env(i)] = job[Env(i)]
                          /\ st'[Envelope(i)] = st[Envelope(i)]
    BY <1>2, Apart, NamedUnits
  <1>4. ~Draining'
    BY <1>3 DEF Draining, Starting
  <1>5. \A v \in Units : /\ job'[v] = job[v] \/ job'[v] = SoftStop
                         /\ st'[v] = "inactive" <=> st[v] = "inactive"
                         /\ Starting(job'[v]) => job'[v] = job[v]
                         /\ job'[v].type # "none" => job[v].type # "none" \/ st[v] # "inactive"
    BY DEF Starting, SoftStop
  <1>6. HardInv'
    BY <1>5 DEF LifecycleInv, HardInv, SoftStop
  <1>7. RestInv'
    BY <1>3, <1>5 DEF LifecycleInv, RestInv
  <1>8. \A i \in Ids : /\ Engaged(i)' => Engaged(i)
                       /\ Alive(i)' <=> Alive(i)
    <2> SUFFICES ASSUME NEW i \in Ids
                 PROVE  (Engaged(i)' => Engaged(i)) /\ (Alive(i)' <=> Alive(i))
      OBVIOUS
    <2>1. Engaged(i)' => Engaged(i)
      BY <1>5, OwnUnits DEF Engaged
    <2>2. Alive(i)' <=> Alive(i)
      BY <1>3 DEF Alive, Starting
    <2> QED BY <2>1, <2>2
  <1>9. ASSUME NEW i \in Ids
        PROVE  SessionInv(i)'
    <2>1. OrderInv(i) /\ CleanupInv(i) /\ WorkInv(i)
      BY DEF LifecycleInv, SessionInv
    <2>2. /\ Wm(i) \in Units /\ Env(i) \in Units /\ Envelope(i) \in Units
          /\ Env(i)[1] = "env" /\ Wm(i)[1] = "wm"
      BY NamedUnits, Apart
    <2>3. OrderInv(i)'
      BY <1>3, <1>5, <2>1, <2>2 DEF OrderInv
    <2>4. Starting(job'[Wm(i)]) => Starting(job[Wm(i)]) /\ Wm(i) \notin X
      BY <1>5, <2>2 DEF Starting, SoftStop
    <2>5. CleanupInv(i)'
      BY <2>1, <2>2, <2>4 DEF CleanupInv
    <2>6. WorkInv(i)'
      <3>1. job'[Pre(i)].type # "stop" /\ job'[Env(i)].type # "stop"
        BY <1>3, <2>1 DEF WorkInv
      <3>2. Engaged(i)' => Alive(i)'
        BY <1>8, <2>1 DEF WorkInv
      <3>3. Alive(i)' => Starting(job'[Env(i)]) \/ st'[Env(i)] = "active"
        <4>1. Alive(i) => Starting(job[Env(i)]) \/ st[Env(i)] = "active"
          BY <2>1 DEF WorkInv
        <4> QED BY <1>3, <1>8, <2>2, <4>1
      <3>4. Starting(job'[Wm(i)]) => \/ Starting(job'[Envelope(i)])
                                     \/ st'[Envelope(i)] = "active" /\ job'[Envelope(i)].type # "stop"
        <4>1. Starting(job'[Wm(i)]) => job'[Envelope(i)] = job[Envelope(i)]
          BY <2>2, <2>4
        <4> QED BY <1>3, <2>1, <2>4, <4>1 DEF WorkInv
      <3>5. st'[Env(i)] # "inactive" => ~Starting(job'[Envelope(i)])
        BY <1>5, <2>1, <2>2 DEF WorkInv
      <3> QED BY <3>1, <3>2, <3>3, <3>4, <3>5 DEF WorkInv, Starting
    <2> QED BY <2>3, <2>5, <2>6 DEF SessionInv, CleanupInv, Starting
  <1>10. GsPreInv'
    BY <1>3, <1>4, <1>8 DEF LifecycleInv, GsPreInv, Starting
  <1>11. AloneInv'
    BY <1>8 DEF LifecycleInv, AloneInv
  <1>12. \A k \in Ids : Up(Wm(k))' => Up(Wm(k))
    BY NamedUnits DEF Up
  <1>13. BeginInv'
    <2>1. ASSUME NEW i \in Ids, Beginning(i)', NEW k \in Ids
          PROVE  /\ Beginning(k)' => k = i
                 /\ ~Up(Wm(k))'
                 /\ ~Engaged(k)'
                 /\ stop' # <<k>>
      <3>1. Beginning(i)
        BY <2>1
      <3>2. \A m \in Ids : (Beginning(m) => m = i) /\ ~Up(Wm(m)) /\ ~Engaged(m) /\ stop # <<m>>
        BY <3>1 DEF LifecycleInv, BeginInv
      <3> QED BY <1>8, <1>12, <2>1, <3>2
    <2> QED BY <2>1 DEF BeginInv
  <1>14. StopInv'
    <2> SUFFICES ASSUME NEW i \in Ids, stop' = <<i>>
                 PROVE  \/ job'[Wm(i)].type = "stop"
                        \/ st'[Wm(i)] = "inactive" /\ job'[Wm(i)].type = "none"
      BY DEF StopInv
    <2>1. CASE stop' # stop
      <3>1. PICK k \in Ids : stop' = <<k>> /\ job'[Wm(k)].type = "stop"
        BY <2>1
      <3> QED BY <3>1
    <2>2. CASE stop' = stop
      <3>1. job[Wm(i)].type = "stop" \/ (st[Wm(i)] = "inactive" /\ job[Wm(i)].type = "none")
        BY <2>2 DEF LifecycleInv, StopInv
      <3> QED BY <1>5, <3>1, NamedUnits DEF SoftStop, Starting
    <2> QED BY <2>1, <2>2
  <1> QED BY <1>4, <1>6, <1>7, <1>9, <1>10, <1>11, <1>13, <1>14 DEF LifecycleInv, DrainInv

\* Jobs of a session that does not drain can be reversed.
LEMMA AllSoft ==
    ASSUME LifecycleInv, ~Draining
    PROVE  /\ job \in [Units -> Jobs] /\ StType
           /\ \A u \in Units : job[u].hard = FALSE
           /\ ~Starting(job[Shutdown])
           /\ st[Shutdown] \in {"active", "inactive"}
PROOF
  <1>1. StType /\ job \in [Units -> Jobs]
    BY TypeParts DEF LifecycleInv, JobType
  <1>2. \A u \in Units : job[u].hard \in BOOLEAN
    BY <1>1 DEF Jobs
  <1>3. \A u \in Units : job[u].hard = FALSE
    BY <1>2 DEF LifecycleInv, HardInv
  <1>4. st[Shutdown] \in {"active", "inactive"}
    BY <1>1, NamedUnits DEF StType, Services, Shutdown
  <1> QED BY <1>1, <1>3, <1>4 DEF Draining

\* The start of a pid's unit or of an application.
LEMMA MinorStart ==
    ASSUME LifecycleInv, LifecycleTypeOK', NEW u \in Units, u[1] \in {"bindpid", "apps"},
           ~StartRefused(job, u, "replace"), job' = Started(job, u, "replace"),
           UNCHANGED <<st, anchor, stop>>
    PROVE  LifecycleInv'
PROOF
  <1>1. u \in Units \ {Shutdown} /\ u # GsPre
    BY Apart
  <1>2. ~Draining
    BY <1>1, StartRefusedDraining DEF LifecycleInv
  <1>3. StartWith[u] = {u}
    BY StartSets
  <1>4. ASSUME NEW v \in Units
        PROVE  job'[v] = IF v = u /\ (st[v] # "active" \/ job[v].type = "stop")
                         THEN IF Starting(job[v]) THEN job[v] ELSE SoftStart
                         ELSE IF v = Shutdown /\ st[v] = "active" THEN SoftStop
                         ELSE job[v]
    <2>1. job'[v] = IF v \in StartWith[u] /\ (st[v] # "active" \/ job[v].type = "stop")
                    THEN IF Starting(job[v]) THEN job[v] ELSE SoftStart
                    ELSE IF v = Shutdown /\ st[v] = "active" THEN SoftStop
                    ELSE job[v]
      BY <1>1, <1>2, AllSoft, StartedEffect
    <2> QED BY <1>3, <2>1
  <1>5. /\ \A v \in Units \ {u, Shutdown} : job'[v] = job[v]
        /\ job'[u] \in {job[u], SoftStart}
        /\ job'[Shutdown] = IF st[Shutdown] = "active" THEN SoftStop ELSE job[Shutdown]
    BY <1>1, <1>4, NamedUnits
  <1>6. ~Draining'
    BY <1>2, <1>5 DEF Draining, Starting, SoftStop
  <1>7. \A k \in Ids : Same(k)
    <2> SUFFICES ASSUME NEW k \in Ids, NEW v \in SessionUnits(k)
                 PROVE  job'[v] = job[v]
      BY DEF Same
    <2>1. v \in Units \ {Shutdown} /\ v # u
      BY OwnUnits, SharedUnits
    <2> QED BY <1>5, <2>1
  <1>8. (\A k \in Ids : SessionInv(k)' /\ (Alive(k)' <=> Alive(k))) /\ AloneInv' /\ StopInv' /\ BeginInv'
    BY <1>2, <1>6, <1>7, QuietStep
  <1>9. HardInv'
    <2>1. \A v \in Units : job'[v] \in {job[v], SoftStart, SoftStop}
      BY <1>5
    <2> QED BY <1>2, <2>1 DEF LifecycleInv, HardInv, SoftStart, SoftStop
  <1>10. RestInv'
    BY <1>5, NamedUnits DEF LifecycleInv, RestInv, SoftStop
  <1>11. GsPreInv'
    <2>1. job'[GsPre] = job[GsPre]
      BY <1>1, <1>5, NamedUnits, Apart
    <2> QED BY <1>2, <1>8, <2>1 DEF LifecycleInv, GsPreInv, Starting
  <1> QED BY <1>6, <1>8, <1>9, <1>10, <1>11 DEF LifecycleInv, DrainInv

\* The start of an envelope by the anchor that has checked.
LEMMA SessionStart ==
    ASSUME LifecycleInv, LifecycleTypeOK', NEW i \in Ids, Beginning(i), ~Beginning(i)',
           \A k \in Ids \ {i} : Beginning(k)' => Beginning(k),
           ~StartRefused(job, Envelope(i), "replace"), job' = Started(job, Envelope(i), "replace"),
           UNCHANGED <<st, stop>>
    PROVE  LifecycleInv'
PROOF
  <1>1. Envelope(i) \in Units \ {Shutdown}
    BY NamedUnits, Apart
  <1>2. ~Draining
    BY <1>1, StartRefusedDraining DEF LifecycleInv
  <1>3. \A k \in Ids : (Beginning(k) => k = i) /\ ~Engaged(k) /\ stop # <<k>>
    BY <1>2 DEF LifecycleInv, BeginInv
  <1>4. \A k \in Ids : \A v \in SessionUnits(k) : st[v] = "inactive" /\ job[v].type = "none"
    BY <1>3 DEF Engaged
  <1>5. ASSUME NEW v \in Units
        PROVE  job'[v] = IF v \in StartWith[Envelope(i)] /\ (st[v] # "active" \/ job[v].type = "stop")
                         THEN IF Starting(job[v]) THEN job[v] ELSE SoftStart
                         ELSE IF v = Shutdown /\ st[v] = "active" THEN SoftStop
                         ELSE job[v]
    BY <1>1, <1>2, AllSoft, StartedEffect
  <1>6. Shutdown \notin StartWith[Envelope(i)]
    BY <1>1, ShutdownApart
  <1>7. job'[Shutdown] = IF st[Shutdown] = "active" THEN SoftStop ELSE job[Shutdown]
    BY <1>5, <1>6, NamedUnits
  <1>8. \A v \in Units \ {Shutdown} : job'[v] \in {job[v], SoftStart}
    BY <1>5
  <1>9. ~Draining'
    BY <1>2, <1>7 DEF Draining, Starting, SoftStop
  <1>10. HardInv'
    <2>1. \A v \in Units : job'[v] \in {job[v], SoftStart, SoftStop}
      BY <1>5
    <2> QED BY <1>2, <2>1 DEF LifecycleInv, HardInv, SoftStart, SoftStop
  <1>11. RestInv'
    BY <1>7 DEF LifecycleInv, RestInv, SoftStop
  <1>12. ASSUME NEW k \in Ids \ {i}
         PROVE  Same(k)
    <2> SUFFICES ASSUME NEW v \in SessionUnits(k)
                 PROVE  job'[v] = job[v]
      BY DEF Same
    <2>1. v \in Units \ {Shutdown} /\ v \notin SessionUnits(i)
      BY OwnUnits
    <2>2. v[1] \in {"envelope", "pre", "session", "wm", "env"}
      BY DEF SessionUnits, Envelope, Pre, Session, Wm, Env
    <2>3. v \notin StartWith[Envelope(i)]
      BY <2>1, <2>2, StartSets, Apart
    <2> QED BY <1>5, <2>1, <2>3
  <1>13. \A k \in Ids \ {i} : SessionInv(k)' /\ ~Engaged(k)'
    BY <1>2, <1>3, <1>9, <1>12, SessionFrame DEF LifecycleInv
  <1>14. \A v \in {Envelope(i), Env(i), Pre(i)} : job'[v] = SoftStart
    <2> SUFFICES ASSUME NEW v \in {Envelope(i), Env(i), Pre(i)}
                 PROVE  job'[v] = SoftStart
      OBVIOUS
    <2>1. v \in SessionUnits(i) /\ v \in Units /\ v \in StartWith[Envelope(i)]
      BY NamedUnits, StartSets DEF SessionUnits
    <2>2. st[v] = "inactive" /\ job[v].type = "none"
      BY <1>4, <2>1
    <2> QED BY <1>5, <2>1, <2>2 DEF Starting
  <1>15. /\ st'[Pre(i)] = "inactive" /\ st'[Env(i)] = "inactive" /\ st'[Wm(i)] = "inactive"
         /\ st'[Envelope(i)] = "inactive"
    BY <1>4 DEF SessionUnits
  <1>16. Alive(i)'
    BY <1>14 DEF Alive, Starting, SoftStart
  <1>17. SessionInv(i)'
    <2>1. OrderInv(i)' /\ CleanupInv(i)'
      BY <1>15 DEF OrderInv, CleanupInv
    <2>2. WorkInv(i)'
      BY <1>14, <1>15, <1>16 DEF WorkInv, Starting, SoftStart
    <2> QED BY <2>1, <2>2 DEF SessionInv
  <1>18. AloneInv'
    BY <1>13 DEF AloneInv
  <1>19. BeginInv'
    BY <1>3 DEF BeginInv
  <1>20. StopInv'
    BY <1>3 DEF StopInv
  <1>21. GsPreInv'
    BY <1>16 DEF GsPreInv
  <1> QED BY <1>9, <1>10, <1>11, <1>13, <1>17, <1>18, <1>19, <1>20, <1>21 DEF LifecycleInv, DrainInv

-----------------------------------------------------------------------------
(* The steps, one lemma per action or group of actions.                    *)

\* What a job that runs did not have to wait for.
LEMMA RunFacts ==
    ASSUME NEW u \in Units, Run(u)
    PROVE  /\ job[u].type # "none"
           /\ \A v \in IsBefore[u] : job[v].type # "stop"
           /\ Starting(job[u]) => \A v \in IsAfter[u] : job[v].type = "none"
  BY DEF Run, WaitsFor

\* Nothing starts while the session drains or the shutdown target is there.
LEMMA StartRuns ==
    ASSUME LifecycleInv, NEW u \in Units \ {Shutdown}, Run(u), Starting(job[u])
    PROVE  ~Draining /\ st[Shutdown] # "active"
PROOF
  <1>1. ~Draining
    BY DEF LifecycleInv, DrainInv
  <1>2. job[Shutdown].type # "stop"
    BY RunFacts, Order
  <1>3. job[u].type # "none"
    BY DEF Starting
  <1> QED BY <1>1, <1>2, <1>3 DEF LifecycleInv, RestInv

\* A step of one unit, spelled out.
LEMMA SetBecomes ==
    ASSUME StType, JobType, NEW u \in Units, NEW x, NEW b,
           st' = [st EXCEPT ![u] = x], job' = [job EXCEPT ![u] = b]
    PROVE  Becomes(u, x, b)
  BY DEF StType, JobType, Becomes

\* The shutdown target arrives or goes.
LEMMA ShutdownRuns ==
    ASSUME LifecycleInv, LifecycleTypeOK', RunTarget(Shutdown)
    PROVE  LifecycleInv'
PROOF
  <1>0. StType /\ JobType
    BY TypeParts DEF LifecycleInv
  <1>1. Becomes(Shutdown, IF Starting(job[Shutdown]) THEN "active" ELSE "inactive", NoJob)
    BY <1>0, SetBecomes, NamedUnits DEF RunTarget, Set, Done
  <1>2. ~Draining'
    BY <1>1, JobForms DEF Becomes, Draining, Starting
  <1>3. UNCHANGED <<anchor, stop>>
    BY DEF RunTarget
  <1>4. CASE Draining
    <2>1. \A u \in Units \ {Shutdown} : job[u].type = "none"
      <3> SUFFICES ASSUME NEW u \in Units \ {Shutdown}
                   PROVE  job[u].type = "none"
        OBVIOUS
      <3>1. Run(Shutdown) /\ Starting(job[Shutdown])
        BY <1>4 DEF RunTarget, Draining
      <3>2. job[u].type = "none" \/ job[u].type # "stop"
        BY <3>1, RunFacts, Order, NamedUnits
      <3>3. ~Starting(job[u])
        BY <1>4 DEF LifecycleInv, DrainInv
      <3>4. job[u] \in Jobs
        BY <1>0 DEF JobType
      <3>5. u \in IsAfter[Shutdown] => job[u].type = "none"
        BY <3>1, RunFacts, NamedUnits
      <3>6. u \in IsBefore[Shutdown] => job[u].type # "stop"
        BY <3>1, RunFacts, NamedUnits
      <3> QED BY <3>3, <3>4, <3>5, <3>6, Order DEF Starting, Jobs
    <2>2. \A u \in Units \ {Shutdown} : st[u] = "inactive"
      BY <1>4, <2>1 DEF LifecycleInv, DrainInv
    <2>3. \A u \in Units \ {Shutdown} : st'[u] = "inactive" /\ job'[u].type = "none" /\ job'[u] = job[u]
      BY <1>1, <2>1, <2>2 DEF Becomes
    <2>4. HardInv'
      BY <1>1, <2>3, JobForms DEF LifecycleInv, HardInv, Becomes
    <2>5. RestInv'
      BY <2>3 DEF RestInv
    <2>6. \A i \in Ids : ~Engaged(i)' /\ ~Alive(i)' /\ ~Up(Wm(i))'
      <3> SUFFICES ASSUME NEW i \in Ids
                   PROVE  ~Engaged(i)' /\ ~Alive(i)' /\ ~Up(Wm(i))'
        OBVIOUS
      <3>1. ~Engaged(i)'
        BY <2>3, OwnUnits DEF Engaged
      <3>2. st'[Pre(i)] = "inactive" /\ job'[Pre(i)].type = "none" /\ st'[Wm(i)] = "inactive"
        BY <2>3, NamedUnits, Apart
      <3> QED BY <3>1, <3>2 DEF Alive, Up, Starting
    <2>7. ASSUME NEW i \in Ids
          PROVE  SessionInv(i)'
      <3>1. \A u \in {Pre(i), Env(i), Wm(i), Envelope(i)} : st'[u] = "inactive" /\ job'[u].type = "none"
        BY <2>3, NamedUnits, Apart
      <3>2. OrderInv(i)' /\ CleanupInv(i)'
        BY <3>1 DEF OrderInv, CleanupInv
      <3>3. WorkInv(i)'
        BY <2>6, <3>1 DEF WorkInv, Starting
      <3> QED BY <3>2, <3>3 DEF SessionInv
    <2>8. st'[GsPre] = "inactive" /\ job'[GsPre].type = "none"
      BY <2>3, NamedUnits, Apart
    <2>9. GsPreInv'
      BY <2>8 DEF GsPreInv, Starting
    <2>10. AloneInv'
      BY <2>6 DEF AloneInv
    <2>11. \A i \in Ids : Beginning(i)' <=> Beginning(i)
      BY <1>3 DEF Beginning
    <2>12. BeginInv'
      BY <1>3, <2>6, <2>11 DEF LifecycleInv, BeginInv
    <2>13. StopInv'
      BY <2>3, NamedUnits, Apart DEF StopInv
    <2> QED BY <1>2, <2>4, <2>5, <2>7, <2>9, <2>10, <2>12, <2>13 DEF LifecycleInv, DrainInv
  <1>5. CASE ~Draining
    <2>1. st'[Shutdown] = "inactive"
      BY <1>1, <1>5 DEF Becomes, Draining
    <2>2. \A k \in Ids : Same(k)
      BY <1>1, OwnUnits DEF Becomes, Same
    <2>3. (\A k \in Ids : SessionInv(k)' /\ (Alive(k)' <=> Alive(k))) /\ AloneInv' /\ StopInv' /\ BeginInv'
      BY <1>2, <1>3, <1>5, <2>2, QuietStep
    <2>4. HardInv'
      BY <1>1, <1>5, JobForms DEF LifecycleInv, HardInv, Becomes
    <2>5. job'[GsPre] = job[GsPre] /\ st'[GsPre] = st[GsPre]
      BY <1>1, NamedUnits, Apart DEF Becomes
    <2>6. GsPreInv'
      BY <1>5, <2>3, <2>5 DEF LifecycleInv, GsPreInv, Starting
    <2> QED BY <1>2, <2>1, <2>3, <2>4, <2>6 DEF LifecycleInv, DrainInv, RestInv
  <1> QED BY <1>4, <1>5

\* A unit of no session changes.
LEMMA SharedStep ==
    ASSUME LifecycleInv, LifecycleTypeOK', NEW u \in Units \ {Shutdown},
           u[1] \notin {"envelope", "pre", "session", "wm", "env"},
           NEW x, NEW b, Becomes(u, x, b),
           b.hard => job[u].hard /\ b.type # "none",
           Draining => ~Starting(b) /\ (x # "inactive" => b.type = "stop" /\ b.hard),
           st[Shutdown] = "active" => x = "inactive" /\ (b.type = "none" \/ job[Shutdown].type = "stop"),
           u = GsPre /\ ~Draining /\ (x = "active" \/ Starting(b)) => st[u] = "active" \/ Starting(job[u]),
           UNCHANGED <<anchor, stop>>
    PROVE  LifecycleInv'
PROOF
  <1>1. HardInv' /\ DrainInv' /\ RestInv' /\ (Draining' <=> Draining) /\ \A k \in Ids : Same(k)
    BY OneUnitStep, SharedUnits
  <1>2. (\A k \in Ids : SessionInv(k)' /\ (Alive(k)' <=> Alive(k))) /\ AloneInv' /\ StopInv' /\ BeginInv'
    BY <1>1, QuietStep
  <1>3. CASE u = GsPre
    BY <1>1, <1>2, <1>3 DEF LifecycleInv, GsPreInv, Becomes, Starting
  <1>4. CASE u # GsPre
    <2>1. job'[GsPre] = job[GsPre] /\ st'[GsPre] = st[GsPre]
      BY <1>4, NamedUnits DEF Becomes
    <2>2. GsPreInv'
      BY <1>1, <1>2, <2>1 DEF LifecycleInv, GsPreInv, Starting
    <2> QED BY <1>1, <1>2, <2>2 DEF LifecycleInv
  <1> QED BY <1>3, <1>4

\* A unit of i's session changes.
LEMMA OwnStep ==
    ASSUME LifecycleInv, LifecycleTypeOK', NEW i \in Ids, NEW u \in SessionUnits(i),
           NEW x, NEW b, Becomes(u, x, b),
           b.hard => job[u].hard /\ b.type # "none",
           Draining => ~Starting(b) /\ (x # "inactive" => b.type = "stop" /\ b.hard),
           st[Shutdown] # "active" \/ (x = "inactive" /\ b.type = "none"),
           st[u] # "inactive" \/ job[u].type # "none",
           SessionInv(i)', ~Draining /\ Alive(i) => Alive(i)',
           Up(Wm(i))' => Up(Wm(i)) \/ ~Draining,
           stop = <<i>> => \/ job'[Wm(i)].type = "stop"
                           \/ st'[Wm(i)] = "inactive" /\ job'[Wm(i)].type = "none",
           UNCHANGED <<anchor, stop>>
    PROVE  LifecycleInv'
PROOF
  <1>1. u \in Units \ {Shutdown, GsPre} /\ \A k \in Ids \ {i} : u \notin SessionUnits(k)
    BY OwnUnits
  <1>2. HardInv' /\ DrainInv' /\ RestInv' /\ (Draining' <=> Draining) /\ \A k \in Ids \ {i} : Same(k)
    BY <1>1, OneUnitStep
  <1>3. Engaged(i)
    BY DEF Engaged
  <1>4. /\ \A k \in Ids : SessionInv(k)'
        /\ AloneInv' /\ BeginInv' /\ StopInv'
        /\ ~Draining /\ (\E k \in Ids : Alive(k)) => (\E k \in Ids : Alive(k)')
    BY <1>2, <1>3, OneSessionStep
  <1>5. job'[GsPre] = job[GsPre] /\ st'[GsPre] = st[GsPre]
    BY <1>1, NamedUnits DEF Becomes
  <1>6. GsPreInv'
    BY <1>2, <1>4, <1>5 DEF LifecycleInv, GsPreInv, Starting
  <1> QED BY <1>2, <1>4, <1>6 DEF LifecycleInv

\* A target of a session arrives or goes.
LEMMA TargetRuns ==
    ASSUME LifecycleInv, LifecycleTypeOK', NEW u \in Units \ {Shutdown}, RunTarget(u)
    PROVE  LifecycleInv'
PROOF
  <1> DEFINE x == IF Starting(job[u]) THEN "active" ELSE "inactive"
  <1>0. StType /\ JobType
    BY TypeParts DEF LifecycleInv
  <1>1. Becomes(u, x, NoJob)
    BY <1>0, SetBecomes DEF RunTarget, Set, Done
  <1>2. /\ UNCHANGED <<anchor, stop>>
        /\ Run(u)
        /\ u[1] \notin {"env", "wm"}
    BY NamedServices DEF RunTarget
  <1>3. Starting(job[u]) => ~Draining /\ st[Shutdown] # "active"
    BY <1>2, StartRuns
  <1>4. NoJob.type = "none" /\ ~NoJob.hard /\ ~Starting(NoJob)
    BY JobForms DEF Starting
  <1>5. job[u].type # "none" /\ (Starting(job[u]) \/ job[u].type = "stop")
    <2>1. job[u] \in Jobs
      BY <1>0 DEF JobType
    <2> QED BY <1>2, <2>1 DEF Run, Starting, Jobs
  <1>6. x = "inactive" \/ Starting(job[u])
    OBVIOUS
  <1>7. Starting(job[u]) => x = "active"
    OBVIOUS
  <1>8. x = "active" => Starting(job[u])
    OBVIOUS
  <1> HIDE DEF x
  <1>9. CASE u[1] \notin {"envelope", "pre", "session", "wm", "env"}
    BY <1>1, <1>2, <1>3, <1>4, <1>6, <1>8, <1>9, SharedStep
  <1>10. CASE u[1] \in {"envelope", "pre", "session"}
    <2> DEFINE i == u[2]
    <2>1. i \in Ids /\ u \in SessionUnits(i)
      BY <1>10, SessionUnitForm
    <2>2. /\ u[1] = "envelope" => u = Envelope(i)
          /\ u[1] = "pre" => u = Pre(i)
      BY <1>10, SessionUnitForm
    <2> HIDE DEF i
    <2>3. /\ Wm(i) # u /\ Env(i) # u
          /\ u[1] = "envelope" => Pre(i) # u
          /\ u[1] = "pre" => Envelope(i) # u
          /\ u[1] = "session" => Pre(i) # u /\ Envelope(i) # u
      BY <1>10, <2>1, Apart
    <2>4. /\ job'[Wm(i)] = job[Wm(i)] /\ st'[Wm(i)] = st[Wm(i)]
          /\ job'[Env(i)] = job[Env(i)] /\ st'[Env(i)] = st[Env(i)]
          /\ u[1] # "pre" => job'[Pre(i)] = job[Pre(i)] /\ st'[Pre(i)] = st[Pre(i)]
          /\ u[1] # "envelope" => job'[Envelope(i)] = job[Envelope(i)] /\ st'[Envelope(i)] = st[Envelope(i)]
      BY <1>1, <1>10, <2>1, <2>3, NamedUnits DEF Becomes
    <2>5. OrderInv(i) /\ CleanupInv(i) /\ WorkInv(i)
      BY <2>1 DEF LifecycleInv, SessionInv
    <2>6. Engaged(i)
      BY <1>5, <2>1 DEF Engaged
    <2>7. job'[Shutdown] = job[Shutdown]
      BY <1>1, NamedUnits DEF Becomes
    <2>8. Draining' <=> Draining
      BY <2>7 DEF Draining, Starting
    <2>9. ~Draining => Alive(i)
      BY <2>5, <2>6 DEF WorkInv
    <2>10. u[1] = "pre" => (Starting(job[u]) => st[Env(i)] = "active" /\ job[Env(i)].type = "none")
      <3>1. ASSUME u = Pre(i), Starting(job[u])
            PROVE  st[Env(i)] = "active" /\ job[Env(i)].type = "none"
        <4>1. job[Env(i)].type = "none"
          BY <1>2, <2>1, <3>1, RunFacts, Order
        <4>2. Starting(job[Env(i)]) \/ st[Env(i)] = "active"
          BY <1>3, <2>5, <2>9, <3>1 DEF WorkInv
        <4> QED BY <4>1, <4>2 DEF Starting
      <3> QED BY <2>2, <3>1
    <2>11. u[1] = "pre" /\ ~Starting(job[u]) => Draining /\ st[Wm(i)] = "inactive"
      <3>1. ASSUME u = Pre(i), ~Starting(job[u])
            PROVE  Draining /\ st[Wm(i)] = "inactive"
        <4>1. Draining
          BY <1>5, <2>5, <3>1 DEF WorkInv
        <4>2. job[Wm(i)].type # "stop"
          BY <1>2, <2>1, <3>1, RunFacts, Order
        <4>3. Wm(i) \in Units \ {Shutdown}
          BY <2>1, NamedUnits, Apart
        <4> QED BY <4>1, <4>2, <4>3 DEF LifecycleInv, DrainInv
      <3> QED BY <2>2, <3>1
    <2>12. ~Draining => Alive(i)'
      <3>1. CASE u[1] = "pre"
        BY <1>1, <1>7, <2>2, <2>11, <3>1 DEF Alive, Becomes
      <3>2. CASE u[1] # "pre"
        BY <2>4, <2>9, <3>2 DEF Alive, Starting
      <3> QED BY <3>1, <3>2
    <2>13. OrderInv(i)'
      <3>1. CASE u[1] = "pre"
        BY <1>1, <1>8, <2>2, <2>4, <2>5, <2>10, <2>11, <3>1, <1>7 DEF OrderInv, Becomes
      <3>2. CASE u[1] # "pre"
        BY <2>4, <2>5, <3>2 DEF OrderInv
      <3> QED BY <3>1, <3>2
    <2>14. CleanupInv(i)'
      BY <2>4, <2>5 DEF CleanupInv, Starting
    <2>15. WorkInv(i)'
      <3> SUFFICES ASSUME ~Draining
                   PROVE  WorkInv(i)'
        BY <2>8 DEF WorkInv
      <3>1. /\ job[Pre(i)].type # "stop" /\ job[Env(i)].type # "stop"
            /\ Starting(job[Env(i)]) \/ st[Env(i)] = "active"
            /\ Starting(job[Wm(i)]) =>
                   \/ Starting(job[Envelope(i)])
                   \/ st[Envelope(i)] = "active" /\ job[Envelope(i)].type # "stop"
            /\ st[Env(i)] # "inactive" => ~Starting(job[Envelope(i)])
        BY <2>5, <2>9 DEF WorkInv
      <3>2. job'[Pre(i)].type # "stop"
        BY <1>1, <1>4, <2>2, <2>4, <3>1 DEF Becomes
      <3>3. /\ Starting(job'[Wm(i)]) =>
                   \/ Starting(job'[Envelope(i)])
                   \/ st'[Envelope(i)] = "active" /\ job'[Envelope(i)].type # "stop"
            /\ st'[Env(i)] # "inactive" => ~Starting(job'[Envelope(i)])
        <4>1. CASE u[1] = "envelope"
          <5>1. st'[Envelope(i)] = x /\ job'[Envelope(i)] = NoJob
            BY <1>1, <2>2, <4>1 DEF Becomes
          <5>2. Starting(job[Wm(i)]) => x = "active"
            <6>1. CASE Starting(job[Envelope(i)])
              BY <1>7, <2>2, <4>1, <6>1
            <6>2. CASE job[Envelope(i)].type = "stop"
              BY <3>1, <6>2 DEF Starting
            <6> QED BY <1>5, <2>2, <4>1, <6>1, <6>2
          <5> QED BY <1>4, <2>4, <5>1, <5>2
        <4>2. CASE u[1] # "envelope"
          BY <2>4, <3>1, <4>2
        <4> QED BY <4>1, <4>2
      <3> QED BY <2>4, <2>12, <3>1, <3>2, <3>3 DEF WorkInv, Starting
    <2>16. SessionInv(i)'
      BY <2>13, <2>14, <2>15 DEF SessionInv
    <2>17. Up(Wm(i))' => Up(Wm(i))
      BY <2>4 DEF Up
    <2>18. stop = <<i>> => \/ job'[Wm(i)].type = "stop"
                           \/ st'[Wm(i)] = "inactive" /\ job'[Wm(i)].type = "none"
      BY <2>1, <2>4 DEF LifecycleInv, StopInv
    <2> QED BY <1>1, <1>2, <1>3, <1>4, <1>5, <1>6, <2>1, <2>12, <2>16, <2>17, <2>18, OwnStep
  <1> QED BY <1>2, <1>9, <1>10

\* prepare-env begins, and may have bound the session to the login's leader.
LEMMA EnvRuns ==
    ASSUME LifecycleInv, LifecycleTypeOK', NEW i \in Ids, RunService(Env(i)), st[Env(i)] = "inactive"
    PROVE  LifecycleInv'
PROOF
  <1> DEFINE u == Env(i)
             j == [job EXCEPT ![u].type = "starting"]
  <1>1. u \in Units \ {Shutdown} /\ u \in SessionUnits(i)
    BY NamedUnits, Apart DEF SessionUnits
  <1>2. /\ Run(u) /\ Starting(job[u])
        /\ st' = [st EXCEPT ![u] = "activating"]
        /\ job' \in ensure_bindpid(j, i)
        /\ UNCHANGED <<anchor, stop>>
    BY Apart DEF RunService, Set
  <1> HIDE DEF j
  <1>3. ~Draining /\ st[Shutdown] # "active"
    BY <1>1, <1>2, StartRuns
  <1>4. /\ StType /\ job \in [Units -> Jobs]
        /\ \A v \in Units : job[v].hard = FALSE
        /\ st[Shutdown] = "inactive"
        /\ ~Starting(job[Shutdown])
    BY <1>3, AllSoft
  <1>5. /\ j \in [Units -> Jobs]
        /\ j[u].type = "starting" /\ j[u].hard = FALSE
        /\ \A v \in Units \ {u} : j[v] = job[v]
    BY <1>1, <1>4, StartingType DEF j
  <1>6. /\ job'[u].type = "starting" /\ job'[u].hard = FALSE
        /\ \A v \in Units \ {u} : job'[v] = job[v] \/ (v[1] = "bindpid" /\ job'[v] = SoftStart)
    <2>1. CASE job' = j
      BY <1>5, <2>1
    <2>2. CASE job' = Started(j, BindPid(i), "replace")
      <3>1. BindPid(i) \in Units \ {Shutdown} /\ BindPid(i)[1] = "bindpid" /\ BindPid(i) # u
        BY NamedUnits, Apart
      <3>2. StartWith[BindPid(i)] = {BindPid(i)}
        BY <3>1, StartSets
      <3>3. \A v \in Units : j[v].hard = FALSE
        BY <1>4, <1>5
      <3>4. ~Starting(j[Shutdown])
        BY <1>1, <1>4, <1>5, NamedUnits
      <3>5. ASSUME NEW v \in Units
            PROVE  job'[v] = IF v \in StartWith[BindPid(i)] /\ (st[v] # "active" \/ j[v].type = "stop")
                             THEN IF Starting(j[v]) THEN j[v] ELSE SoftStart
                             ELSE IF v = Shutdown /\ st[v] = "active" THEN SoftStop
                             ELSE j[v]
        BY <1>4, <1>5, <2>2, <3>1, <3>3, <3>4, StartedEffect
      <3>6. \A v \in Units \ {BindPid(i)} : job'[v] = j[v]
        BY <1>4, <3>2, <3>5
      <3>7. job'[BindPid(i)] \in {j[BindPid(i)], SoftStart}
        BY <3>1, <3>5
      <3> QED BY <1>1, <1>5, <3>1, <3>6, <3>7
    <2> QED BY <1>2, <2>1, <2>2 DEF ensure_bindpid
  <1>7. st'[u] = "activating" /\ \A v \in Units \ {u} : st'[v] = st[v]
    BY <1>1, <1>2, <1>4 DEF StType
  <1>8. \A v \in Units \ {u} : v[1] # "bindpid" => job'[v] = job[v]
    BY <1>6
  <1>9. /\ job'[Shutdown] = job[Shutdown] /\ st'[Shutdown] = st[Shutdown]
        /\ job'[GsPre] = job[GsPre] /\ st'[GsPre] = st[GsPre]
        /\ job'[Pre(i)] = job[Pre(i)] /\ st'[Pre(i)] = st[Pre(i)]
        /\ job'[Wm(i)] = job[Wm(i)] /\ st'[Wm(i)] = st[Wm(i)]
        /\ job'[Envelope(i)] = job[Envelope(i)] /\ st'[Envelope(i)] = st[Envelope(i)]
    BY <1>7, <1>8, NamedUnits, Apart
  <1>10. ~Draining'
    BY <1>3, <1>9 DEF Draining, Starting
  <1>11. HardInv'
    <2>1. \A v \in Units : ~job'[v].hard
      BY <1>4, <1>6 DEF SoftStart
    <2> QED BY <2>1 DEF HardInv
  <1>12. RestInv' /\ DrainInv'
    BY <1>3, <1>9, <1>10 DEF RestInv, DrainInv
  <1>13. \A k \in Ids \ {i} : Same(k)
    <2> SUFFICES ASSUME NEW k \in Ids \ {i}, NEW v \in SessionUnits(k)
                 PROVE  st'[v] = st[v] /\ job'[v] = job[v]
      BY DEF Same
    <2>1. v \in Units /\ v # u /\ v[1] # "bindpid"
      BY <1>1, OwnUnits, SharedUnits
    <2> QED BY <1>7, <1>8, <2>1
  <1>14. OrderInv(i) /\ CleanupInv(i) /\ WorkInv(i)
    BY DEF LifecycleInv, SessionInv
  <1>15. Engaged(i) /\ Alive(i)
    <2>1. Engaged(i)
      BY <1>1, <1>2 DEF Engaged, Starting
    <2> QED BY <1>3, <1>14, <2>1 DEF WorkInv
  <1>16. Alive(i)'
    BY <1>9, <1>15 DEF Alive, Starting
  <1>17. job[Envelope(i)].type = "none"
    BY <1>1, <1>2, RunFacts, Order
  <1>18. SessionInv(i)'
    <2>1. OrderInv(i)'
      BY <1>7, <1>9, <1>14 DEF OrderInv
    <2>2. CleanupInv(i)'
      BY <1>7 DEF CleanupInv
    <2>3. WorkInv(i)'
      BY <1>3, <1>6, <1>9, <1>14, <1>16, <1>17 DEF WorkInv, Starting
    <2> QED BY <2>1, <2>2, <2>3 DEF SessionInv
  <1>19. Up(Wm(i))' => Up(Wm(i))
    BY <1>9 DEF Up
  <1>20. stop = <<i>> => \/ job'[Wm(i)].type = "stop"
                         \/ st'[Wm(i)] = "inactive" /\ job'[Wm(i)].type = "none"
    BY <1>9 DEF LifecycleInv, StopInv
  <1>21. /\ \A k \in Ids : SessionInv(k)'
         /\ AloneInv' /\ BeginInv' /\ StopInv'
    BY <1>2, <1>3, <1>10, <1>13, <1>15, <1>16, <1>18, <1>19, <1>20, OneSessionStep
  <1>22. GsPreInv'
    BY <1>16 DEF GsPreInv
  <1> QED BY <1>11, <1>12, <1>21, <1>22 DEF LifecycleInv

\* The compositor's unit and the environment's: the other units of the session
\* stay as they are.
LEMMA MainStep ==
    ASSUME LifecycleInv, LifecycleTypeOK', NEW i \in Ids, NEW u \in {Env(i), Wm(i)},
           NEW x, NEW b, Becomes(u, x, b),
           b.hard => job[u].hard /\ b.type # "none",
           Draining => ~Starting(b) /\ (x # "inactive" => b.type = "stop" /\ b.hard),
           st[Shutdown] # "active" \/ (x = "inactive" /\ b.type = "none"),
           st[u] # "inactive" \/ job[u].type # "none",
           u = Env(i) =>
               /\ st[Pre(i)] = "active" => x = "active"
               /\ x = "deactivating" => Draining
               /\ ~Draining => Starting(b) \/ x = "active"
               /\ ~Draining => b.type # "stop"
               /\ x # "inactive" /\ ~Draining =>
                      job[Envelope(i)].type # "start" /\ job[Envelope(i)].type # "starting",
           u = Wm(i) =>
               /\ x # "inactive" => st[Pre(i)] = "active"
               /\ Starting(b) => Starting(job[u])
               /\ x \in {"active", "activating"} => Up(u) \/ ~Draining
               /\ \/ job[u].type # "stop" /\ (st[u] # "inactive" \/ job[u].type # "none")
                  \/ b.type = "stop"
                  \/ x = "inactive" /\ b.type = "none",
           UNCHANGED <<anchor, stop>>
    PROVE  LifecycleInv'
PROOF
  <1>1. u \in SessionUnits(i) /\ u \in Units \ {Shutdown}
    BY NamedUnits, Apart DEF SessionUnits
  <1>2. /\ job'[Pre(i)] = job[Pre(i)] /\ st'[Pre(i)] = st[Pre(i)]
        /\ job'[Envelope(i)] = job[Envelope(i)] /\ st'[Envelope(i)] = st[Envelope(i)]
        /\ job'[Shutdown] = job[Shutdown]
    BY NamedUnits, Apart DEF Becomes
  <1>3. /\ u = Env(i) => /\ job'[Wm(i)] = job[Wm(i)] /\ st'[Wm(i)] = st[Wm(i)]
                         /\ job'[Env(i)] = b /\ st'[Env(i)] = x
        /\ u = Wm(i) => /\ job'[Env(i)] = job[Env(i)] /\ st'[Env(i)] = st[Env(i)]
                        /\ job'[Wm(i)] = b /\ st'[Wm(i)] = x
    BY NamedUnits, Apart DEF Becomes
  <1>4. Draining' <=> Draining
    BY <1>2 DEF Draining, Starting
  <1>5. Alive(i)' <=> Alive(i)
    BY <1>2 DEF Alive, Starting
  <1>6. OrderInv(i) /\ CleanupInv(i) /\ WorkInv(i)
    BY DEF LifecycleInv, SessionInv
  <1>7. Engaged(i)
    BY <1>1 DEF Engaged
  <1>8. OrderInv(i)'
    BY <1>2, <1>3, <1>6 DEF OrderInv
  <1>9. CleanupInv(i)'
    <2>1. CASE u = Env(i)
      <3>1. Draining => ~Starting(job[Wm(i)])
        BY NamedUnits, Apart DEF LifecycleInv, DrainInv
      <3> QED BY <1>3, <2>1, <3>1 DEF CleanupInv, Starting
    <2>2. CASE u = Wm(i)
      BY <1>3, <1>6, <2>2 DEF CleanupInv, Starting
    <2> QED BY <2>1, <2>2
  <1>10. WorkInv(i)'
    <2> SUFFICES ASSUME ~Draining
                 PROVE  WorkInv(i)'
      BY <1>4 DEF WorkInv
    <2>1. Alive(i)'
      BY <1>5, <1>6, <1>7 DEF WorkInv
    <2>2. /\ job[Pre(i)].type # "stop" /\ job[Env(i)].type # "stop"
          /\ Starting(job[Env(i)]) \/ st[Env(i)] = "active"
          /\ Starting(job[Wm(i)]) =>
                 \/ Starting(job[Envelope(i)])
                 \/ st[Envelope(i)] = "active" /\ job[Envelope(i)].type # "stop"
          /\ st[Env(i)] # "inactive" => ~Starting(job[Envelope(i)])
      BY <1>5, <1>6, <2>1 DEF WorkInv
    <2>3. CASE u = Env(i)
      BY <1>2, <1>3, <2>1, <2>2, <2>3 DEF WorkInv, Starting
    <2>4. CASE u = Wm(i)
      BY <1>2, <1>3, <2>1, <2>2, <2>4 DEF WorkInv, Starting
    <2> QED BY <2>3, <2>4
  <1>11. SessionInv(i)'
    BY <1>8, <1>9, <1>10 DEF SessionInv
  <1>12. Up(Wm(i))' => Up(Wm(i)) \/ ~Draining
    BY <1>3 DEF Up
  <1>13. stop = <<i>> => \/ job'[Wm(i)].type = "stop"
                         \/ st'[Wm(i)] = "inactive" /\ job'[Wm(i)].type = "none"
    <2>1. stop = <<i>> => job[Wm(i)].type = "stop" \/ (st[Wm(i)] = "inactive" /\ job[Wm(i)].type = "none")
      BY DEF LifecycleInv, StopInv
    <2> QED BY <1>3, <2>1
  <1> QED BY <1>1, <1>5, <1>11, <1>12, <1>13, OwnStep

\* A session that does not drain, unit by unit.
LEMMA Working ==
    ASSUME LifecycleInv, ~Draining, NEW i \in Ids, NEW u \in {Env(i), Wm(i)},
           st[u] # "inactive" \/ job[u].type # "none"
    PROVE  /\ Alive(i)
           /\ job[Env(i)].type # "stop"
           /\ Starting(job[Env(i)]) \/ st[Env(i)] = "active"
           /\ st[Env(i)] # "inactive" => ~Starting(job[Envelope(i)])
           /\ Starting(job[Wm(i)]) => \/ Starting(job[Envelope(i)])
                                      \/ st[Envelope(i)] = "active" /\ job[Envelope(i)].type # "stop"
PROOF
  <1>1. Engaged(i)
    BY DEF Engaged, SessionUnits
  <1> QED BY <1>1 DEF LifecycleInv, SessionInv, WorkInv

\* What a service's unit becomes.
LEMMA ServiceBecomes ==
    ASSUME StType, JobType, NEW u \in Units
    PROVE  /\ UNCHANGED st /\ job' = Done(job, u) => Becomes(u, st[u], NoJob)
           /\ \A x \in States : Set(u, x) /\ job' = Done(job, u) => Becomes(u, x, NoJob)
           /\ \A x \in States : Set(u, x) /\ UNCHANGED job => Becomes(u, x, job[u])
           /\ \A x \in States : Set(u, x) /\ job' = [job EXCEPT ![u].type = "starting"] =>
                 /\ Becomes(u, x, job'[u])
                 /\ job'[u].type = "starting" /\ job'[u].hard = job[u].hard
PROOF
  <1>1. st = [st EXCEPT ![u] = st[u]] /\ job = [job EXCEPT ![u] = job[u]]
    BY DEF StType, JobType
  <1>2. ASSUME NEW x \in States, Set(u, x), job' = [job EXCEPT ![u].type = "starting"]
        PROVE  /\ Becomes(u, x, job'[u])
               /\ job'[u].type = "starting" /\ job'[u].hard = job[u].hard
    BY <1>2, StartingType DEF Set, StType, JobType, Becomes
  <1> QED BY <1>1, <1>2, SetBecomes DEF Set, Done

\* A service's start runs.
LEMMA ServiceRuns ==
    ASSUME LifecycleInv, LifecycleTypeOK', NEW u \in Units, RunService(u)
    PROVE  LifecycleInv'
PROOF
  <1> USE DEF States
  <1>0. StType /\ JobType
    BY TypeParts DEF LifecycleInv
  <1>1. /\ Run(u) /\ Starting(job[u]) /\ UNCHANGED <<anchor, stop>>
        /\ u[1] \in {"env", "wm", "waitenv", "bindpid"}
    BY DEF RunService, Services
  <1>2. u \in Units \ {Shutdown}
    BY <1>1, Apart
  <1>3. ~Draining /\ st[Shutdown] # "active"
    BY <1>1, <1>2, StartRuns
  <1>4. job[u].type # "none" /\ NoJob.type = "none" /\ ~NoJob.hard /\ ~Starting(NoJob)
    BY <1>1, JobForms DEF Starting
  <1>5. CASE u[1] = "env"
    <2> DEFINE i == u[2]
    <2>1. i \in Ids /\ u = Env(i)
      BY <1>5, SessionUnitForm
    <2> HIDE DEF i
    <2>2. CASE st[u] = "inactive"
      BY <2>1, <2>2, EnvRuns
    <2>3. CASE st[u] # "inactive"
      <3>1. st[u] = "active" /\ UNCHANGED st /\ job' = Done(job, u)
        BY <2>3 DEF RunService
      <3>2. Becomes(u, "active", NoJob)
        BY <1>0, <3>1, ServiceBecomes
      <3>3. ~Starting(job[Envelope(i)])
        BY <1>3, <1>4, <2>1, <2>3, Working
      <3> QED BY <1>1, <1>3, <1>4, <2>1, <3>2, <3>3, MainStep, Apart DEF Starting
    <2> QED BY <2>2, <2>3
  <1>6. CASE u[1] = "wm"
    <2> DEFINE i == u[2]
    <2>1. i \in Ids /\ u = Wm(i)
      BY <1>6, SessionUnitForm
    <2> HIDE DEF i
    <2>2. Wm(i) # Env(i)
      BY <2>1, Apart
    <2>3. st[Pre(i)] = "active"
      <3>1. job[Pre(i)].type = "none"
        BY <1>1, <2>1, RunFacts, Order
      <3>2. Alive(i)
        BY <1>3, <1>4, <2>1, Working
      <3> QED BY <3>1, <3>2 DEF Alive, Starting
    <2>4. CASE Set(u, "activating") /\ job' = [job EXCEPT ![u].type = "starting"]
      <3>1. Becomes(u, "activating", job'[u]) /\ job'[u].type = "starting" /\ job'[u].hard = job[u].hard
        BY <1>0, <2>4, ServiceBecomes
      <3> DEFINE b == job'[u]
      <3>2. Becomes(u, "activating", b) /\ b.type = "starting" /\ (b.hard => job[u].hard)
        BY <3>1
      <3> HIDE DEF b
      <3>3. job[u].type # "stop"
        BY <1>1 DEF Starting
      <3> QED BY <1>1, <1>3, <1>4, <2>1, <2>2, <2>3, <3>2, <3>3, MainStep
    <2>5. CASE st[u] = "active" /\ UNCHANGED st /\ job' = Done(job, u)
      <3>1. Becomes(u, "active", NoJob)
        BY <1>0, <2>5, ServiceBecomes
      <3>2. job[u].type # "stop"
        BY <1>1 DEF Starting
      <3> QED BY <1>1, <1>3, <1>4, <2>1, <2>2, <2>3, <3>1, <3>2, MainStep
    <2> QED BY <1>6, <2>4, <2>5 DEF RunService
  <1>7. CASE u[1] \in {"waitenv", "bindpid"}
    <2>1. u # GsPre
      BY <1>7, Apart
    <2>2. CASE Set(u, "active") /\ job' = Done(job, u)
      <3>1. Becomes(u, "active", NoJob)
        BY <1>0, <2>2, ServiceBecomes
      <3> QED BY <1>1, <1>2, <1>3, <1>4, <1>7, <2>1, <3>1, SharedStep
    <2>3. CASE Set(u, "activating") /\ job' = [job EXCEPT ![u].type = "starting"]
      <3> DEFINE b == job'[u]
      <3>1. Becomes(u, "activating", b) /\ b.type = "starting" /\ (b.hard => job[u].hard)
        BY <1>0, <2>3, ServiceBecomes
      <3> HIDE DEF b
      <3> QED BY <1>1, <1>2, <1>3, <1>4, <1>7, <2>1, <3>1, SharedStep
    <2>4. CASE st[u] = "active" /\ UNCHANGED st /\ job' = Done(job, u)
      <3>1. Becomes(u, "active", NoJob)
        BY <1>0, <2>4, ServiceBecomes
      <3> QED BY <1>1, <1>2, <1>3, <1>4, <1>7, <2>1, <3>1, SharedStep
    <2> QED BY <1>7, <2>2, <2>3, <2>4 DEF RunService
  <1> QED BY <1>1, <1>5, <1>6, <1>7

\* A stop reaches a service.
LEMMA ServiceStops ==
    ASSUME LifecycleInv, LifecycleTypeOK', NEW u \in Units, RunStop(u)
    PROVE  LifecycleInv'
PROOF
  <1> USE DEF States
  <1>0. StType /\ JobType
    BY TypeParts DEF LifecycleInv
  <1>1. /\ Run(u) /\ job[u].type = "stop" /\ ~Starting(job[u]) /\ UNCHANGED <<anchor, stop>>
        /\ u[1] \in {"env", "wm", "waitenv", "bindpid"}
    BY DEF RunStop, Services, Starting
  <1>2. u \in Units \ {Shutdown} /\ u # GsPre
    BY <1>1, Apart
  <1>3. /\ NoJob.type = "none" /\ ~NoJob.hard /\ ~Starting(NoJob)
        /\ Draining /\ st[u] # "inactive" => job[u].hard
        /\ st[Shutdown] = "active" => st[u] = "inactive" /\ job[Shutdown].type = "stop"
    BY <1>1, <1>2, JobForms DEF Starting, LifecycleInv, DrainInv, RestInv
  <1>4. \/ Up(u) /\ Becomes(u, "deactivating", job[u])
        \/ st[u] = "inactive" /\ Becomes(u, "inactive", NoJob)
    <2>1. CASE Up(u) /\ Set(u, "deactivating") /\ UNCHANGED job
      BY <1>0, <2>1, ServiceBecomes
    <2>2. CASE st[u] = "inactive" /\ job' = Done(job, u) /\ UNCHANGED st
      BY <1>0, <2>2, ServiceBecomes
    <2> QED BY <2>1, <2>2 DEF RunStop
  <1>5. Up(u) => st[u] # "inactive"
    BY DEF Up
  <1>6. CASE u[1] \in {"waitenv", "bindpid"}
    BY <1>1, <1>2, <1>3, <1>4, <1>5, <1>6, SharedStep
  <1>7. CASE u[1] = "env"
    <2> DEFINE i == u[2]
    <2>1. i \in Ids /\ u = Env(i)
      BY <1>7, SessionUnitForm
    <2> HIDE DEF i
    <2>2. Env(i) # Wm(i) /\ Pre(i) \in Units \ {Shutdown}
      BY <2>1, Apart, NamedUnits
    <2>3. Draining
      BY <1>1, <2>1, Working
    <2>4. st[Pre(i)] = "inactive"
      <3>1. job[Pre(i)].type # "stop"
        BY <1>1, <2>1, RunFacts, Order
      <3> QED BY <2>2, <2>3, <3>1 DEF LifecycleInv, DrainInv
    <2> QED BY <1>1, <1>3, <1>4, <1>5, <2>1, <2>2, <2>3, <2>4, MainStep
  <1>8. CASE u[1] = "wm"
    <2> DEFINE i == u[2]
    <2>1. i \in Ids /\ u = Wm(i)
      BY <1>8, SessionUnitForm
    <2> HIDE DEF i
    <2>2. Env(i) # Wm(i)
      BY <2>1, Apart
    <2>3. st[u] # "inactive" => st[Pre(i)] = "active"
      BY <2>1 DEF LifecycleInv, SessionInv, OrderInv
    <2> QED BY <1>1, <1>3, <1>4, <1>5, <2>1, <2>2, <2>3, MainStep
  <1> QED BY <1>1, <1>6, <1>7, <1>8

\* prepare-env returns, or the compositor is ready.
LEMMA ServiceReady ==
    ASSUME LifecycleInv, LifecycleTypeOK', NEW i \in Ids, PrepareEnds(i) \/ Ready(i)
    PROVE  LifecycleInv'
PROOF
  <1> USE DEF States
  <1>0. StType /\ JobType
    BY TypeParts DEF LifecycleInv
  <1>1. /\ NoJob.type = "none" /\ ~NoJob.hard /\ ~Starting(NoJob)
        /\ Env(i) # Wm(i)
        /\ Env(i) \in Units \ {Shutdown} /\ Wm(i) \in Units \ {Shutdown}
    BY JobForms, Apart, NamedUnits DEF Starting
  <1>2. ASSUME NEW u \in {Env(i), Wm(i)}, st[u] = "activating", job[u].type = "starting"
        PROVE  ~Draining /\ st[Shutdown] # "active"
    BY <1>1, <1>2 DEF Starting, LifecycleInv, DrainInv, RestInv
  <1>3. CASE PrepareEnds(i)
    <2>1. /\ st[Env(i)] = "activating" /\ job[Env(i)].type = "starting"
          /\ UNCHANGED <<anchor, stop>>
      BY <1>3 DEF PrepareEnds
    <2>2. Becomes(Env(i), "active", NoJob)
      BY <1>0, <1>1, <1>3, ServiceBecomes DEF PrepareEnds
    <2>3. ~Draining /\ st[Shutdown] # "active"
      BY <1>2, <2>1
    <2>4. ~Starting(job[Envelope(i)])
      BY <2>1, <2>3, Working
    <2> QED BY <1>1, <2>1, <2>2, <2>3, <2>4, MainStep DEF Starting
  <1>4. CASE Ready(i)
    <2>1. /\ st[Wm(i)] = "activating" /\ job[Wm(i)].type = "starting"
          /\ UNCHANGED <<anchor, stop>>
      BY <1>4 DEF Ready
    <2>2. Becomes(Wm(i), "active", NoJob)
      BY <1>0, <1>1, <1>4, ServiceBecomes DEF Ready
    <2>3. ~Draining /\ st[Shutdown] # "active"
      BY <1>2, <2>1
    <2>4. st[Pre(i)] = "active"
      BY <2>1 DEF LifecycleInv, SessionInv, OrderInv
    <2> QED BY <1>1, <2>1, <2>2, <2>3, <2>4, MainStep
  <1> QED BY <1>3, <1>4

\* A service is gone.
LEMMA GoneStep ==
    ASSUME LifecycleInv, LifecycleTypeOK', NEW u \in Units, ServiceGone(u)
    PROVE  LifecycleInv'
PROOF
  <1> USE DEF States
  <1>0. StType /\ JobType
    BY TypeParts DEF LifecycleInv
  <1>1. /\ st[u] = "deactivating" /\ st' = [st EXCEPT ![u] = "inactive"] /\ UNCHANGED <<anchor, stop>>
        /\ u[1] \in {"env", "wm", "waitenv", "bindpid"}
        /\ u \in OnFailure
    <2>1. u \in Services /\ st[u] = "deactivating" /\ Set(u, "inactive") /\ UNCHANGED <<anchor, stop>>
      BY Zenon DEF ServiceGone
    <2>2. u[1] \in {"env", "wm", "waitenv", "bindpid"}
      BY <2>1 DEF Services
    <2>3. u[1] = "waitenv" => u = <<"waitenv", Shared>>
      BY UnitForm DEF PerId, Common
    <2>4. u \in OnFailure
      BY <2>2, <2>3 DEF OnFailure, OnSuccess
    <2> QED BY <2>1, <2>2, <2>4 DEF Set
  <1>2. u \in Units \ {Shutdown} /\ u # GsPre
    BY <1>1, Apart
  <1>3. CASE job[u].type = "starting"
    <2> DEFINE lost == {v \in FailsWith[u] : Starting(job[v])}
               j == [v \in Units |-> IF v \in lost THEN NoJob ELSE job[v]]
    <2>1. job' = Triggered(j, lost, OnFailure)
      BY <1>3, TabulatedIs DEF ServiceGone, StartFailed
    <2>2. u \in FailsWith[u]
      <3>1. FailsStart \in [Units -> SUBSET Units]
        BY Derived
      <3> QED BY <3>1, ReachGoes DEF FailsWith
    <2>3. u \in lost
      BY <1>3, <2>2 DEF Starting
    <2>4. ~Draining
      BY <1>2, <1>3 DEF Starting, LifecycleInv, DrainInv
    <2>5. Shutdown \notin lost
      BY <2>4 DEF Draining
    <2>6. j \in [Units -> Jobs] /\ j[Shutdown] = job[Shutdown]
      BY <1>0, <2>5, JobForms, NamedUnits DEF JobType
    <2>7. \A v \in Units : j[v] \in {job[v], NoJob}
      OBVIOUS
    <2>8. \A v \in Units : job[v].type = "stop" => j[v] = job[v]
      BY DEF Starting
    <2>9. lost \cap OnFailure # {}
      BY <1>1, <2>3
    <2> HIDE DEF lost, j
    <2> QED BY <1>1, <1>2, <2>1, <2>6, <2>7, <2>8, <2>9, TriggerStep
  <1>4. CASE job[u].type # "starting"
    <2>1. PICK j : /\ j \in {job, Done(job, u)} /\ job' = Triggered(j, {u}, OnSuccess)
                   /\ job[u].type = "stop" => j = Done(job, u)
                   /\ job[u].type # "stop" => j = job
      <3>1. CASE job[u].type = "stop"
        BY <1>4, <3>1 DEF ServiceGone
      <3>2. CASE job[u].type # "stop"
        BY <1>4, <3>2 DEF ServiceGone
      <3> QED BY <3>1, <3>2
    <2>2. /\ j \in [Units -> Jobs] /\ j[Shutdown] = job[Shutdown]
          /\ j[u] \in {job[u], NoJob}
          /\ \A v \in Units \ {u} : j[v] = job[v]
      BY <1>0, <1>2, <2>1, DoneType, NamedUnits DEF JobType, Done
    <2>3. CASE {u} \cap OnSuccess # {}
      <3>1. /\ \A v \in Units : j[v] \in {job[v], NoJob}
            /\ \A v \in Units : job[v].type = "stop" /\ v # u => j[v] = job[v]
            /\ u[1] \in {"env", "pre"} => u[1] = "env" /\ st[u] # "active"
        BY <1>1, <2>2
      <3>2. j \in [Units -> Jobs] /\ j[Shutdown] = job[Shutdown]
        BY <2>2
      <3>3. st[u] # "inactive"
        BY <1>1
      <3>4. job' = Triggered(j, {u}, OnSuccess)
        BY <2>1
      <3> QED BY <1>1, <1>2, <2>3, <3>1, <3>2, <3>3, <3>4, TriggerStep
    <2>4. CASE {u} \cap OnSuccess = {}
      <3>1. job' = j
        BY <2>1, <2>4 DEF Triggered
      <3>2. u[1] \notin {"envelope", "pre", "session", "wm", "env"}
        <4>1. u \notin OnSuccess
          BY <2>4
        <4> QED BY <1>1, <4>1 DEF OnSuccess
      <3>3. Becomes(u, "inactive", j[u])
        BY <1>0, <1>1, <2>2, <3>1 DEF Becomes, StType
      <3>4. /\ j[u].hard => job[u].hard /\ j[u].type # "none"
            /\ Draining => ~Starting(j[u])
            /\ st[Shutdown] # "active"
        <4>1. NoJob.type = "none" /\ ~NoJob.hard /\ ~Starting(NoJob)
          BY JobForms DEF Starting
        <4>2. job[u].hard => job[u].type # "none"
          BY DEF LifecycleInv, HardInv
        <4>3. Draining => ~Starting(job[u])
          BY <1>2 DEF LifecycleInv, DrainInv
        <4>4. st[Shutdown] # "active"
          BY <1>1, <1>2 DEF LifecycleInv, RestInv
        <4> QED BY <2>2, <4>1, <4>2, <4>3, <4>4
      <3> DEFINE b == j[u]
      <3>5. /\ Becomes(u, "inactive", b)
            /\ b.hard => job[u].hard /\ b.type # "none"
            /\ Draining => ~Starting(b)
        BY <3>3, <3>4
      <3> HIDE DEF b
      <3> QED BY <1>1, <1>2, <3>2, <3>4, <3>5, SharedStep
    <2> QED BY <2>3, <2>4
  <1> QED BY <1>3, <1>4

\* waitenv ends, or the pid does.
LEMMA WaitEnds ==
    ASSUME LifecycleInv, LifecycleTypeOK',
           (\E ok \in BOOLEAN : WaitenvEnds(ok)) \/ (\E i \in Ids : WaitpidEnds(i))
    PROVE  LifecycleInv'
PROOF
  <1> USE DEF States
  <1>0. StType /\ JobType
    BY TypeParts DEF LifecycleInv
  <1>1. ASSUME NEW u \in Units \ {Shutdown}, u[1] \in {"waitenv", "bindpid"}, st[u] # "inactive",
               NEW trigger, u \in trigger, job' = Triggered(Done(job, u), {u}, trigger),
               Set(u, "inactive"), UNCHANGED <<anchor, stop>>
        PROVE  LifecycleInv'
    <2> DEFINE j == Done(job, u)
    <2>1. /\ j \in [Units -> Jobs] /\ j[Shutdown] = job[Shutdown]
          /\ \A v \in Units : j[v] \in {job[v], NoJob}
          /\ \A v \in Units : v # u => j[v] = job[v]
      BY <1>0, <1>1, DoneType, NamedUnits DEF JobType, Done
    <2>2. job' = Triggered(j, {u}, trigger) /\ {u} \cap trigger # {} /\ st' = [st EXCEPT ![u] = "inactive"]
      BY <1>1 DEF Set
    <2>3. /\ u[1] \in {"env", "pre"} => u[1] = "env" /\ st[u] # "active"
          /\ \A v \in Units : job[v].type = "stop" /\ v # u => j[v] = job[v]
      BY <1>1, <2>1
    <2> HIDE DEF j
    <2>4. UNCHANGED <<anchor, stop>> /\ u \in Units \ {Shutdown} /\ st[u] # "inactive"
      BY <1>1
    <2>5. j \in [Units -> Jobs]
      BY <2>1
    <2> QED BY <2>1, <2>2, <2>3, <2>4, <2>5, TriggerStep
  <1>2. ASSUME NEW i \in Ids, WaitpidEnds(i)
        PROVE  LifecycleInv'
    <2>1. BindPid(i) \in Units \ {Shutdown} /\ BindPid(i)[1] = "bindpid" /\ BindPid(i) \in OnSuccess
      BY NamedUnits, Apart DEF OnSuccess
    <2> QED BY <1>1, <1>2, <2>1 DEF WaitpidEnds
  <1>3. ASSUME NEW ok \in BOOLEAN, WaitenvEnds(ok)
        PROVE  LifecycleInv'
    <2>1. /\ Waitenv \in Units \ {Shutdown} /\ Waitenv # GsPre /\ Waitenv[1] = "waitenv"
          /\ Waitenv \in OnFailure
      BY NamedUnits, Apart DEF OnFailure, Waitenv
    <2>2. st[Waitenv] = "activating" /\ Set(Waitenv, "inactive") /\ UNCHANGED <<anchor, stop>>
      BY <1>3 DEF WaitenvEnds, Waitenv
    <2>3. CASE job' = Triggered(Done(job, Waitenv), {Waitenv}, OnFailure)
      BY <1>1, <2>1, <2>2, <2>3
    <2>4. CASE job' = Done(job, Waitenv)
      <3>1. Becomes(Waitenv, "inactive", NoJob)
        BY <1>0, <2>1, <2>2, <2>4, ServiceBecomes
      <3>2. NoJob.type = "none" /\ ~NoJob.hard /\ ~Starting(NoJob)
        BY JobForms DEF Starting
      <3> QED BY <2>1, <2>2, <3>1, <3>2, SharedStep
    <2> QED BY <1>3, <2>3, <2>4 DEF WaitenvEnds, Waitenv
  <1> QED BY <1>2, <1>3

\* Outer units are stopped on request, and no state changes.
LEMMA StopRequest ==
    ASSUME LifecycleInv, LifecycleTypeOK', ~Draining, NEW u \in Units,
           u[1] \in {"envelope", "session", "wm", "gs"}, job' = Stopped(job, {u}), UNCHANGED st,
           \A i \in Ids : Beginning(i)' => Beginning(i),
           stop' = stop \/ \E i \in Ids : stop' = <<i>> /\ Up(Wm(i)) /\ Wm(i) = u
    PROVE  LifecycleInv'
PROOF
  <1> DEFINE X == StopWith[u]
  <1>0. StType /\ JobType
    BY TypeParts DEF LifecycleInv
  <1>1. X \in SUBSET Outer /\ u \in X /\ \A k \in Ids : Wm(k) \in X
    BY StopSets
  <1>2. X = UNION {StopWith[v] : v \in {u}}
    OBVIOUS
  <1> HIDE DEF X
  <1>3. \A v \in Units : job'[v] =
            IF v \in X /\ (st[v] # "inactive" \/ Starting(job[v])) THEN SoftStop ELSE job[v]
    BY <1>0, <1>2, StoppedEffect DEF LifecycleInv
  <1>4. ASSUME NEW i \in Ids, stop' = <<i>>, Up(Wm(i)), Wm(i) = u
        PROVE  job'[Wm(i)].type = "stop"
    BY <1>1, <1>3, <1>4 DEF Up, SoftStop
  <1>5. stop' = stop \/ \E i \in Ids : stop' = <<i>> /\ Up(Wm(i)) /\ job'[Wm(i)].type = "stop"
    BY <1>4
  <1>6. \A v \in Units : st'[v] = st[v]
    OBVIOUS
  <1>7. \A i \in Ids : Wm(i) \in X
    BY <1>1
  <1> QED BY <1>1, <1>3, <1>5, <1>6, <1>7, StopStep

\* A unit that nothing needs any more is stopped.
LEMMA UnneededStops ==
    ASSUME LifecycleInv, LifecycleTypeOK', NEW u \in Units, Unneeded(u)
    PROVE  LifecycleInv'
PROOF
  <1>0. StType /\ JobType
    BY TypeParts DEF LifecycleInv
  <1>1. /\ u[1] \in {"envelope", "pre", "session", "shutdown", "env", "gspre", "gs"}
        /\ st[u] = "active" /\ job[u] = NoJob
        /\ \A v \in KeepsNeeded[u] : st[v] = "inactive" /\ job[v] = NoJob
        /\ job' = Stopped(job, {u})
        /\ UNCHANGED <<st, anchor, stop>>
    BY DEF Unneeded, StopWhenUnneeded
  <1>2. NoJob.type = "none" /\ ~Starting(NoJob)
    BY JobForms DEF Starting
  <1>3. ~Draining
    BY <1>1, <1>2 DEF LifecycleInv, DrainInv
  <1>4. CASE u[1] \in {"envelope", "session", "gs"}
    <2>1. \A i \in Ids : Beginning(i)' => Beginning(i)
      BY <1>1 DEF Beginning
    <2> QED BY <1>1, <1>3, <1>4, <2>1, StopRequest
  <1>5. CASE u[1] = "pre"
    <2> DEFINE i == u[2]
    <2>1. i \in Ids /\ u = Pre(i)
      BY <1>5, SessionUnitForm
    <2> HIDE DEF i
    <2>2. st[Env(i)] = "inactive"
      BY <1>1, <2>1, Needed
    <2>3. st[Env(i)] = "active"
      BY <1>1, <2>1 DEF LifecycleInv, SessionInv, OrderInv
    <2> QED BY <2>2, <2>3
  <1>6. CASE u[1] = "env"
    <2> DEFINE i == u[2]
    <2>1. i \in Ids /\ u = Env(i)
      BY <1>6, SessionUnitForm
    <2> HIDE DEF i
    <2>2. st[Pre(i)] = "inactive" /\ job[Pre(i)] = NoJob
      BY <1>1, <2>1, Needed
    <2>3. Alive(i)
      BY <1>1, <1>3, <2>1, Working
    <2> QED BY <1>2, <2>2, <2>3 DEF Alive
  <1>7. CASE u[1] = "gspre"
    <2>1. u = GsPre
      BY <1>7, UnitForm DEF PerId, Common, GsPre
    <2>2. PICK i \in Ids : Alive(i)
      BY <1>1, <1>3, <2>1 DEF LifecycleInv, GsPreInv
    <2>3. st[Pre(i)] = "inactive" /\ job[Pre(i)] = NoJob
      BY <1>1, <2>1, Needed
    <2> QED BY <1>2, <2>2, <2>3 DEF Alive
  <1>8. CASE u[1] = "shutdown"
    <2>1. u = Shutdown /\ Shutdown \in Units
      BY <1>8, ShutdownApart, NamedUnits
    <2> DEFINE X == StopWith[u]
    <2>2. X = {Shutdown}
      BY <2>1, ShutdownApart
    <2>0. X = UNION {StopWith[v] : v \in {u}}
      OBVIOUS
    <2> HIDE DEF X
    <2>3. \A v \in Units : job'[v] =
              IF v \in X /\ (st[v] # "inactive" \/ Starting(job[v])) THEN SoftStop ELSE job[v]
      <3>1. job' = Stopped(job, {u})
        BY <1>1
      <3>2. HardInv /\ DrainInv
        BY DEF LifecycleInv
      <3> QED BY <1>0, <1>3, <2>0, <3>1, <3>2, StoppedEffect
    <2>4. job'[Shutdown] = SoftStop /\ \A v \in Units \ {Shutdown} : job'[v] = job[v]
      BY <1>1, <2>1, <2>2, <2>3
    <2>5. ~Draining'
      BY <2>4 DEF Draining, Starting, SoftStop
    <2>6. \A k \in Ids : Same(k)
      BY <1>1, <2>4, OwnUnits DEF Same
    <2>7. (\A k \in Ids : SessionInv(k)' /\ (Alive(k)' <=> Alive(k))) /\ AloneInv' /\ StopInv' /\ BeginInv'
      BY <1>1, <1>3, <2>5, <2>6, QuietStep
    <2>8. HardInv'
      BY <1>3, <2>4 DEF LifecycleInv, HardInv, SoftStop
    <2>9. RestInv'
      BY <1>1, <2>4 DEF LifecycleInv, RestInv, SoftStop
    <2>10. GsPreInv'
      <3>1. job'[GsPre] = job[GsPre]
        BY <2>4, NamedUnits, Apart
      <3> QED BY <1>1, <1>3, <2>7, <3>1 DEF LifecycleInv, GsPreInv, Starting
    <2> QED BY <2>5, <2>7, <2>8, <2>9, <2>10 DEF LifecycleInv, DrainInv
  <1> QED BY <1>1, <1>4, <1>5, <1>6, <1>7, <1>8

\* The compositor ends by itself, or prepare-env fails: what hangs on it is stopped.
LEMMA EndsByItself ==
    ASSUME LifecycleInv, LifecycleTypeOK', NEW u \in Units, ServiceEnds(u)
    PROVE  LifecycleInv'
PROOF
  <1> USE DEF States
  <1>0. StType /\ JobType
    BY TypeParts DEF LifecycleInv
  <1>1. /\ u[1] \in {"env", "wm"} /\ st[u] # "inactive"
        /\ u[1] = "env" => st[u] = "activating"
        /\ Set(u, "deactivating") /\ UNCHANGED <<anchor, stop>>
        /\ job' = IF job[u].type = "stop" THEN job ELSE Unexpected(job, u)
    BY DEF ServiceEnds
  <1>2. u \in Units \ {Shutdown}
    BY <1>1, Apart
  <1> DEFINE i == u[2]
  <1>3. /\ i \in Ids /\ (u = Env(i) \/ u = Wm(i))
        /\ (u[1] = "env" => u = Env(i)) /\ (u[1] = "wm" => u = Wm(i))
    BY <1>1, SessionUnitForm
  <1> HIDE DEF i
  <1>4. Env(i) # Wm(i) /\ Env(i)[1] = "env" /\ Wm(i)[1] = "wm"
    BY <1>3, Apart
  <1>5. st[Shutdown] # "active"
    BY <1>1, <1>2 DEF LifecycleInv, RestInv
  <1>6. u = Env(i) => st[Pre(i)] # "active"
    BY <1>1, <1>3, <1>4 DEF LifecycleInv, SessionInv, OrderInv
  <1>7. u = Wm(i) => st[Pre(i)] = "active"
    BY <1>1, <1>3 DEF LifecycleInv, SessionInv, OrderInv
  <1>8. CASE job[u].type = "stop"
    <2>1. Becomes(u, "deactivating", job[u])
      BY <1>0, <1>1, <1>8, ServiceBecomes
    <2>2. u = Env(i) => Draining
      BY <1>3, <1>8, Working
    <2>3. Draining => job[u].hard
      BY <1>1, <1>2 DEF LifecycleInv, DrainInv
    <2>4. ~Starting(job[u])
      BY <1>8 DEF Starting
    <2>5. UNCHANGED <<anchor, stop>> /\ u \in {Env(i), Wm(i)}
      BY <1>1, <1>3
    <2> DEFINE b == job[u]
    <2>6. /\ Becomes(u, "deactivating", b) /\ b.type = "stop"
          /\ b.hard => job[u].hard
          /\ Draining => b.hard
          /\ ~Starting(b)
      BY <1>8, <2>1, <2>3, <2>4
    <2> HIDE DEF b
    <2> QED BY <1>1, <1>3, <1>4, <1>5, <1>6, <1>7, <2>2, <2>5, <2>6, MainStep
  <1>9. CASE job[u].type # "stop"
    <2> DEFINE us == {v \in StopsOnStop[u] : Up(v)}
               X == UNION {StopWith[v] : v \in us}
    <2>1. job' = Stopped(job, us)
      BY <1>1, <1>9 DEF Unexpected
    <2>2. ~Draining
      BY <1>1, <1>2, <1>9 DEF LifecycleInv, DrainInv
    <2>3. \A v \in us : v \in Units /\ v[1] \in {"envelope", "session", "gs"}
      <3>1. ASSUME u = Env(i), NEW v \in us
            PROVE  v \in Units /\ v[1] = "envelope"
        <4>1. v \in {w \in Units : w[1] = "envelope"} \cup {Pre(i)}
          BY <1>3, <3>1, StopsOnStopSets
        <4>2. st[Pre(i)] \in {"active", "inactive"}
          BY <1>0, <1>3, NamedUnits DEF StType, Services, Pre
        <4>3. v # Pre(i)
          BY <1>6, <3>1, <4>2 DEF Up
        <4> QED BY <4>1, <4>3
      <3>2. ASSUME u = Wm(i), NEW v \in us
            PROVE  v \in Units /\ v[1] \in {"envelope", "session", "gs"}
        BY <1>3, <3>2, StopsOnStopSets
      <3> QED BY <1>3, <3>1, <3>2
    <2>4. \A v \in us : StopWith[v] \subseteq Outer /\ \A k \in Ids : Wm(k) \in StopWith[v]
      BY <2>3, StopSets
    <2>5. X \in SUBSET Outer
      BY <2>4
    <2>6. X # {} => \A k \in Ids : Wm(k) \in X
      BY <2>4
    <2>7. ASSUME u = Env(i), Starting(job[Wm(i)])
          PROVE  Wm(i) \in X
      <3>1. st[Envelope(i)] = "active"
        BY <1>1, <1>3, <2>2, <2>7, Working
      <3>2. Envelope(i) \in us
        BY <1>3, <2>7, <3>1, StopsOnStopSets DEF Up
      <3> QED BY <1>3, <2>4, <3>2
    <2>8. X = UNION {StopWith[v] : v \in us}
      OBVIOUS
    <2> HIDE DEF X, us
    <2>9. \A v \in Units : job'[v] =
              IF v \in X /\ (st[v] # "inactive" \/ Starting(job[v])) THEN SoftStop ELSE job[v]
      BY <1>0, <2>1, <2>2, <2>8, StoppedEffect DEF LifecycleInv
    <2>10. st'[u] = "deactivating" /\ \A v \in Units \ {u} : st'[v] = st[v]
      BY <1>0, <1>1 DEF Set, StType
    <2>11. ASSUME NEW k \in Ids, st'[Env(k)] = "deactivating", Starting(job[Wm(k)])
           PROVE  Wm(k) \in X
      <3>1. CASE Env(k) = u
        <4>1. k = i
          BY <1>3, <3>1, Apart
        <4> QED BY <2>7, <2>11, <3>1, <4>1
      <3>2. CASE Env(k) # u
        <4>1. st[Env(k)] = "deactivating"
          BY <2>10, <2>11, <3>2, NamedUnits
        <4> QED BY <2>11, <4>1 DEF LifecycleInv, SessionInv, CleanupInv
      <3> QED BY <3>1, <3>2
    <2>12. \A k \in Ids : Envelope(k) \in X => Wm(k) \in X
      BY <2>6
    <2>13. \A v \in Units : \/ st'[v] = st[v]
                            \/ /\ st[v] # "inactive" /\ st'[v] = "deactivating"
                               /\ v[1] \in {"env", "wm"}
                               /\ v[1] = "env" => st[v] # "active"
      BY <1>1, <2>10
    <2>14. \A k \in Ids : Beginning(k)' => Beginning(k)
      BY <1>1 DEF Beginning
    <2>15. stop' = stop
      BY <1>1
    <2> QED BY <2>2, <2>5, <2>9, <2>11, <2>12, <2>13, <2>14, <2>15, StopStep
  <1> QED BY <1>8, <1>9

-----------------------------------------------------------------------------
(* wsmr start and wsmr stop.                                               *)

\* A step that changes no unit and no job, and begins neither a start nor the wait of
\* a stop.
LEMMA OutsideStep ==
    ASSUME LifecycleInv, LifecycleTypeOK', UNCHANGED <<st, job>>,
           \A i \in Ids : Beginning(i)' => Beginning(i),
           \A i \in Ids : stop' = <<i>> => stop = <<i>>
    PROVE  LifecycleInv'
PROOF
  <1>1. Draining' <=> Draining
    BY DEF Draining, Starting
  <1>2. \A k \in Ids : Same(k)
    BY DEF Same
  <1>3. /\ \A k \in Ids : SessionInv(k)'
        /\ \A k \in Ids : Engaged(k)' <=> Engaged(k)
        /\ \A k \in Ids : Alive(k)' <=> Alive(k)
        /\ \A k \in Ids : Up(Wm(k))' <=> Up(Wm(k))
        /\ AloneInv'
    BY <1>1, <1>2, QuietStep
  <1>4. HardInv' /\ RestInv'
    BY <1>1 DEF LifecycleInv, HardInv, RestInv
  <1>5. DrainInv'
    BY <1>1 DEF LifecycleInv, DrainInv, Starting
  <1>6. GsPreInv'
    BY <1>1, <1>3 DEF LifecycleInv, GsPreInv, Starting
  <1>7. BeginInv'
    BY <1>1, <1>3 DEF LifecycleInv, BeginInv
  <1>8. StopInv'
    BY DEF LifecycleInv, StopInv
  <1> QED BY <1>3, <1>4, <1>5, <1>6, <1>7, <1>8 DEF LifecycleInv

\* An anchor that moves on to a place that is not the beginning of a start.
LEMMA MovesOn ==
    ASSUME LifecycleTypeOK, NEW i \in Ids, NEW to, Moves(i, to),
           to \in {"checked", "bound"} => Beginning(i)
    PROVE  /\ \A k \in Ids : Beginning(k)' => Beginning(k)
           /\ to \notin {"checked", "bound"} => ~Beginning(i)'
  BY DEF LifecycleTypeOK, Moves, Beginning

\* A start checks that no session is active.  No other start and no stop is under way,
\* and a session that is not over has its compositor up, or drains.
LEMMA Checks ==
    ASSUME Orderly, LifecycleInv, LifecycleTypeOK', NEW i \in Ids, StartChecks(i)
    PROVE  LifecycleInv'
PROOF
  <1>1. /\ stop = <<>> /\ \A k \in Ids : ~UnderWay(k)
        /\ ~is_active /\ Moves(i, "checked") /\ UNCHANGED <<st, job, stop>>
    BY DEF StartChecks
  <1>2. ASSUME NEW k \in Ids
        PROVE  ~Beginning(k) /\ ~Starting(job[Pre(k)]) /\ ~Up(Wm(k)) /\ st[Pre(k)] # "active"
    <2>1. ~Beginning(k) /\ ~Starting(job[Pre(k)])
      BY <1>1 DEF UnderWay, Beginning, Pre
    <2>2. ~Up(Wm(k)) /\ ~Up(Pre(k))
      BY <1>1, NamedUnits, Apart DEF is_active
    <2> QED BY <2>1, <2>2 DEF Up
  <1>3. \A k \in Ids : Engaged(k) => Draining
    BY <1>2 DEF LifecycleInv, SessionInv, WorkInv, Alive
  <1>4. Draining' <=> Draining
    BY <1>1 DEF Draining, Starting
  <1>5. \A k \in Ids : Same(k)
    BY <1>1 DEF Same
  <1>6. /\ \A k \in Ids : SessionInv(k)'
        /\ \A k \in Ids : Engaged(k)' <=> Engaged(k)
        /\ \A k \in Ids : Alive(k)' <=> Alive(k)
        /\ \A k \in Ids : Up(Wm(k))' <=> Up(Wm(k))
        /\ AloneInv' /\ StopInv'
    BY <1>1, <1>4, <1>5, QuietStep
  <1>7. HardInv' /\ RestInv'
    BY <1>1, <1>4 DEF LifecycleInv, HardInv, RestInv
  <1>8. DrainInv'
    BY <1>1, <1>4 DEF LifecycleInv, DrainInv, Starting
  <1>9. GsPreInv'
    BY <1>1, <1>4, <1>6 DEF LifecycleInv, GsPreInv, Starting
  <1>10. \A k \in Ids : Beginning(k)' => k = i
    <2>1. \A k \in Ids \ {i} : anchor'[k] = anchor[k]
      BY <1>1 DEF LifecycleInv, LifecycleTypeOK, Moves
    <2> QED BY <1>2, <2>1 DEF Beginning
  <1>11. \A k \in Ids : stop' # <<k>>
    BY <1>1
  <1>12. BeginInv'
    BY <1>2, <1>3, <1>4, <1>6, <1>10, <1>11 DEF BeginInv
  <1> QED BY <1>6, <1>7, <1>8, <1>9, <1>12 DEF LifecycleInv

\* wsmr start after its check, and the anchor it becomes.
LEMMA AnchorStep ==
    ASSUME LifecycleInv, LifecycleTypeOK', NEW i \in Ids,
           \/ StartBinds(i) \/ Bound(i) \/ AnchorStarts(i) \/ Signal(i) \/ AnchorEnds(i) \/ AnchorDies(i)
    PROVE  LifecycleInv'
PROOF
  <1>0. LifecycleTypeOK /\ StType /\ JobType
    BY TypeParts DEF LifecycleInv
  <1>1. ASSUME NEW to, Moves(i, to), to \in {"checked", "bound"} => Beginning(i),
               UNCHANGED <<st, job, stop>>
        PROVE  LifecycleInv'
    <2>1. \A k \in Ids : Beginning(k)' => Beginning(k)
      BY <1>0, <1>1, MovesOn
    <2> QED BY <1>1, <2>1, OutsideStep
  <1>2. CASE StartBinds(i)
    <2>1. CASE Moves(i, "none") /\ UNCHANGED job
      BY <1>1, <1>2, <2>1 DEF StartBinds
    <2>2. CASE /\ ~StartRefused(job, BindPid(i), "replace")
               /\ job' = Started(job, BindPid(i), "replace") /\ UNCHANGED anchor
      <3>1. BindPid(i) \in Units /\ BindPid(i)[1] = "bindpid" /\ UNCHANGED <<st, anchor, stop>>
        BY <1>2, <2>2, NamedUnits, Apart DEF StartBinds
      <3> QED BY <2>2, <3>1, MinorStart
    <2> QED BY <1>2, <2>1, <2>2 DEF StartBinds
  <1>3. CASE Bound(i)
    <2>1. Beginning(i)
      BY <1>3 DEF Bound, Beginning
    <2> QED BY <1>1, <1>3, <2>1 DEF Bound
  <1>4. CASE AnchorStarts(i)
    <2>1. CASE Moves(i, "none") /\ UNCHANGED job
      BY <1>1, <1>4, <2>1 DEF AnchorStarts
    <2>2. CASE /\ ~StartRefused(job, Envelope(i), "replace")
               /\ Moves(i, "up") /\ job' = Started(job, Envelope(i), "replace")
      <3>1. Beginning(i) /\ UNCHANGED <<st, stop>>
        BY <1>4 DEF AnchorStarts, Beginning
      <3>2. (\A k \in Ids : Beginning(k)' => Beginning(k)) /\ ~Beginning(i)'
        BY <1>0, <2>2, MovesOn
      <3> QED BY <2>2, <3>1, <3>2, SessionStart
    <2> QED BY <1>4, <2>1, <2>2 DEF AnchorStarts
  <1>5. CASE Signal(i)
    <2>1. Moves(i, "stopping") /\ UNCHANGED <<st, stop>> /\ job' \in {job, Stopped(job, {Envelope(i)})}
      BY <1>5 DEF Signal
    <2>2. CASE job' = job
      BY <1>1, <2>1, <2>2
    <2>3. CASE job' = Stopped(job, {Envelope(i)}) /\ Draining
      <3> DEFINE X == StopWith[Envelope(i)]
      <3>1. Envelope(i) \in Units \ {Shutdown}
        BY NamedUnits, Apart
      <3>2. Shutdown \notin X
        BY <3>1, ShutdownApart
      <3>3. X = UNION {StopWith[v] : v \in {Envelope(i)}}
        OBVIOUS
      <3> HIDE DEF X
      <3>4. job' = job
        BY <1>0, <2>3, <3>2, <3>3, StoppedEffect DEF LifecycleInv
      <3> QED BY <2>2, <3>4
    <2>4. CASE job' = Stopped(job, {Envelope(i)}) /\ ~Draining
      <3>1. Envelope(i) \in Units /\ Envelope(i)[1] = "envelope"
        BY NamedUnits, Apart
      <3>2. \A k \in Ids : Beginning(k)' => Beginning(k)
        BY <1>0, <2>1, MovesOn
      <3> QED BY <2>1, <2>4, <3>1, <3>2, StopRequest
    <2> QED BY <2>1, <2>2, <2>3, <2>4
  <1>6. CASE AnchorEnds(i)
    BY <1>1, <1>6 DEF AnchorEnds
  <1>7. CASE AnchorDies(i)
    BY <1>1, <1>7 DEF AnchorDies
  <1> QED BY <1>2, <1>3, <1>4, <1>5, <1>6, <1>7

\* wsmr stop.  While the session drains the compositor, if it is up, has its stop
\* already; otherwise it gets one.
LEMMA StopperStep ==
    ASSUME LifecycleInv, LifecycleTypeOK', NEW i \in Ids, Stopper(i)
    PROVE  LifecycleInv'
PROOF
  <1>0. StType /\ JobType
    BY TypeParts DEF LifecycleInv
  <1>1. CASE stop_wm(i)
    <2>1. /\ stop = <<>> /\ Up(Wm(i)) /\ job' = Stopped(job, {Wm(i)}) /\ stop' = <<i>>
          /\ UNCHANGED <<st, anchor>>
      BY <1>1 DEF stop_wm
    <2>2. Wm(i) \in Units \ {Shutdown} /\ Wm(i)[1] = "wm"
      BY NamedUnits, Apart
    <2>3. \A k \in Ids : Beginning(k)' => Beginning(k)
      BY <2>1 DEF Beginning
    <2>4. CASE ~Draining
      BY <2>1, <2>2, <2>3, <2>4, StopRequest
    <2>5. CASE Draining
      <3> DEFINE X == StopWith[Wm(i)]
      <3>1. Shutdown \notin X
        BY <2>2, ShutdownApart
      <3>2. X = UNION {StopWith[v] : v \in {Wm(i)}}
        OBVIOUS
      <3> HIDE DEF X
      <3>3. job' = job
        BY <1>0, <2>1, <2>5, <3>1, <3>2, StoppedEffect DEF LifecycleInv
      <3>4. job[Wm(i)].type = "stop"
        BY <2>1, <2>2, <2>5 DEF LifecycleInv, DrainInv, Up
      <3>5. Draining' <=> Draining
        BY <3>3 DEF Draining, Starting
      <3>6. \A k \in Ids : Same(k)
        BY <2>1, <3>3 DEF Same
      <3>7. /\ \A k \in Ids : SessionInv(k)'
            /\ \A k \in Ids : Engaged(k)' <=> Engaged(k)
            /\ \A k \in Ids : Alive(k)' <=> Alive(k)
            /\ \A k \in Ids : Up(Wm(k))' <=> Up(Wm(k))
            /\ AloneInv'
        BY <3>5, <3>6, QuietStep
      <3>8. HardInv' /\ RestInv'
        BY <2>1, <3>3, <3>5 DEF LifecycleInv, HardInv, RestInv
      <3>9. DrainInv'
        BY <2>1, <3>3, <3>5 DEF LifecycleInv, DrainInv, Starting
      <3>10. GsPreInv'
        BY <2>5, <3>5 DEF GsPreInv
      <3>11. \A k \in Ids : ~Beginning(k)'
        BY <2>1, <2>3 DEF LifecycleInv, BeginInv
      <3>12. BeginInv'
        BY <3>11 DEF BeginInv
      <3>13. StopInv'
        <4> SUFFICES ASSUME NEW k \in Ids, stop' = <<k>>
                     PROVE  job'[Wm(k)].type = "stop"
          BY DEF StopInv
        <4>1. k = i
          BY <2>1
        <4> QED BY <3>3, <3>4, <4>1
      <3> QED BY <3>7, <3>8, <3>9, <3>10, <3>12, <3>13 DEF LifecycleInv
    <2> QED BY <2>4, <2>5
  <1>2. CASE JobGone(i) \/ TimedOut(i) \/ StopReturns(i)
    <2>1. UNCHANGED <<st, job, anchor>> /\ stop' \in {<<>>, <<i, "ok">>}
      BY <1>2 DEF JobGone, TimedOut, StopReturns
    <2>2. \A k \in Ids : stop' # <<k>>
      BY <2>1
    <2>3. \A k \in Ids : Beginning(k)' => Beginning(k)
      BY <2>1 DEF Beginning
    <2> QED BY <2>1, <2>2, <2>3, OutsideStep
  <1> QED BY <1>1, <1>2 DEF Stopper

-----------------------------------------------------------------------------
(* The invariant and what it says.                                         *)

\* The invariant holds when nothing has been started yet.
LEMMA LifecycleStart ==
    ASSUME Init
    PROVE  LifecycleInv
PROOF
  <1>1. \A u \in Units : st[u] = "inactive" /\ job[u] = NoJob /\ job[u].type = "none" /\ ~job[u].hard
    BY JobForms DEF Init
  <1>2. ~Draining
    BY <1>1, NamedUnits DEF Draining, Starting
  <1>3. \A i \in Ids : ~Engaged(i) /\ ~Beginning(i) /\ ~Alive(i)
    BY <1>1, OwnUnits, NamedUnits DEF Init, Engaged, Beginning, Alive, Starting
  <1>4. \A i \in Ids : SessionInv(i)
    <2> SUFFICES ASSUME NEW i \in Ids
                 PROVE  SessionInv(i)
      OBVIOUS
    <2>1. {Env(i), Wm(i), Envelope(i), Pre(i)} \subseteq Units
      BY NamedUnits
    <2>2. /\ st[Env(i)] = "inactive" /\ st[Pre(i)] = "inactive" /\ st[Wm(i)] = "inactive"
          /\ job[Env(i)].type = "none" /\ job[Pre(i)].type = "none" /\ job[Wm(i)].type = "none"
      BY <1>1, <2>1
    <2> QED BY <1>3, <2>2 DEF SessionInv, OrderInv, CleanupInv, WorkInv, Starting
  <1>5. HardInv /\ DrainInv /\ RestInv
    BY <1>1, <1>2, NamedUnits DEF HardInv, DrainInv, RestInv
  <1>6. GsPreInv
    BY <1>1, NamedUnits DEF GsPreInv, Starting
  <1>7. AloneInv /\ BeginInv
    BY <1>3 DEF AloneInv, BeginInv
  <1>8. StopInv
    BY DEF Init, StopInv
  <1> QED BY <1>4, <1>5, <1>6, <1>7, <1>8, TypeInit DEF LifecycleInv

\* Every step keeps it, if starts do not overlap.
LEMMA LifecycleNext ==
    ASSUME Orderly, LifecycleInv, [Next]_vars
    PROVE  LifecycleInv'
PROOF
  <1>1. LifecycleTypeOK'
    BY TypeNext DEF LifecycleInv
  <1>2. CASE UNCHANGED vars
    <2>1. \A i \in Ids : Beginning(i)' => Beginning(i)
      BY <1>2 DEF vars, Beginning
    <2> QED BY <1>1, <1>2, <2>1, OutsideStep DEF vars
  <1>3. ASSUME NEW u \in Units, RunTarget(u)
        PROVE  LifecycleInv'
    BY <1>1, <1>3, ShutdownRuns, TargetRuns
  <1>4. ASSUME NEW u \in Units, Manager(u)
        PROVE  LifecycleInv'
    BY <1>1, <1>3, <1>4, ServiceRuns, ServiceStops, GoneStep, UnneededStops DEF Manager
  <1>5. CASE Ends
    BY <1>1, <1>5, ServiceReady, WaitEnds, EndsByItself DEF Ends
  <1>6. CASE AppStarts
    <2>1. /\ Apps \in Units /\ Apps[1] = "apps"
          /\ ~StartRefused(job, Apps, "replace") /\ job' = Started(job, Apps, "replace")
          /\ UNCHANGED <<st, anchor, stop>>
      BY <1>6, NamedUnits, Apart DEF AppStarts, Apps
    <2> QED BY <1>1, <2>1, MinorStart
  <1>7. ASSUME NEW i \in Ids, Anchor(i)
        PROVE  LifecycleInv'
    BY <1>1, <1>7, Checks, AnchorStep DEF Anchor
  <1>8. ASSUME NEW i \in Ids, Stopper(i)
        PROVE  LifecycleInv'
    BY <1>1, <1>8, StopperStep
  <1> QED BY <1>2, <1>4, <1>5, <1>6, <1>7, <1>8 DEF Next

\* The inductive invariant, for every set of compositor ids, when starts do not
\* overlap.
THEOREM LifecycleInductive == ASSUME Orderly PROVE Spec => []LifecycleInv
PROOF
  <1>1. Init => LifecycleInv
    BY LifecycleStart
  <1>2. LifecycleInv /\ [Next]_vars => LifecycleInv'
    BY LifecycleNext
  <1> QED BY <1>1, <1>2, PTL DEF Spec

\* cleanup-env, the env unit's ExecStopPost, runs when the compositor of its session is
\* gone and none is to come; whatever ended the session, and however the stops that
\* follow interleave.
THEOREM CleanupComesLast == ASSUME Orderly PROVE Spec => []CleanupLast
PROOF
  <1>1. LifecycleInv => CleanupLast
    <2> SUFFICES ASSUME LifecycleInv, NEW i \in Ids, st[Env(i)] = "deactivating"
                 PROVE  st[Wm(i)] = "inactive" /\ ~Starting(job[Wm(i)])
      BY DEF CleanupLast
    <2> QED BY DEF LifecycleInv, SessionInv, OrderInv, CleanupInv
  <1> QED BY <1>1, LifecycleInductive, PTL

\* prepare-env of one session does not run while another session still has its
\* environment unit, as long as no start begins while another start or a stop is
\* under way.
THEOREM OneSession == Spec => []OneSessionAtATime
PROOF
  <1>1. ASSUME Orderly
        PROVE  Spec => []OneSessionAtATime
    <2>1. LifecycleInv => OneSessionAtATime
      <3> SUFFICES ASSUME LifecycleInv, NEW i \in Ids, NEW k \in Ids, i # k, st[Env(i)] = "activating",
                          st[Env(k)] # "inactive"
                   PROVE  FALSE
        BY DEF OneSessionAtATime
      <3>1. Engaged(i) /\ Engaged(k)
        BY DEF Engaged, SessionUnits
      <3> QED BY <3>1 DEF LifecycleInv, AloneInv
    <2> QED BY <1>1, <2>1, LifecycleInductive, PTL
  <1>2. ASSUME ~Orderly
        PROVE  Spec => []OneSessionAtATime
    <2>1. OneSessionAtATime
      BY <1>2 DEF OneSessionAtATime
    <2> QED BY <2>1, PTL
  <1> QED BY <1>1, <1>2

\* wsmr stop reports success only when the compositor is down: the job it waits for
\* does not go before the compositor has.
THEOREM StopIsHonest == ASSUME Orderly PROVE Spec => StopOkMeansDown
PROOF
  <1>1. ASSUME LifecycleInv, [Next]_vars
        PROVE  [\A i \in Ids : (stop = <<i>> /\ stop' = <<i, "ok">>) => st[Wm(i)] = "inactive"]_vars
    <2> SUFFICES ASSUME NEW i \in Ids, stop = <<i>>, stop' = <<i, "ok">>
                 PROVE  st[Wm(i)] = "inactive"
      OBVIOUS
    <2>1. job[Wm(i)].type = "stop" \/ st[Wm(i)] = "inactive"
      BY <1>1 DEF LifecycleInv, StopInv
    <2>2. job[Wm(i)].type # "stop"
      <3>1. stop' # stop
        OBVIOUS
      <3>2. ASSUME NEW u \in Units, Manager(u)
            PROVE  stop' = stop
        <4>1. ServiceGone(u) => UNCHANGED <<anchor, stop>>
          BY Zenon DEF ServiceGone
        <4> QED BY <3>2, <4>1 DEF Manager, RunTarget, RunService, RunStop, Unneeded
      <3>3. Ends => stop' = stop
        BY DEF Ends, PrepareEnds, Ready, WaitpidEnds, ServiceEnds, WaitenvEnds
      <3>4. AppStarts => stop' = stop
        BY DEF AppStarts
      <3>5. ASSUME NEW k \in Ids, Anchor(k)
            PROVE  stop' = stop
        BY <3>5 DEF Anchor, StartChecks, StartBinds, Bound, AnchorStarts, Signal, AnchorEnds, AnchorDies
      <3>6. PICK k \in Ids : Stopper(k)
        BY <1>1, <3>1, <3>2, <3>3, <3>4, <3>5 DEF Next, vars
      <3>7. JobGone(k)
        BY <3>6 DEF Stopper, stop_wm, TimedOut, StopReturns
      <3> QED BY <3>7 DEF JobGone
    <2> QED BY <2>1, <2>2
  <1> QED BY <1>1, LifecycleInductive, PTL DEF Spec, StopOkMeansDown
=============================================================================
