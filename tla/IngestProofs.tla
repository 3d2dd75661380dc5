---------------------------- MODULE IngestProofs ----------------------------
(***************************************************************************)
(* Theorems about EmitterMatching, for every number of ingests, devices,    *)
(* rules and edits and every capacity of a snapshot's appended part; about   *)
(* the lists of Paging, for every table and every size of a page; and about *)
(* RuleLanguage and QueryBinds, for every rule, emission and statement.     *)
(*                                                                         *)
(* An ingest that has created an emitter and not yet told the snapshot of   *)
(* it accounts for one step of the version.  A snapshot may be behind, even *)
(* behind an older one that it replaces, and still be brought up to date by *)
(* appends alone, as long as every step it is behind by is accounted for.   *)
(*                                                                         *)
(* An ingest reads the version and answers later, from a snapshot that says*)
(* it has this version.  It may be one that was loaded or appended to in   *)
(* between, by others; what it answers was right at some moment since.     *)
(*                                                                         *)
(* A client that turns pages counts rows.  Only a row that leaves the list  *)
(* moves those behind it forward; as long as none does, the rank of a row   *)
(* that stays only grows, and a page that starts below it has shown it.     *)
(*                                                                         *)
(* A query is built by loops.  What they leave behind is shown by taking the *)
(* first step, if there is one, after which it is not so.                   *)
(***************************************************************************)
EXTENDS IngestSuite, FiniteSetTheorems, WellFoundedInduction, TLAPS

\* The creation that p is about to note took the version from op[p].v to the next one.
Pending(p) ==
    \/ At(p, "note") /\ version = op[p].v + 1
    \/ At(p, "append") /\ op[p].n = op[p].v + 1

\* Every step of the version from w on is a creation that is pending.
Accounted(w) == \A u \in w..(version - 1) : \E p \in Ingests : Pending(p) /\ op[p].v = u

PendingFor(w, d) == {p \in Ingests : Pending(p) /\ op[p].v >= w /\ Dev(p) = d}

Matched(d) == Hits(EnabledRules(table), d)
Known(d) == Hits(index.base, d) # {} \/ Hits(index.appended, d) # {}

\* Strengthening: no emitter is younger than the last one minted.
AgesInOrder == \A e \in table : e.id <= minted

\* Strengthening: what an ingest has read of the version is past, and it has an emission.
ReadsArePast ==
    /\ version >= 1
    /\ \A p \in Ingests :
          /\ ~At(p, "idle") => op[p].em \in 1..Len(emissions)
          /\ op[p].stage \notin {"idle", "version"} => op[p].v \in 1..version
          /\ op[p].stage \in {"note", "append"} => op[p].v < version /\ op[p].found \in Ids
          /\ At(p, "append") => op[p].n \in (op[p].v + 1)..version

\* Strengthening: one step of the version, one pending creation; later ones are younger.
PendingInOrder ==
    /\ \A p \in Ingests : Pending(p) => op[p].found <= minted
    /\ \A p, q \in Ingests : Pending(p) /\ Pending(q) =>
          /\ op[p].v = op[q].v => p = q
          /\ op[p].v < op[q].v => op[p].found < op[q].found

\* Strengthening: what was appended is older than what has still to be.
AppendedIsOlder ==
    index # None =>
        \A e \in index.appended :
            /\ e.id <= minted
            /\ \A p \in Ingests : Pending(p) /\ op[p].v >= index.version => e.id < op[p].found

\* Strengthening: what is pending is still in the table as it was created, if nothing but
\* creations came after it.
PendingIsListed ==
    \A p \in Ingests : Pending(p) /\ Accounted(op[p].v) => Appended(p) \in EnabledRules(table)

\* Strengthening: what a snapshot matches is right, and what it does not match is right
\* but for pending creations.
ExactButPending ==
    index # None /\ Accounted(index.version) =>
        \A d \in Devices :
            /\ Known(d) =>
                  /\ Matched(d) # {}
                  /\ FirstMatch(index.base, index.appended, d)
                     = FirstMatch(EnabledRules(table), {}, d)
            /\ ~Known(d) =>
                  /\ \A p \in PendingFor(index.version, d) : Matched(d) = {Appended(p)}
                  /\ PendingFor(index.version, d) = {} => Matched(d) = {}

BaseInv == TypeOK /\ AgesInOrder /\ ReadsArePast
LagInv == PendingInOrder /\ AppendedIsOlder /\ PendingIsListed /\ ExactButPending

\* The inductive invariant behind the theorem about snapshots.
MatchingInv == BaseInv /\ LagInv

-----------------------------------------------------------------------------
(* The first match. *)

LEMMA OldestOfSame ==
    ASSUME NEW S, NEW T,
           \A x : x \in S /\ (\A f \in S : x.id <= f.id) <=> x \in T /\ (\A f \in T : x.id <= f.id)
    PROVE  Oldest(S) = Oldest(T)
    BY Zenon DEF Oldest

\* A younger rule does not come first.
LEMMA OldestStays ==
    ASSUME NEW S, NEW s \in S, NEW e, e.id \in Nat, \A x \in S : x.id \in Nat /\ x.id < e.id
    PROVE  Oldest(S \cup {e}) = Oldest(S)
    <1>1. \A x : x \in S /\ (\A f \in S : x.id <= f.id)
                 <=> x \in S \cup {e} /\ (\A f \in S \cup {e} : x.id <= f.id)
        OBVIOUS
    <1>2. QED
        BY <1>1, OldestOfSame

LEMMA OldestOfOne ==
    ASSUME NEW e, e.id \in Nat
    PROVE  Oldest({e}) = e
    BY DEF Oldest

\* Every set of numbers has a least one, so every set of emitters an oldest.
LEMMA LeastExists ==
    ASSUME NEW T, T \subseteq Nat, T # {}
    PROVE  \E x \in T : \A y \in T : x <= y
    <1> DEFINE R == OpToRel(<, Nat)
    <1>1. IsWellFoundedOn(R, Nat)
        BY NatLessThanWellFounded
    <1>2. ASSUME NEW x \in T, NEW y \in T, y < x
          PROVE  <<y, x>> \in R
        BY <1>2 DEF OpToRel
    <1> HIDE DEF R
    <1>3. PICK x \in T : \A y \in T : ~(<<y, x>> \in R)
        BY <1>1, WFMin
    <1>4. \A y \in T : ~(y < x)
        BY <1>2, <1>3
    <1>5. QED
        BY <1>4

LEMMA OldestExists ==
    ASSUME NEW S, S # {}, \A e \in S : e.id \in Nat
    PROVE  Oldest(S) \in S
    <1>1. PICK i \in {e.id : e \in S} : \A j \in {e.id : e \in S} : i <= j
        BY LeastExists
    <1>2. \E e \in S : \A f \in S : e.id <= f.id
        BY <1>1
    <1>3. QED
        BY <1>2 DEF Oldest

\* What is appended only matters to what did not match.
LEMMA AppendMatches ==
    ASSUME NEW A, NEW e, e.id \in Nat, \A x \in A : x.id \in Nat /\ x.id < e.id, NEW d
    PROVE  /\ Hits(A \cup {e}, d) = Hits(A, d) \cup (IF d \in e.rule THEN {e} ELSE {})
           /\ Hits(A, d) # {} => Oldest(Hits(A \cup {e}, d)) = Oldest(Hits(A, d))
           /\ Hits(A, d) = {} /\ d \in e.rule => Oldest(Hits(A \cup {e}, d)) = e
    <1>1. Hits(A \cup {e}, d) = Hits(A, d) \cup (IF d \in e.rule THEN {e} ELSE {})
        BY DEF Hits
    <1>2. Hits(A, d) # {} /\ d \in e.rule => Oldest(Hits(A, d) \cup {e}) = Oldest(Hits(A, d))
        BY OldestStays DEF Hits
    <1>3. QED
        BY <1>1, <1>2, OldestOfOne

-----------------------------------------------------------------------------
(* Types and ages. *)

LEMMA IdleType == Idle \in Op /\ Idle.stage = "idle"
    BY MatchingAssumption DEF Idle, Op, Stages

LEMMA InitBase == Init => BaseInv
    <1> SUFFICES ASSUME Init PROVE BaseInv
        OBVIOUS
    <1>1. \A p \in Ingests : op[p] = Idle
        BY DEF Init
    <1>2. op \in [Ingests -> Op]
        BY IdleType DEF Init
    <1>3. TypeOK
        BY <1>1, <1>2, IdleType, MatchingAssumption DEF Init, TypeOK, At
    <1>4. ReadsArePast
        BY <1>1, IdleType DEF Init, ReadsArePast, At
    <1>5. QED
        BY <1>3, <1>4 DEF Init, BaseInv, AgesInOrder

\* No step takes an emission out of its place or gives it another device.
Row == [dev : Devices, to : Ids \cup {None, Deleted}]
DevicesStay ==
    /\ emissions' \in Seq(Row) /\ Len(emissions') >= Len(emissions)
    /\ \A m \in 1..Len(emissions) : emissions'[m].dev = emissions[m].dev

LEMMA EmissionsType ==
    ASSUME BaseInv
    PROVE  /\ emissions \in Seq(Row) /\ Len(emissions) \in Nat
           /\ \A m \in 1..Len(emissions) : emissions[m] \in Row
           /\ emissions = [m \in 1..Len(emissions) |-> emissions[m]]
    <1>1. emissions \in Seq(Row)
        BY DEF BaseInv, TypeOK, Row
    <1>2. QED
        BY <1>1

\* Emissions whose emitters change, in place.
LEMMA Reassigned ==
    ASSUME BaseInv, emissions' = [m \in 1..Len(emissions) |-> emissions'[m]],
           \A m \in 1..Len(emissions) : emissions'[m] \in Row /\ emissions'[m].dev = emissions[m].dev
    PROVE  DevicesStay
    BY EmissionsType DEF DevicesStay

LEMMA DevicesAreKept == BaseInv /\ [Next]_vars => DevicesStay
    <1> SUFFICES ASSUME BaseInv, [Next]_vars PROVE DevicesStay
        OBVIOUS
    <1>1. ASSUME UNCHANGED emissions
          PROVE  DevicesStay
        BY <1>1, EmissionsType DEF DevicesStay
    <1>2. ASSUME NEW p \in Ingests, NEW d \in Devices, Store(p, d)
          PROVE  DevicesStay
        <2>1. [dev |-> d, to |-> None] \in Row
            BY DEF Row
        <2>2. QED
            BY <1>2, <2>1, EmissionsType DEF DevicesStay, Store
    <1>3. ASSUME NEW p \in Ingests, Attach(p)
          PROVE  DevicesStay
        <2> DEFINE em == op[p].em
                   to == op[p].found
        <2>1. em \in 1..Len(emissions)
            BY <1>3 DEF BaseInv, ReadsArePast, Attach, At
        <2>2. CASE to \in IdsOf(table) /\ emissions[em].to # Deleted
            <3>1. to \in Ids
                BY <2>2 DEF IdsOf, BaseInv, TypeOK, Emitter
            <3>2. emissions' = [emissions EXCEPT ![em].to = to]
                BY <1>3, <2>2 DEF Attach
            <3>3. [emissions[em] EXCEPT !.to = to] \in Row /\ [emissions[em] EXCEPT !.to = to].dev = emissions[em].dev
                BY <2>1, <3>1, EmissionsType DEF Row
            <3> HIDE DEF em, to
            <3>4. emissions' = [m \in 1..Len(emissions) |->
                                  IF m = em THEN [emissions[em] EXCEPT !.to = to] ELSE emissions[m]]
                BY <2>1, <3>2, EmissionsType
            <3>5. QED
                BY <3>3, <3>4, EmissionsType, Reassigned
        <2>3. QED
            BY <1>1, <1>3, <2>2 DEF Attach
    <1>4. CASE Backfill
        <2>1. backfill \in Ids
            BY <1>4 DEF Backfill, BaseInv, TypeOK
        <2>2. \A m \in 1..Len(emissions) :
                 LET e == [emissions[m] EXCEPT !.to = backfill]
                 IN  e \in Row /\ e.dev = emissions[m].dev
            BY <2>1, EmissionsType DEF Row
        <2>3. QED
            BY <1>4, <2>2, EmissionsType, Reassigned DEF Backfill
    <1>5. ASSUME NEW gone, Delete(gone) \/ AgeOut(gone)
          PROVE  DevicesStay
        <2>1. \A m \in 1..Len(emissions), to \in {None, Deleted} :
                 LET e == [emissions[m] EXCEPT !.to = to]
                 IN  e \in Row /\ e.dev = emissions[m].dev
            BY EmissionsType DEF Row
        <2>2. QED
            BY <1>5, <2>1, EmissionsType, Reassigned DEF Delete, AgeOut
    <1>6. CASE (\E rule \in Stated : CreateEmitter(rule))
               \/ (\E e \in table : (\E rule \in Stated : SetRule(e, rule))
                                    \/ \E on \in BOOLEAN : SetEnabled(e, on))
        BY <1>1, <1>6 DEF CreateEmitter, SetRule, SetEnabled
    <1>7. CASE \E p \in Ingests : \/ ReadVersion(p) \/ Look(p) \/ Lock(p) \/ Reload(p)
                                  \/ Create(p) \/ Select(p) \/ NoteVersion(p) \/ Note(p)
        BY <1>1, <1>7 DEF ReadVersion, Look, Lock, Reload, Create, Select, NoteVersion, Note
    <1>8. CASE UNCHANGED emissions
        BY <1>1, <1>8
    <1>9. QED
        BY <1>2, <1>3, <1>4, <1>5, <1>6, <1>7, <1>8 DEF Next, Ingest, Operator, Finished, vars

\* Where an ingest is after a step of its own that leaves the tables alone: its emission
\* is in its place, and what it has read is past.
Placed(o) ==
    /\ o \in Op
    /\ o.stage # "idle" => o.em \in 1..Len(emissions')
    /\ o.stage \notin {"idle", "version"} => o.v \in 1..version'
    /\ o.stage \in {"note", "append"} => o.v < version' /\ o.found \in Ids
    /\ o.stage = "append" => o.n \in (o.v + 1)..version'

LockFollows == \A q \in Ingests : At(q, "list") <=> writer = q

\* The ingests and the lock after a step of one of them.
LEMMA IngestMoves ==
    ASSUME BaseInv, DevicesStay, NEW p \in Ingests, NEW o, Placed(o), op' = [op EXCEPT ![p] = o],
           version' \in Nat, version' >= version,
           o.stage = "list" <=> writer' = p,
           \A q \in Ingests \ {p} : writer' = q <=> writer = q
    PROVE  /\ op' \in [Ingests -> Op] /\ ReadsArePast' /\ LockFollows'
    <1>1. /\ op \in [Ingests -> Op] /\ version \in Nat /\ ReadsArePast /\ Len(emissions) \in Nat
          /\ \A q \in Ingests : op[q].stage = "list" <=> writer = q
        BY EmissionsType DEF BaseInv, TypeOK, At
    <1>2. op' \in [Ingests -> Op]
        BY <1>1 DEF Placed
    <1>3. op'[p] = o /\ \A q \in Ingests \ {p} : op'[q] = op[q]
        BY <1>1
    <1>4. LockFollows'
        BY <1>1, <1>3 DEF LockFollows, At
    <1>5. Len(emissions') \in Nat /\ Len(emissions') >= Len(emissions)
        BY DEF DevicesStay
    <1>6. ASSUME NEW q \in Ingests
          PROVE  /\ ~At(q, "idle")' => op'[q].em \in 1..Len(emissions')
                 /\ op'[q].stage \notin {"idle", "version"} => op'[q].v \in 1..version'
                 /\ op'[q].stage \in {"note", "append"} => op'[q].v < version' /\ op'[q].found \in Ids
                 /\ At(q, "append")' => op'[q].n \in (op'[q].v + 1)..version'
        <2>1. CASE q = p
            BY <1>3, <2>1 DEF Placed, At
        <2>2. CASE q # p
            <3>1. op'[q] = op[q] /\ op[q] \in Op
                BY <1>1, <1>3, <2>2
            <3>2. op[q].v \in Nat /\ op[q].n \in Nat /\ op[q].em \in Nat
                BY <3>1 DEF Op
            <3>3. QED
                BY <1>1, <1>5, <3>1, <3>2 DEF ReadsArePast, At
        <2>3. QED
            BY <2>1, <2>2
    <1>7. QED
        BY <1>1, <1>2, <1>4, <1>6 DEF ReadsArePast

\* A step that moves no ingest.
LEMMA OthersMove ==
    ASSUME BaseInv, DevicesStay, version' \in Nat, version' >= version, UNCHANGED <<op, writer>>
    PROVE  /\ op' \in [Ingests -> Op] /\ ReadsArePast' /\ LockFollows'
    <1>1. /\ op \in [Ingests -> Op] /\ version \in Nat /\ ReadsArePast /\ Len(emissions) \in Nat
          /\ \A q \in Ingests : op[q].stage = "list" <=> writer = q
        BY EmissionsType DEF BaseInv, TypeOK, At
    <1>2. Len(emissions') \in Nat /\ Len(emissions') >= Len(emissions)
        BY DEF DevicesStay
    <1>3. \A q \in Ingests : op[q].v \in Nat /\ op[q].n \in Nat /\ op[q].em \in Nat
        BY <1>1 DEF Op
    <1>4. ReadsArePast'
        BY <1>1, <1>2, <1>3 DEF ReadsArePast, At
    <1>5. QED
        BY <1>1, <1>4 DEF LockFollows, At

LEMMA FirstMatchType ==
    ASSUME NEW B, B \subseteq Emitter, NEW A, A \subseteq Emitter, NEW d
    PROVE  FirstMatch(B, A, d) \in Ids \cup {None}
    <1>1. ASSUME NEW S, S \subseteq Emitter, S # {}
          PROVE  Oldest(S).id \in Ids
        <2>1. \A e \in S : e.id \in Nat
            BY <1>1 DEF Emitter, Ids
        <2>2. Oldest(S) \in S
            BY <1>1, <2>1, OldestExists
        <2>3. QED
            BY <1>1, <2>2 DEF Emitter
    <1>2. Hits(B, d) \subseteq Emitter /\ Hits(A, d) \subseteq Emitter
        BY DEF Hits
    <1>3. QED
        BY <1>1, <1>2 DEF FirstMatch

\* What the other variables keep of their types.
StoreType ==
    /\ table \subseteq Emitter /\ version \in Nat /\ minted \in 0..MaxEmitters
    /\ index # None => /\ index \in Snapshot /\ index.version \in 1..version
                       /\ IsFiniteSet(index.appended) /\ Cardinality(index.appended) <= MaxAppended
    /\ backfill \in Ids \cup {None} /\ edits \in 0..MaxEdits
    /\ AgesInOrder

LEMMA BaseParts ==
    ASSUME DevicesStay, StoreType', op' \in [Ingests -> Op], ReadsArePast', LockFollows'
    PROVE  BaseInv'
    BY DEF LockFollows, BaseInv, TypeOK, StoreType, DevicesStay, Row

LEMMA BaseType ==
    ASSUME BaseInv
    PROVE  /\ StoreType /\ op \in [Ingests -> Op] /\ version \in Nat
           /\ \A q \in Ingests : op[q] \in Op /\ (op[q].stage = "list" <=> writer = q)
    BY DEF BaseInv, TypeOK, StoreType, At

\* The steps of an ingest that leave the tables and the snapshot alone.
LEMMA QuietSteps ==
    ASSUME BaseInv, DevicesStay, NEW p \in Ingests,
           \/ \E d \in Devices : Store(p, d)
           \/ ReadVersion(p) \/ Attach(p) \/ Select(p) \/ NoteVersion(p)
    PROVE  BaseInv'
    <1>1. UNCHANGED <<table, version, minted, index, writer, backfill, edits>>
        BY DEF Store, ReadVersion, Attach, Select, NoteVersion, rows, operator
    <1>2. op[p] \in Op /\ (op[p].stage = "list" <=> writer = p) /\ op \in [Ingests -> Op]
        BY BaseType
    <1>3. Len(emissions) \in Nat /\ Len(emissions') \in Nat /\ Len(emissions') >= Len(emissions)
        BY EmissionsType DEF DevicesStay
    <1>4. /\ op[p].stage # "idle" => op[p].em \in 1..Len(emissions')
          /\ op[p].stage \notin {"idle", "version"} => op[p].v \in 1..version'
          /\ op[p].stage \in {"note", "append"} => op[p].v < version' /\ op[p].found \in Ids
          /\ version' \in Nat /\ version' >= 1
        BY <1>1, <1>3, BaseType DEF BaseInv, ReadsArePast, At
    <1>5. Placed(Idle)
        BY IdleType DEF Placed
    <1>6. \E o : Placed(o) /\ op' = [op EXCEPT ![p] = o] /\ o.stage # "list" /\ op[p].stage # "list"
        <2>1. ASSUME NEW d \in Devices, Store(p, d)
              PROVE  \E o : Placed(o) /\ op' = [op EXCEPT ![p] = o] /\ o.stage # "list" /\ op[p].stage # "list"
            <3> DEFINE o == [Idle EXCEPT !.stage = "version", !.em = Len(emissions) + 1]
            <3>1. Len(emissions') = Len(emissions) + 1 /\ Len(emissions) < MaxEmissions
                BY <2>1, EmissionsType DEF Store
            <3>2. o \in Op /\ o.stage = "version" /\ o.em = Len(emissions) + 1
                <4>1. Len(emissions) + 1 \in 0..MaxEmissions
                    BY <1>3, <3>1, MatchingAssumption
                <4>2. QED
                    BY <4>1 DEF Idle, Op, Stages
            <3>3. Placed(o)
                BY <1>3, <3>1, <3>2 DEF Placed
            <3>4. QED
                BY <2>1, <3>2, <3>3 DEF Store, At
        <2>2. CASE ReadVersion(p)
            <3> DEFINE o == [op[p] EXCEPT !.stage = "look", !.v = version]
            <3>1. o \in Op /\ o.stage = "look" /\ o.v = version /\ o.em = op[p].em
                BY <1>2, BaseType DEF Op, Stages
            <3>2. Placed(o)
                BY <1>1, <1>4, <2>2, <3>1 DEF Placed, ReadVersion, At
            <3>3. op' = [op EXCEPT ![p] = o] /\ op[p].stage # "list"
                BY <1>2, <2>2 DEF ReadVersion, At
            <3>4. QED
                BY <3>1, <3>2, <3>3
        <2>3. CASE Attach(p)
            BY <1>5, <2>3, IdleType DEF Attach, Leave, At
        <2>4. CASE Select(p)
            <3>1. ASSUME NEW e \in table, op' = [op EXCEPT ![p].stage = "attach", ![p].found = e.id]
                  PROVE  \E o : Placed(o) /\ op' = [op EXCEPT ![p] = o] /\ o.stage # "list"
                <4> DEFINE o == [op[p] EXCEPT !.stage = "attach", !.found = e.id]
                <4>1. e.id \in Ids
                    BY BaseType DEF StoreType, Emitter
                <4>2. o \in Op /\ o.stage = "attach" /\ o.v = op[p].v /\ o.em = op[p].em
                    BY <1>2, <4>1 DEF Op, Stages
                <4>3. Placed(o)
                    BY <1>4, <2>4, <4>2 DEF Placed, Select, At
                <4>4. op' = [op EXCEPT ![p] = o]
                    BY <1>2, <3>1
                <4>5. QED
                    BY <4>2, <4>3, <4>4
            <3>2. QED
                BY <1>5, <2>4, <3>1, IdleType DEF Select, Leave, At
        <2>5. CASE NoteVersion(p)
            <3> DEFINE o == [op[p] EXCEPT !.stage = "append", !.n = version]
            <3>1. /\ o \in Op /\ o.stage = "append" /\ o.n = version /\ o.v = op[p].v
                  /\ o.em = op[p].em /\ o.found = op[p].found
                BY <1>2, BaseType DEF Op, Stages
            <3>2. Placed(o)
                BY <1>1, <1>4, <2>5, <3>1 DEF Placed, NoteVersion, At
            <3>3. op' = [op EXCEPT ![p] = o] /\ op[p].stage # "list"
                BY <1>2, <2>5 DEF NoteVersion, At
            <3>4. QED
                BY <3>1, <3>2, <3>3
        <2>6. QED
            BY <2>1, <2>2, <2>3, <2>4, <2>5
    <1>7. /\ op' \in [Ingests -> Op] /\ ReadsArePast' /\ LockFollows'
        <2>1. PICK o : Placed(o) /\ op' = [op EXCEPT ![p] = o] /\ o.stage # "list" /\ op[p].stage # "list"
            BY <1>6
        <2>2. version' \in Nat /\ version' >= version
            BY <1>1, <1>4
        <2>3. o.stage = "list" <=> writer' = p
            BY <1>1, <1>2, <2>1
        <2>4. \A q \in Ingests \ {p} : writer' = q <=> writer = q
            BY <1>1
        <2>5. QED
            BY <2>1, <2>2, <2>3, <2>4, IngestMoves
    <1>8. StoreType'
        BY <1>1, BaseType DEF StoreType, AgesInOrder
    <1>9. QED
        BY <1>7, <1>8, BaseParts

\* The steps that look at the snapshot.
LEMMA AnswerPlaced ==
    ASSUME BaseInv, NEW p \in Ingests, NEW snap \in Snapshot, snap.version \in 1..version,
           Answer(p, snap), version' = version, op[p].em \in 1..Len(emissions')
    PROVE  \E o : Placed(o) /\ op' = [op EXCEPT ![p] = o] /\ o.stage \in {"create", "attach"}
    <1> DEFINE m == FirstMatch(snap.base, snap.appended, Dev(p))
               s == IF m = None THEN "create" ELSE "attach"
               o == [op[p] EXCEPT !.stage = s, !.v = snap.version, !.found = m]
    <1>1. m \in Ids \cup {None}
        BY FirstMatchType DEF Snapshot
    <1>2. op[p] \in Op /\ op \in [Ingests -> Op] /\ snap.version \in Nat
        BY BaseType DEF Snapshot
    <1>3. op' = [op EXCEPT ![p] = o]
        BY <1>2 DEF Answer
    <1> HIDE DEF m
    <1>4. o \in Op /\ o.stage = s /\ o.v = snap.version /\ o.em = op[p].em
        BY <1>1, <1>2 DEF Op, Stages
    <1>5. Placed(o)
        BY <1>4 DEF Placed
    <1>6. QED
        BY <1>3, <1>4, <1>5

LEMMA LookSteps ==
    ASSUME BaseInv, DevicesStay, NEW p \in Ingests, Look(p) \/ Lock(p)
    PROVE  BaseInv'
    <1>1. UNCHANGED <<table, version, minted, index, backfill, edits>>
        BY DEF Look, Lock, rows, operator
    <1>2. op[p] \in Op /\ op \in [Ingests -> Op] /\ op[p].stage \in {"look", "wait"} /\ writer = None
        BY BaseType DEF Look, Lock, At
    <1>3. op[p].em \in 1..Len(emissions') /\ op[p].v \in 1..version
        BY <1>2, EmissionsType DEF BaseInv, ReadsArePast, At, DevicesStay
    <1>4. PICK o : /\ Placed(o) /\ op' = [op EXCEPT ![p] = o] /\ (o.stage = "list" <=> writer' = p)
                   /\ writer' \in {None, p}
        <2>1. CASE Current(p)
            <3>1. Answer(p, index) /\ writer' = None
                BY <1>2, <2>1 DEF Look, Lock
            <3>2. index \in Snapshot /\ index.version \in 1..version
                BY <2>1, BaseType DEF Current, StoreType
            <3>3. PICK o : Placed(o) /\ op' = [op EXCEPT ![p] = o] /\ o.stage \in {"create", "attach"}
                BY <1>1, <1>3, <3>1, <3>2, AnswerPlaced
            <3>4. QED
                BY <3>1, <3>3, MatchingAssumption
        <2>2. ASSUME NEW s \in {"wait", "list"}, Go(p, s), s = "list" <=> writer' = p, writer' \in {None, p}
              PROVE  \E o : /\ Placed(o) /\ op' = [op EXCEPT ![p] = o] /\ (o.stage = "list" <=> writer' = p)
                            /\ writer' \in {None, p}
            <3> DEFINE o == [op[p] EXCEPT !.stage = s]
            <3>1. o \in Op /\ o.stage = s /\ o.v = op[p].v /\ o.em = op[p].em
                BY <1>2 DEF Op, Stages
            <3>2. Placed(o)
                BY <1>1, <1>3, <3>1 DEF Placed
            <3>3. op' = [op EXCEPT ![p] = o]
                BY <1>2, <2>2 DEF Go
            <3>4. QED
                BY <2>2, <3>1, <3>2, <3>3
        <2>3. CASE ~Current(p)
            BY <1>2, <2>2, <2>3, MatchingAssumption DEF Look, Lock
        <2>4. QED
            BY <2>1, <2>3
    <1>5. \A q \in Ingests \ {p} : writer' = q <=> writer = q
        BY <1>2, <1>4, MatchingAssumption
    <1>6. /\ op' \in [Ingests -> Op] /\ ReadsArePast' /\ LockFollows'
        <2>1. version' \in Nat /\ version' >= version
            BY <1>1, BaseType
        <2>2. QED
            BY <1>4, <1>5, <2>1, IngestMoves
    <1>7. StoreType'
        BY <1>1, BaseType DEF StoreType, AgesInOrder
    <1>8. QED
        BY <1>6, <1>7, BaseParts

LEMMA ReloadStep ==
    ASSUME BaseInv, DevicesStay, NEW p \in Ingests, Reload(p)
    PROVE  BaseInv'
    <1>1. UNCHANGED <<table, version, minted, backfill, edits>> /\ writer' = None
        BY DEF Reload, rows, operator
    <1>2. op[p] \in Op /\ op \in [Ingests -> Op] /\ op[p].stage = "list" /\ writer = p
        BY BaseType DEF Reload, At
    <1>3. op[p].em \in 1..Len(emissions') /\ op[p].v \in 1..version
        BY <1>2, EmissionsType DEF BaseInv, ReadsArePast, At, DevicesStay
    <1>4. index' = [version |-> op[p].v, base |-> EnabledRules(table), appended |-> {}]
        BY DEF Reload
    <1>5. index' \in Snapshot /\ index'.version \in 1..version
        BY <1>2, <1>3, <1>4, BaseType DEF Snapshot, EnabledRules, StoreType, Op
    <1>6. PICK o : Placed(o) /\ op' = [op EXCEPT ![p] = o] /\ o.stage \in {"create", "attach"}
        BY <1>1, <1>3, <1>5, AnswerPlaced DEF Reload
    <1>7. /\ op' \in [Ingests -> Op] /\ ReadsArePast' /\ LockFollows'
        <2>1. version' \in Nat /\ version' >= version
            BY <1>1, BaseType
        <2>2. o.stage = "list" <=> writer' = p
            BY <1>1, <1>6, MatchingAssumption
        <2>3. \A q \in Ingests \ {p} : writer' = q <=> writer = q
            BY <1>1, <1>2, MatchingAssumption
        <2>4. QED
            BY <1>6, <2>1, <2>2, <2>3, IngestMoves
    <1>8. IsFiniteSet(index'.appended) /\ Cardinality(index'.appended) <= MaxAppended
        BY <1>4, FS_EmptySet, MatchingAssumption
    <1>9. StoreType'
        BY <1>1, <1>5, <1>8, BaseType DEF StoreType, AgesInOrder
    <1>10. QED
        BY <1>7, <1>9, BaseParts

LEMMA AppendedType ==
    ASSUME BaseInv, NEW p \in Ingests, At(p, "append") \/ At(p, "note")
    PROVE  /\ Appended(p) \in Emitter /\ Appended(p).id = op[p].found /\ Appended(p).on
           /\ Appended(p).rule = {Dev(p)} /\ Appended(p).key = Dev(p) /\ Dev(p) \in Devices
    <1>1. op[p].found \in Ids /\ op[p].em \in 1..Len(emissions)
        BY DEF BaseInv, ReadsArePast, At
    <1>2. Dev(p) \in Devices
        BY <1>1, EmissionsType DEF Dev, Row
    <1>3. QED
        BY <1>1, <1>2 DEF Appended, Emitter, Rule

LEMMA NoteStep ==
    ASSUME BaseInv, DevicesStay, NEW p \in Ingests, Note(p)
    PROVE  BaseInv'
    <1> DEFINE o == [op[p] EXCEPT !.stage = "attach", !.n = 0]
    <1>1. UNCHANGED <<table, version, minted, backfill, edits, writer>>
        BY DEF Note, rows, operator
    <1>2. op[p] \in Op /\ op \in [Ingests -> Op] /\ op[p].stage = "append" /\ writer # p
        BY BaseType DEF Note, At
    <1>3. /\ op[p].em \in 1..Len(emissions') /\ op[p].v \in 1..version /\ version \in Nat
          /\ op[p].n \in (op[p].v + 1)..version
        BY <1>2, EmissionsType, BaseType DEF BaseInv, ReadsArePast, At, DevicesStay
    <1>4. o \in Op /\ o.stage = "attach" /\ o.v = op[p].v /\ o.em = op[p].em
        BY <1>2 DEF Op, Stages
    <1>5. Placed(o)
        BY <1>1, <1>3, <1>4 DEF Placed
    <1>6. op' = [op EXCEPT ![p] = o]
        BY <1>2 DEF Note
    <1>7. /\ op' \in [Ingests -> Op] /\ ReadsArePast' /\ LockFollows'
        <2>1. version' \in Nat /\ version' >= version
            BY <1>1, BaseType
        <2>2. o.stage = "list" <=> writer' = p
            BY <1>1, <1>2, <1>4
        <2>3. \A q \in Ingests \ {p} : writer' = q <=> writer = q
            BY <1>1
        <2> HIDE DEF o
        <2>4. QED
            BY <1>5, <1>6, <2>1, <2>2, <2>3, IngestMoves
    <1>8. index' # None => /\ index' \in Snapshot /\ index'.version \in 1..version'
                           /\ IsFiniteSet(index'.appended)
                           /\ Cardinality(index'.appended) <= MaxAppended
        <2>1. CASE index' = index
            BY <1>1, <2>1, BaseType DEF StoreType
        <2>2. CASE /\ index # None /\ Cardinality(index.appended) < MaxAppended
                   /\ index' = [index EXCEPT !.version = op[p].n, !.appended = @ \cup {Appended(p)}]
            <3>1. /\ index \in Snapshot /\ IsFiniteSet(index.appended)
                  /\ Cardinality(index.appended) < MaxAppended
                BY <2>2, BaseType DEF StoreType
            <3>2. Appended(p) \in Emitter
                BY <1>2, AppendedType DEF At
            <3>3. /\ index' \in Snapshot /\ index'.version = op[p].n
                  /\ index'.appended = index.appended \cup {Appended(p)}
                BY <1>2, <2>2, <3>1, <3>2 DEF Snapshot, Op
            <3>4. IsFiniteSet(index'.appended)
                BY <3>1, <3>3, FS_AddElement
            <3>5. Cardinality(index'.appended) \in {Cardinality(index.appended), Cardinality(index.appended) + 1}
                BY <3>1, <3>3, FS_AddElement
            <3>6. Cardinality(index.appended) \in Nat
                BY <3>1, FS_CardinalityType
            <3>7. QED
                BY <1>1, <1>3, <3>1, <3>3, <3>4, <3>5, <3>6, MatchingAssumption
        <2>3. QED
            BY <2>1, <2>2 DEF Note
    <1>9. StoreType'
        BY <1>1, <1>8, BaseType DEF StoreType, AgesInOrder
    <1>10. QED
        BY <1>7, <1>9, BaseParts

\* The entry of an emitter that is created.
Entered(p) == [id |-> minted + 1, rule |-> {Dev(p)}, on |-> TRUE, key |-> Dev(p)]

\* An emitter is made, or found.
LEMMA CreateStep ==
    ASSUME BaseInv, DevicesStay, NEW p \in Ingests, Create(p)
    PROVE  BaseInv'
    <1>1. /\ UNCHANGED <<index, writer, backfill, edits, emissions>>
          /\ version' \in Nat /\ version' >= version
        BY BaseType DEF Create, rows, operator
    <1>2. op[p] \in Op /\ op \in [Ingests -> Op] /\ op[p].stage = "create" /\ writer # p
        BY BaseType DEF Create, At
    <1>3. /\ op[p].em \in 1..Len(emissions') /\ op[p].v \in 1..version /\ version \in Nat
          /\ Dev(p) \in Devices
        BY <1>2, EmissionsType, BaseType DEF BaseInv, ReadsArePast, At, DevicesStay, Dev, Row
    <1>4. PICK o : /\ Placed(o) /\ op' = [op EXCEPT ![p] = o] /\ o.stage # "list"
                   /\ StoreType'
        <2>1. CASE UNCHANGED rows
            <3>1. StoreType'
                BY <1>1, <2>1, BaseType DEF rows, StoreType, AgesInOrder
            <3>2. CASE Leave(p)
                BY <3>1, <3>2, IdleType DEF Leave, Placed
            <3>3. CASE Go(p, "select")
                <4> DEFINE o == [op[p] EXCEPT !.stage = "select"]
                <4>1. o \in Op /\ o.stage = "select" /\ o.v = op[p].v /\ o.em = op[p].em
                    BY <1>2 DEF Op, Stages
                <4>2. Placed(o)
                    BY <1>1, <1>3, <4>1 DEF Placed
                <4>3. op' = [op EXCEPT ![p] = o]
                    BY <1>2, <3>3 DEF Go
                <4>4. QED
                    BY <3>1, <4>1, <4>2, <4>3
            <3>4. CASE ~Leave(p) /\ ~Go(p, "select")
                <4>1. minted' = minted + 1
                    BY <3>4 DEF Create
                <4>2. QED
                    BY <2>1, <4>1, BaseType DEF rows, StoreType
            <3>5. QED
                BY <3>2, <3>3, <3>4
        <2>2. CASE /\ minted < MaxEmitters /\ minted' = minted + 1 /\ version' = version + 1
                   /\ table' = table \cup {[id |-> minted', rule |-> {Dev(p)}, on |-> TRUE,
                                            key |-> Dev(p)]}
                   /\ op' = [op EXCEPT ![p].stage = "note", ![p].found = minted']
            <3> DEFINE o == [op[p] EXCEPT !.stage = "note", !.found = minted']
            <3>1. minted' \in Ids /\ minted' \in 0..MaxEmitters /\ minted \in Nat
                BY <2>2, BaseType, MatchingAssumption DEF StoreType, Ids
            <3>2. o \in Op /\ o.stage = "note" /\ o.v = op[p].v /\ o.em = op[p].em /\ o.found = minted'
                BY <1>2, <3>1 DEF Op, Stages
            <3>3. Placed(o)
                BY <1>3, <2>2, <3>1, <3>2 DEF Placed
            <3>4. op' = [op EXCEPT ![p] = o]
                BY <1>2, <2>2
            <3>5. table' \subseteq Emitter
                <4>1. \A i \in Ids, d \in Devices :
                         [id |-> i, rule |-> {d}, on |-> TRUE, key |-> d] \in Emitter
                    BY DEF Emitter, Rule
                <4>2. table \subseteq Emitter
                    BY BaseType DEF StoreType
                <4>3. QED
                    BY <1>3, <2>2, <3>1, <4>1, <4>2
            <3>6. AgesInOrder'
                <4>1. \A e \in table : e.id <= minted /\ e.id \in Nat
                    BY BaseType DEF StoreType, AgesInOrder, Emitter, Ids
                <4>2. QED
                    BY <2>2, <3>1, <4>1 DEF AgesInOrder
            <3>7. StoreType'
                <4>1. index # None => index.version \in 1..version'
                    BY <1>3, <2>2, BaseType DEF StoreType
                <4>2. QED
                    BY <1>1, <3>1, <3>5, <3>6, <4>1, BaseType DEF StoreType
            <3>8. QED
                BY <3>2, <3>3, <3>4, <3>7
        <2>3. QED
            BY <2>1, <2>2 DEF Create
    <1>5. /\ op' \in [Ingests -> Op] /\ ReadsArePast' /\ LockFollows'
        <2>1. o.stage = "list" <=> writer' = p
            BY <1>1, <1>2, <1>4
        <2>2. \A q \in Ingests \ {p} : writer' = q <=> writer = q
            BY <1>1
        <2>3. QED
            BY <1>1, <1>4, <2>1, <2>2, IngestMoves
    <1>6. QED
        BY <1>4, <1>5, BaseParts

\* The operator's requests and the sweep.
LEMMA OperatorStep ==
    ASSUME BaseInv, DevicesStay, Operator
    PROVE  BaseInv'
    <1>1. UNCHANGED <<op, writer, index>>
        BY DEF Operator, Backfill, CreateEmitter, SetRule, SetEnabled, Delete, AgeOut
    <1>2. /\ table \subseteq Emitter /\ minted \in Nat /\ minted \in 0..MaxEmitters
          /\ version \in Nat /\ edits \in 0..MaxEdits
          /\ \A e \in table : e.id \in Ids /\ e.id <= minted
        BY BaseType, MatchingAssumption DEF StoreType, Emitter, AgesInOrder
    <1>3. Edit => version' \in Nat /\ version' >= version /\ edits' \in 0..MaxEdits
        BY <1>2, MatchingAssumption DEF Edit
    <1>4. \A e \in table, rule \in Stated :
             [e EXCEPT !.rule = rule] \in Emitter /\ [e EXCEPT !.rule = rule].id = e.id
        BY <1>2, MatchingAssumption DEF Emitter, Rule
    <1>5. /\ version' \in Nat /\ version' >= version /\ edits' \in 0..MaxEdits
          /\ minted' \in 0..MaxEmitters /\ table' \subseteq Emitter /\ AgesInOrder'
          /\ backfill' \in Ids \cup {None}
        <2>1. CASE Backfill
            BY <1>2, <2>1 DEF Backfill, rows, operator, AgesInOrder
        <2>2. ASSUME NEW rule \in Stated, CreateEmitter(rule)
              PROVE  /\ minted' \in 0..MaxEmitters /\ table' \subseteq Emitter /\ AgesInOrder'
                     /\ backfill' \in Ids \cup {None} /\ Edit
            <3>1. minted' \in Ids /\ minted' \in 0..MaxEmitters /\ minted' = minted + 1
                BY <1>2, <2>2, MatchingAssumption DEF CreateEmitter, Ids
            <3>2. [id |-> minted', rule |-> rule, on |-> TRUE, key |-> None] \in Emitter
                BY <3>1, MatchingAssumption DEF Emitter, Rule
            <3>3. table' = table \cup {[id |-> minted', rule |-> rule, on |-> TRUE, key |-> None]}
                  /\ backfill' = minted' /\ Edit
                BY <2>2 DEF CreateEmitter
            <3>4. AgesInOrder'
                BY <1>2, <3>1, <3>3 DEF AgesInOrder, Ids
            <3>5. QED
                BY <1>2, <3>1, <3>2, <3>3, <3>4
        <2>3. ASSUME NEW e \in table, NEW rule \in Stated, SetRule(e, rule)
              PROVE  /\ minted' \in 0..MaxEmitters /\ table' \subseteq Emitter /\ AgesInOrder'
                     /\ backfill' \in Ids \cup {None} /\ Edit
            BY <1>2, <1>4, <2>3 DEF SetRule, AgesInOrder
        <2>4. ASSUME NEW e \in table, NEW on \in BOOLEAN, SetEnabled(e, on)
              PROVE  /\ minted' \in 0..MaxEmitters /\ table' \subseteq Emitter /\ AgesInOrder'
                     /\ backfill' \in Ids \cup {None} /\ Edit
            <3> DEFINE f == [e EXCEPT !.on = on]
            <3>0. f \in Emitter /\ f.id = e.id
                BY <1>2, Zenon DEF Emitter
            <3>1. /\ table' = (table \ {e}) \cup {f} /\ Edit
                  /\ UNCHANGED <<minted, backfill>>
                BY <2>4 DEF SetEnabled
            <3> HIDE DEF f
            <3>2. table' \subseteq Emitter /\ AgesInOrder'
                BY <1>2, <3>0, <3>1 DEF AgesInOrder
            <3>3. QED
                BY <1>2, <3>1, <3>2, BaseType DEF StoreType
        <2>5. ASSUME NEW gone, Delete(gone) \/ AgeOut(gone)
              PROVE  /\ version' \in Nat /\ version' >= version /\ edits' \in 0..MaxEdits
                     /\ minted' \in 0..MaxEmitters /\ table' \subseteq Emitter /\ AgesInOrder'
                     /\ backfill' \in Ids \cup {None}
            <3>1. table' \subseteq table /\ UNCHANGED <<minted, backfill>>
                BY <2>5 DEF Delete, AgeOut
            <3>2. version' \in Nat /\ version' >= version /\ edits' \in 0..MaxEdits
                BY <1>2, <1>3, <2>5, MatchingAssumption DEF Delete, AgeOut
            <3>3. QED
                BY <1>2, <3>1, <3>2, BaseType DEF AgesInOrder, StoreType
        <2>6. QED
            BY <1>3, <2>1, <2>2, <2>3, <2>4, <2>5 DEF Operator
    <1>6. index' # None => /\ index' \in Snapshot /\ index'.version \in 1..version'
                           /\ IsFiniteSet(index'.appended)
                           /\ Cardinality(index'.appended) <= MaxAppended
        BY <1>1, <1>2, <1>5, BaseType DEF StoreType
    <1>7. StoreType'
        BY <1>5, <1>6 DEF StoreType
    <1>8. QED
        BY <1>1, <1>5, <1>7, OthersMove, BaseParts

LEMMA NextBase == BaseInv /\ [Next]_vars => BaseInv'
    <1> SUFFICES ASSUME BaseInv, [Next]_vars PROVE BaseInv'
        OBVIOUS
    <1>1. DevicesStay
        BY DevicesAreKept
    <1>2. ASSUME NEW p \in Ingests, Ingest(p)
          PROVE  BaseInv'
        BY <1>1, <1>2, QuietSteps, LookSteps, ReloadStep, NoteStep, CreateStep DEF Ingest
    <1>3. CASE Operator
        BY <1>1, <1>3, OperatorStep
    <1>4. CASE UNCHANGED <<rows, emissions, index, writer, op, operator>>
        <2>1. StoreType' /\ UNCHANGED <<op, writer>> /\ version' \in Nat /\ version' >= version
            BY <1>4, BaseType DEF StoreType, AgesInOrder, rows, operator
        <2>2. QED
            BY <1>1, <2>1, OthersMove, BaseParts
    <1>5. QED
        BY <1>2, <1>3, <1>4 DEF Next, Finished, vars, rows, operator

-----------------------------------------------------------------------------
(* What is pending. *)

LEMMA PendingType ==
    ASSUME BaseInv, NEW p \in Ingests, Pending(p)
    PROVE  /\ op[p].v \in 1..(version - 1) /\ op[p].v < version /\ op[p].v \in Nat /\ version \in Nat
           /\ op[p].found \in Ids /\ op[p].found \in Nat
           /\ Appended(p) \in Emitter /\ Appended(p).id = op[p].found /\ Appended(p).on
           /\ Appended(p).rule = {Dev(p)} /\ Appended(p).key = Dev(p) /\ Dev(p) \in Devices
    <1>1. At(p, "append") \/ At(p, "note")
        BY DEF Pending
    <1>2. op[p].v \in 1..version /\ op[p].v < version /\ op[p].found \in Ids
        BY <1>1 DEF BaseInv, ReadsArePast, At
    <1>3. QED
        BY <1>1, <1>2, BaseType, AppendedType DEF Ids

\* p is as pending as it was.
Still(p) == Pending(p) /\ op'[p].v = op[p].v /\ op'[p].found = op[p].found /\ Dev(p)' = Dev(p)

FewerPending == \A p \in Ingests : Pending(p)' => Still(p)

LEMMA StillAppended ==
    ASSUME NEW p \in Ingests, Still(p)
    PROVE  Appended(p)' = Appended(p)
    BY DEF Still, Appended

\* No creation more is pending, and no step of the version is taken.
LEMMA FewerParts ==
    ASSUME BaseInv, LagInv, FewerPending, UNCHANGED <<table, version, minted>>
    PROVE  /\ PendingInOrder' /\ PendingIsListed'
           /\ \A w : Accounted(w)' => Accounted(w)
    <1>1. PendingInOrder'
        BY DEF LagInv, PendingInOrder, FewerPending, Still
    <1>2. ASSUME NEW w, Accounted(w)'
          PROVE  Accounted(w)
        BY <1>2 DEF Accounted, FewerPending, Still
    <1>3. ASSUME NEW p \in Ingests, Pending(p)', Accounted(op[p].v)'
          PROVE  Appended(p)' \in EnabledRules(table')
        <2>1. Still(p)
            BY <1>3 DEF FewerPending
        <2>2. Accounted(op[p].v)
            <3>1. \A u \in op'[p].v..(version' - 1) : \E q \in Ingests : Pending(q)' /\ op'[q].v = u
                BY <1>3 DEF Accounted
            <3>2. QED
                BY <2>1, <3>1 DEF Accounted, FewerPending, Still
        <2>3. Appended(p) \in EnabledRules(table)
            BY <2>1, <2>2 DEF LagInv, PendingIsListed, Still
        <2>4. QED
            BY <2>1, <2>3, StillAppended DEF EnabledRules
    <1>4. PendingIsListed'
        BY <1>3 DEF PendingIsListed
    <1>5. QED
        BY <1>1, <1>2, <1>4

\* A pending creation that an account still needs is still there.
LEMMA NeededIsStillPending ==
    ASSUME BaseInv, LagInv, FewerPending, version' = version,
           NEW w, Accounted(w)', NEW p \in Ingests, Pending(p), op[p].v >= w, w \in Nat
    PROVE  Pending(p)'
    <1>1. op[p].v \in w..(version' - 1)
        BY PendingType
    <1>2. PICK q \in Ingests : Pending(q)' /\ op'[q].v = op[p].v
        BY <1>1 DEF Accounted
    <1>3. Pending(q) /\ op[q].v = op[p].v
        BY <1>2 DEF FewerPending, Still
    <1>4. QED
        BY <1>2, <1>3 DEF LagInv, PendingInOrder

-----------------------------------------------------------------------------
(* Snapshots and what is pending. *)

\* What is known of a device by a snapshot that is accounted for.
Right(w, base, appended, d) ==
    LET known == Hits(base, d) # {} \/ Hits(appended, d) # {}
    IN  /\ known => /\ Matched(d) # {}
                    /\ FirstMatch(base, appended, d) = FirstMatch(EnabledRules(table), {}, d)
        /\ ~known => /\ \A p \in PendingFor(w, d) : Matched(d) = {Appended(p)}
                     /\ PendingFor(w, d) = {} => Matched(d) = {}

LEMMA ExactIsRight ==
    ExactButPending <=>
        (index # None /\ Accounted(index.version) =>
            \A d \in Devices : Right(index.version, index.base, index.appended, d))
    BY DEF ExactButPending, Right, Known

LEMMA StaysExactNext ==
    ASSUME index' # None /\ Accounted(index.version)' =>
               \A d \in Devices : Right(index.version, index.base, index.appended, d)'
    PROVE  ExactButPending'
    BY DEF ExactButPending, Right, Known

\* A snapshot stays right, and so do the rules, when less is pending.
LEMMA FewerLag ==
    ASSUME BaseInv, LagInv, FewerPending, UNCHANGED <<table, version, minted, index>>
    PROVE  LagInv'
    <1>1. AppendedIsOlder'
        BY DEF LagInv, AppendedIsOlder, FewerPending, Still
    <1>2. ASSUME index # None, Accounted(index.version)', NEW d \in Devices
          PROVE  Right(index.version, index.base, index.appended, d)'
        <2> DEFINE w == index.version
        <2>1. Accounted(w) /\ w \in Nat
            BY <1>2, FewerParts, BaseType DEF StoreType, Accounted
        <2>2. Right(w, index.base, index.appended, d)
            BY <1>2, <2>1, ExactIsRight DEF LagInv
        <2>3. Matched(d)' = Matched(d) /\ EnabledRules(table') = EnabledRules(table)
            BY DEF Matched, EnabledRules
        <2>4. ASSUME NEW p \in PendingFor(w, d)'
              PROVE  p \in PendingFor(w, d) /\ Appended(p)' = Appended(p)
            BY <2>4, StillAppended DEF PendingFor, FewerPending, Still
        <2>5. ASSUME NEW p \in PendingFor(w, d)
              PROVE  p \in PendingFor(w, d)'
            <3>1. p \in Ingests /\ Pending(p) /\ op[p].v >= w /\ Dev(p) = d
                BY <2>5 DEF PendingFor
            <3>2. Pending(p)'
                BY <1>2, <2>1, <3>1, NeededIsStillPending
            <3>3. Still(p)
                BY <3>1, <3>2 DEF FewerPending
            <3>4. QED
                BY <3>1, <3>2, <3>3 DEF PendingFor, Still
        <2>6. QED
            BY <2>2, <2>3, <2>4, <2>5 DEF Right
    <1>3. QED
        BY <1>1, <1>2, FewerParts, StaysExactNext DEF LagInv

\* A step of the version that no pending creation took leaves every snapshot behind for
\* good.
LEMMA UnaccountedLag ==
    ASSUME BaseInv, LagInv, FewerPending, version' = version + 1, UNCHANGED index,
           minted' \in Nat, minted' >= minted
    PROVE  LagInv'
    <1>1. minted \in Nat /\ version \in Nat
        BY BaseType DEF StoreType
    <1>2. PendingInOrder'
        <2>1. \A p \in Ingests : Pending(p)' => op'[p].found = op[p].found /\ op[p].found \in Nat
            BY PendingType DEF FewerPending, Still
        <2>2. QED
            BY <1>1, <2>1 DEF LagInv, PendingInOrder, FewerPending, Still
    <1>3. AppendedIsOlder'
        <2>1. \A e \in index.appended : index # None => e.id \in Nat
            BY BaseType DEF StoreType, Snapshot, Emitter, Ids
        <2>2. QED
            BY <1>1, <2>1 DEF LagInv, AppendedIsOlder, FewerPending, Still
    <1>4. ASSUME NEW w \in Nat, w <= version, Accounted(w)'
          PROVE  FALSE
        <2>1. version \in w..(version' - 1)
            BY <1>1, <1>4
        <2>2. PICK p \in Ingests : Pending(p)' /\ op'[p].v = version
            BY <1>4, <2>1 DEF Accounted
        <2>3. Pending(p) /\ op[p].v = version
            BY <2>2 DEF FewerPending, Still
        <2>4. QED
            BY <2>3, PendingType
    <1>5. PendingIsListed'
        <2>1. ASSUME NEW p \in Ingests, Pending(p)', Accounted(op[p].v)'
              PROVE  FALSE
            <3>1. op'[p].v \in Nat /\ op'[p].v <= version
                BY <1>1, <2>1, PendingType DEF FewerPending, Still
            <3>2. \A u \in op'[p].v..(version' - 1) : \E q \in Ingests : Pending(q)' /\ op'[q].v = u
                BY <2>1 DEF Accounted
            <3>3. PICK v : v = op'[p].v
                OBVIOUS
            <3>4. Accounted(v)'
                BY <3>2, <3>3 DEF Accounted
            <3>5. QED
                BY <1>4, <3>1, <3>3, <3>4
        <2>2. QED
            BY <2>1 DEF PendingIsListed
    <1>6. ExactButPending'
        <2>1. index # None => index.version \in Nat /\ index.version <= version
            BY <1>1, BaseType DEF StoreType
        <2>2. QED
            BY <1>4, <2>1 DEF ExactButPending, Accounted
    <1>7. QED
        BY <1>2, <1>3, <1>5, <1>6 DEF LagInv

\* A reload: what is listed is right, whatever version it is kept under.
LEMMA ReloadLag ==
    ASSUME BaseInv, LagInv, FewerPending, UNCHANGED <<table, version, minted>>,
           NEW v \in Nat,
           index' = [version |-> v, base |-> EnabledRules(table), appended |-> {}]
    PROVE  LagInv'
    <1>1. AppendedIsOlder'
        BY DEF AppendedIsOlder
    <1>2. ASSUME Accounted(index.version)', NEW d \in Devices
          PROVE  Right(index.version, index.base, index.appended, d)'
        <2>1. index'.version = v /\ index'.base = EnabledRules(table') /\ index'.appended = {}
            BY DEF EnabledRules
        <2>2. Hits(index'.base, d) = Matched(d)' /\ Hits(index'.appended, d) = {}
            BY <2>1 DEF Matched, Hits
        <2>3. CASE Matched(d)' # {}
            BY <2>1, <2>2, <2>3 DEF Right
        <2>4. CASE Matched(d)' = {}
            <3>1. ASSUME NEW p \in Ingests, Pending(p)', op'[p].v >= v, Dev(p)' = d
                  PROVE  FALSE
                <4>1. Still(p)
                    BY <3>1 DEF FewerPending
                <4>2. op[p].v >= v /\ op[p].v \in Nat /\ version \in Nat
                    BY <3>1, <4>1, PendingType DEF Still
                <4>3. Accounted(v)'
                    BY <1>2, <2>1 DEF Accounted
                <4>4. Accounted(v)
                    BY <4>3, FewerParts
                <4>5. Accounted(op[p].v)
                    BY <4>2, <4>4 DEF Accounted
                <4>6. Appended(p) \in EnabledRules(table) /\ d \in Appended(p).rule
                    BY <3>1, <4>1, <4>5, PendingType DEF LagInv, PendingIsListed, Still
                <4>7. QED
                    BY <2>4, <4>6 DEF Matched, Hits, EnabledRules
            <3>2. PendingFor(index.version, d)' = {}
                BY <2>1, <3>1 DEF PendingFor
            <3>3. QED
                BY <2>2, <2>4, <3>2 DEF Right
        <2>5. QED
            BY <2>3, <2>4
    <1>3. QED
        BY <1>1, <1>2, FewerParts, StaysExactNext DEF LagInv

\* A creation right after the version that p has answered from.
LEMMA CreatedLag ==
    ASSUME BaseInv, LagInv, NEW r \in Ingests, UNCHANGED index,
           \A p \in Ingests \ {r} : Pending(p)' => Still(p),
           ~KeyTaken(Dev(r)), op[r].v = version, version' = version + 1, minted' = minted + 1,
           table' = table \cup {Entered(r)},
           op'[r].v = op[r].v, op'[r].found = minted + 1, Dev(r)' = Dev(r), Dev(r) \in Devices,
           ~Pending(r), Pending(r)'
    PROVE  LagInv'
    <1>1. /\ minted \in Nat /\ version \in Nat /\ table \subseteq Emitter
          /\ \A e \in table : e.id \in Nat /\ e.id <= minted
        BY BaseType DEF StoreType, AgesInOrder, Emitter, Ids
    <1>2. Appended(r)' = Entered(r) /\ Entered(r).id = minted + 1 /\ Entered(r).on
          /\ Entered(r).rule = {Dev(r)}
        BY DEF Appended, Entered
    <1>3. \A p \in Ingests \ {r} : Pending(p)' =>
             /\ Pending(p) /\ op'[p].v = op[p].v /\ op'[p].found = op[p].found
             /\ op[p].v \in Nat /\ op[p].v < version /\ op[p].found \in Nat
             /\ Dev(p)' = Dev(p) /\ Appended(p)' = Appended(p)
        BY PendingType, StillAppended DEF Still
    <1>4. PendingInOrder'
        BY <1>1, <1>3 DEF LagInv, PendingInOrder
    <1>5. AppendedIsOlder'
        <2>1. index # None => \A e \in index.appended : e.id \in Nat /\ e.id <= minted
            BY BaseType DEF StoreType, Snapshot, Emitter, Ids, LagInv, AppendedIsOlder
        <2>2. QED
            BY <1>1, <1>3, <2>1 DEF LagInv, AppendedIsOlder
    <1>6. ASSUME NEW w \in Nat, \A u \in w..(version' - 1) : \E p \in Ingests : Pending(p)' /\ op'[p].v = u
          PROVE  Accounted(w)
        <2>1. \A u \in w..(version - 1) : u \in w..(version' - 1) /\ u # version
            BY <1>1
        <2>2. QED
            BY <1>3, <1>6, <2>1 DEF Accounted
    <1>7. EnabledRules(table') = EnabledRules(table) \cup {Entered(r)}
        BY <1>2 DEF EnabledRules
    <1>8. PendingIsListed'
        <2>1. ASSUME NEW p \in Ingests, Pending(p)', Accounted(op[p].v)'
              PROVE  Appended(p)' \in EnabledRules(table')
            <3>1. CASE p = r
                BY <1>2, <1>7, <3>1
            <3>2. CASE p # r
                <4>1. \A u \in op'[p].v..(version' - 1) : \E q \in Ingests : Pending(q)' /\ op'[q].v = u
                    BY <2>1 DEF Accounted
                <4>2. Accounted(op[p].v)
                    BY <1>3, <1>6, <2>1, <3>2, <4>1
                <4>3. QED
                    BY <1>3, <1>7, <2>1, <3>2, <4>2 DEF LagInv, PendingIsListed
            <3>3. QED
                BY <3>1, <3>2
        <2>2. QED
            BY <2>1 DEF PendingIsListed, EnabledRules
    <1>9. ASSUME index' # None, Accounted(index.version)', NEW d \in Devices
          PROVE  Right(index.version, index.base, index.appended, d)'
        <2> DEFINE w == index.version
                   known == Hits(index.base, d) # {} \/ Hits(index.appended, d) # {}
        <2>1. w \in Nat /\ w <= version
            BY <1>1, <1>9, BaseType DEF StoreType
        <2>2. \A u \in w..(version' - 1) : \E p \in Ingests : Pending(p)' /\ op'[p].v = u
            BY <1>9 DEF Accounted
        <2>3. Accounted(w)
            BY <1>6, <2>1, <2>2
        <2>4. Right(w, index.base, index.appended, d)
            BY <1>9, <2>3, ExactIsRight DEF LagInv
        <2>5. Matched(d)' = Matched(d) \cup (IF d = Dev(r) THEN {Entered(r)} ELSE {})
            BY <1>2, <1>7 DEF Matched, Hits
        <2>6. \A p \in PendingFor(w, d) : Matched(d) = {Appended(p)} => d # Dev(r)
            <3>1. \A p \in PendingFor(w, d) : Appended(p).key = d
                BY PendingType DEF PendingFor
            <3>2. QED
                BY <3>1 DEF Matched, Hits, EnabledRules, KeyTaken
        <2>7. CASE known
            <3>1. Matched(d) # {} /\ FirstMatch(index.base, index.appended, d) = FirstMatch(EnabledRules(table), {}, d)
                BY <2>4, <2>7 DEF Right
            <3>2. \A e \in Matched(d) : e.id \in Nat /\ e.id < minted + 1
                BY <1>1 DEF Matched, Hits, EnabledRules
            <3>3. Oldest(Matched(d)') = Oldest(Matched(d))
                <4> DEFINE S == Matched(d)
                           e == Entered(r)
                <4>1. PICK x : x \in S
                    BY <3>1
                <4>2. e.id \in Nat /\ \A y \in S : y.id \in Nat /\ y.id < e.id
                    BY <1>1, <1>2, <3>2
                <4> HIDE DEF S, e
                <4>3. Oldest(S \cup {e}) = Oldest(S)
                    BY <4>1, <4>2, OldestStays
                <4>4. QED
                    BY <2>5, <4>3 DEF S, e
            <3>4. FirstMatch(EnabledRules(table'), {}, d) = FirstMatch(EnabledRules(table), {}, d)
                BY <2>5, <3>1, <3>3 DEF FirstMatch, Matched
            <3>5. QED
                BY <2>5, <2>7, <3>1, <3>4 DEF Right
        <2>8. CASE ~known
            <3>1. /\ \A p \in PendingFor(w, d) : Matched(d) = {Appended(p)}
                  /\ PendingFor(w, d) = {} => Matched(d) = {}
                BY <2>4, <2>8 DEF Right
            <3>2. \A p \in Ingests \ {r} : p \in PendingFor(w, d)' => p \in PendingFor(w, d)
                BY <1>3 DEF PendingFor
            <3>3. r \notin PendingFor(w, d)
                BY DEF PendingFor
            <3>4. ASSUME NEW p \in PendingFor(w, d)'
                  PROVE  Matched(d)' = {Appended(p)'}
                <4>1. CASE p = r
                    BY <1>2, <2>5, <2>6, <3>1, <3>4, <4>1 DEF PendingFor
                <4>2. CASE p # r
                    BY <1>3, <2>5, <2>6, <3>1, <3>2, <3>4, <4>2 DEF PendingFor
                <4>3. QED
                    BY <4>1, <4>2
            <3>5. ASSUME PendingFor(w, d)' = {}
                  PROVE  Matched(d)' = {}
                <4>1. ASSUME NEW p \in PendingFor(w, d)
                      PROVE  FALSE
                    <5>1. Pending(p) /\ op[p].v >= w /\ Dev(p) = d /\ p \in Ingests
                        BY <4>1 DEF PendingFor
                    <5>2. op[p].v \in w..(version' - 1) /\ op[p].v < version
                        BY <1>1, <2>1, <5>1, PendingType
                    <5>3. PICK q \in Ingests : Pending(q)' /\ op'[q].v = op[p].v
                        BY <2>2, <5>2
                    <5>4. q # r /\ Pending(q) /\ op[q].v = op[p].v /\ Dev(q)' = Dev(q)
                        BY <1>1, <1>3, <5>2, <5>3
                    <5>5. q = p
                        BY <5>1, <5>4 DEF LagInv, PendingInOrder
                    <5>6. QED
                        BY <3>5, <5>1, <5>3, <5>4, <5>5 DEF PendingFor
                <4>2. d # Dev(r)
                    BY <1>1, <2>1, <3>5 DEF PendingFor
                <4>3. QED
                    BY <2>5, <3>1, <4>1, <4>2
            <3>6. QED
                BY <2>8, <3>4, <3>5 DEF Right
        <2>9. QED
            BY <2>7, <2>8
    <1>10. QED
        BY <1>4, <1>5, <1>8, <1>9, StaysExactNext DEF LagInv

\* An append: what the snapshot gains is what was pending next.
LEMMA NoteLag ==
    ASSUME BaseInv, LagInv, UNCHANGED <<table, version, minted>>, NEW q \in Ingests,
           Pending(q), index # None, index.version = op[q].v,
           index' = [index EXCEPT !.version = op[q].v + 1, !.appended = @ \cup {Appended(q)}],
           ~Pending(q)',
           \A p \in Ingests \ {q} : (Pending(p)' <=> Pending(p)) /\ (Pending(p) => Still(p))
    PROVE  LagInv'
    <1> DEFINE w == op[q].v
    <1>0. FewerPending
        BY DEF FewerPending
    <1>1. /\ index \in Snapshot /\ w \in Nat /\ minted \in Nat
          /\ op[q].found \in Nat /\ op[q].found <= minted /\ Appended(q).id = op[q].found
          /\ Appended(q).rule = {Dev(q)}
        BY BaseType, PendingType DEF StoreType, LagInv, PendingInOrder
    <1>2. /\ index'.version = w + 1 /\ index'.base = index.base
          /\ index'.appended = index.appended \cup {Appended(q)}
        BY <1>1 DEF Snapshot
    <1>3. \A p \in Ingests : Pending(p)' => /\ Pending(p) /\ op'[p].v = op[p].v /\ p # q
                                            /\ op[p].v \in Nat /\ op'[p].found = op[p].found
        BY PendingType DEF Still
    <1>4. \A e \in index.appended : e.id \in Nat /\ e.id <= minted /\ e.id < op[q].found
        <2>1. \A e \in index.appended : e.id \in Nat
            BY <1>1 DEF Snapshot, Emitter, Ids
        <2>2. QED
            BY <1>1, <2>1 DEF LagInv, AppendedIsOlder
    <1>5. AppendedIsOlder'
        <2>1. ASSUME NEW e \in index'.appended
              PROVE  /\ e.id <= minted
                     /\ \A p \in Ingests : Pending(p)' /\ op'[p].v >= w + 1 => e.id < op'[p].found
            <3>1. CASE e \in index.appended
                BY <1>1, <1>3, <1>4, <3>1 DEF LagInv, AppendedIsOlder
            <3>2. CASE e = Appended(q)
                BY <1>1, <1>3, <3>2 DEF LagInv, PendingInOrder
            <3>3. QED
                BY <1>2, <2>1, <3>1, <3>2
        <2>2. QED
            BY <1>2, <2>1 DEF AppendedIsOlder
    <1>6. ASSUME Accounted(index.version)', NEW d \in Devices
          PROVE  Right(index.version, index.base, index.appended, d)'
        <2> DEFINE known == Hits(index.base, d) # {} \/ Hits(index.appended, d) # {}
                   later == Hits(index'.base, d) # {} \/ Hits(index'.appended, d) # {}
        <2>1. Accounted(w)
            <3>1. \A u \in (w + 1)..(version - 1) : \E p \in Ingests : Pending(p)' /\ op'[p].v = u
                BY <1>2, <1>6 DEF Accounted
            <3>2. \A u \in w..(version - 1) : u = w \/ u \in (w + 1)..(version - 1)
                BY <1>1, BaseType
            <3>3. QED
                BY <1>3, <3>1, <3>2 DEF Accounted
        <2>2. Right(w, index.base, index.appended, d)
            BY <2>1, ExactIsRight DEF LagInv
        <2>3. Matched(d)' = Matched(d) /\ EnabledRules(table') = EnabledRules(table)
            BY DEF Matched, EnabledRules
        <2>4. /\ later <=> known \/ d = Dev(q)
              /\ known => FirstMatch(index'.base, index'.appended, d)
                          = FirstMatch(index.base, index.appended, d)
              /\ ~known /\ d = Dev(q) =>
                    FirstMatch(index'.base, index'.appended, d) = op[q].found
            <3>0. PICK A, B, e : A = index.appended /\ B = index.base /\ e = Appended(q)
                OBVIOUS
            <3>1. e.id \in Nat /\ (\A x \in A : x.id \in Nat /\ x.id < e.id) /\ (d \in e.rule <=> d = Dev(q))
                BY <1>1, <1>4, <3>0
            <3>2. index'.base = B /\ index'.appended = A \cup {e} /\ e.id = op[q].found
                BY <1>1, <1>2, <3>0
            <3>3. /\ Hits(A \cup {e}, d) # {} <=> Hits(A, d) # {} \/ d \in e.rule
                  /\ Hits(B, d) # {} \/ Hits(A, d) # {} =>
                        FirstMatch(B, A \cup {e}, d) = FirstMatch(B, A, d)
                  /\ Hits(B, d) = {} /\ Hits(A, d) = {} /\ d \in e.rule =>
                        FirstMatch(B, A \cup {e}, d) = e.id
                <4>1. e.id \in Nat
                    BY <3>1
                <4>2. \A x \in A : x.id \in Nat /\ x.id < e.id
                    BY <3>1
                <4>3. /\ Hits(A \cup {e}, d) = Hits(A, d) \cup (IF d \in e.rule THEN {e} ELSE {})
                      /\ Hits(A, d) # {} => Oldest(Hits(A \cup {e}, d)) = Oldest(Hits(A, d))
                      /\ Hits(A, d) = {} /\ d \in e.rule => Oldest(Hits(A \cup {e}, d)) = e
                    BY ONLY <4>1, <4>2, AppendMatches
                <4>4. QED
                    BY <4>3 DEF FirstMatch
            <3>4. known <=> Hits(B, d) # {} \/ Hits(A, d) # {}
                BY <3>0
            <3>5. FirstMatch(index.base, index.appended, d) = FirstMatch(B, A, d)
                BY <3>0
            <3>6. QED
                BY <3>1, <3>2, <3>3, <3>4, <3>5
        <2>5. CASE known
            BY <2>2, <2>3, <2>4, <2>5 DEF Right
        <2>6. CASE ~known /\ d = Dev(q)
            <3>1. q \in PendingFor(w, d)
                BY <1>1, <2>6 DEF PendingFor
            <3>2. Matched(d) = {Appended(q)}
                BY <2>2, <2>6, <3>1 DEF Right
            <3>3. FirstMatch(EnabledRules(table), {}, d) = op[q].found
                BY <1>1, <3>2, OldestOfOne DEF FirstMatch, Matched
            <3>4. QED
                BY <2>3, <2>4, <2>6, <3>2, <3>3 DEF Right
        <2>7. CASE ~known /\ d # Dev(q)
            <3>1. /\ \A p \in PendingFor(w, d) : Matched(d) = {Appended(p)}
                  /\ PendingFor(w, d) = {} => Matched(d) = {}
                BY <2>2, <2>7 DEF Right
            <3>2. ASSUME NEW p \in Ingests
                  PROVE  p \in PendingFor(index.version, d)' <=> p \in PendingFor(w, d)
                <4>1. CASE p = q
                    BY <2>7, <4>1 DEF PendingFor
                <4>2. CASE p # q
                    <5>1. Pending(p) => op[p].v # w /\ op[p].v \in Nat
                        BY <4>2, PendingType DEF LagInv, PendingInOrder
                    <5>2. Pending(p)' <=> Pending(p)
                        BY <4>2
                    <5>3. Pending(p) => Dev(p)' = Dev(p) /\ op'[p].v = op[p].v
                        BY <4>2 DEF Still
                    <5>4. QED
                        BY <1>1, <1>2, <5>1, <5>2, <5>3 DEF PendingFor
                <4>3. QED
                    BY <4>1, <4>2
            <3>3. PendingFor(index.version, d)' = PendingFor(w, d)
                BY <3>2 DEF PendingFor
            <3>4. \A p \in PendingFor(index.version, d)' : Appended(p)' = Appended(p)
                BY <1>0, StillAppended DEF PendingFor, FewerPending
            <3>5. QED
                BY <2>3, <2>4, <2>7, <3>1, <3>3, <3>4 DEF Right
        <2>8. QED
            BY <2>5, <2>6, <2>7
    <1>7. QED
        BY <1>0, <1>5, <1>6, FewerParts, StaysExactNext DEF LagInv

-----------------------------------------------------------------------------
(* The invariant is inductive. *)

LEMMA InitLag == Init => LagInv
    <1> SUFFICES ASSUME Init PROVE LagInv
        OBVIOUS
    <1>1. \A p \in Ingests : ~Pending(p)
        BY IdleType DEF Init, Pending, At
    <1>2. QED
        BY <1>1 DEF Init, LagInv, PendingInOrder, AppendedIsOlder, PendingIsListed, ExactButPending

\* Ingests that do not move.
LEMMA OthersPending ==
    ASSUME BaseInv, DevicesStay, NEW p \in Ingests, op'[p] = op[p],
           version' = version \/ version' = version + 1
    PROVE  /\ Pending(p)' => Still(p)
           /\ version' = version => (Pending(p)' <=> Pending(p)) /\ (Pending(p) => Still(p))
    <1>1. /\ version \in Nat /\ op[p].v \in Nat
          /\ op[p].stage \in {"note", "append"} =>
                op[p].v < version /\ op[p].em \in 1..Len(emissions)
        BY BaseType DEF BaseInv, ReadsArePast, At, Op
    <1>2. op[p].em \in 1..Len(emissions) => Dev(p)' = Dev(p)
        BY DEF DevicesStay, Dev
    <1>3. Pending(p)' => Pending(p)
        BY <1>1 DEF Pending, At
    <1>4. version' = version => (Pending(p)' <=> Pending(p))
        BY DEF Pending, At
    <1>5. Pending(p) => op[p].em \in 1..Len(emissions)
        BY <1>1 DEF Pending, At
    <1>6. QED
        BY <1>2, <1>3, <1>4, <1>5 DEF Still

\* An ingest moves to where nothing is pending of it, or reads the version to note.
LEMMA MovePending ==
    ASSUME BaseInv, DevicesStay, NEW p \in Ingests, version' = version \/ version' = version + 1,
           \A q \in Ingests \ {p} : op'[q] = op[q], Pending(p)' => Still(p)
    PROVE  FewerPending
    BY OthersPending DEF FewerPending

LEMMA NotPending ==
    ASSUME NEW p \in Ingests, op'[p].stage \notin {"note", "append"}
    PROVE  ~Pending(p)'
    BY DEF Pending, At

LEMMA QuietPending ==
    ASSUME BaseInv, DevicesStay, NEW p \in Ingests,
           \/ \E d \in Devices : Store(p, d)
           \/ ReadVersion(p) \/ Look(p) \/ Lock(p) \/ Attach(p) \/ Select(p) \/ NoteVersion(p)
    PROVE  /\ \A q \in Ingests \ {p} : op'[q] = op[q]
           /\ Pending(p)' => Still(p)
    <1>1. op \in [Ingests -> Op] /\ op[p] \in Op
        BY BaseType
    <1>2. \A q \in Ingests \ {p} : op'[q] = op[q]
        BY <1>1 DEF Store, ReadVersion, Look, Lock, Attach, Select, NoteVersion, Go, Leave, Answer
    <1>3. Pending(p)' => Still(p)
        <2>1. CASE NoteVersion(p)
            <3>1. /\ op[p].stage = "note" /\ op'[p].stage = "append" /\ op'[p].n = version
                  /\ op'[p].v = op[p].v /\ op'[p].found = op[p].found /\ op'[p].em = op[p].em
                BY <1>1, <2>1 DEF NoteVersion, At, Op
            <3>2. op[p].em \in 1..Len(emissions)
                BY <3>1 DEF BaseInv, ReadsArePast, At
            <3>3. Dev(p)' = Dev(p)
                BY <3>1, <3>2 DEF DevicesStay, Dev
            <3>4. QED
                BY <3>1, <3>3 DEF Pending, At, Still
        <2>2. CASE ~NoteVersion(p)
            <3>1. op'[p].stage \notin {"note", "append"}
                <4>1. CASE Look(p) \/ Lock(p)
                    <5>1. ASSUME NEW s \in {"wait", "list"}, Go(p, s)
                          PROVE  op'[p].stage \notin {"note", "append"}
                        BY <1>1, <5>1 DEF Go, Op
                    <5>2. ASSUME Answer(p, index)
                          PROVE  op'[p].stage \notin {"note", "append"}
                        BY <1>1, <5>2 DEF Answer, Op
                    <5>3. QED
                        BY <4>1, <5>1, <5>2 DEF Look, Lock
                <4>2. CASE Attach(p) \/ Select(p)
                    BY <1>1, <4>2, IdleType DEF Attach, Select, Leave, Op
                <4>3. CASE (\E d \in Devices : Store(p, d)) \/ ReadVersion(p)
                    BY <1>1, <4>3 DEF Store, ReadVersion, Idle, Op
                <4>4. QED
                    BY <2>2, <4>1, <4>2, <4>3
            <3>2. QED
                BY <3>1, NotPending
        <2>3. QED
            BY <2>1, <2>2
    <1>4. QED
        BY <1>2, <1>3

LEMMA QuietLag ==
    ASSUME BaseInv, LagInv, DevicesStay, NEW p \in Ingests,
           \/ \E d \in Devices : Store(p, d)
           \/ ReadVersion(p) \/ Look(p) \/ Lock(p) \/ Attach(p) \/ Select(p) \/ NoteVersion(p)
    PROVE  LagInv'
    <1>1. UNCHANGED <<table, version, minted, index>>
        BY DEF Store, ReadVersion, Look, Lock, Attach, Select, NoteVersion, rows
    <1>2. QED
        BY <1>1, QuietPending, MovePending, FewerLag

LEMMA ReloadStepLag ==
    ASSUME BaseInv, LagInv, DevicesStay, NEW p \in Ingests, Reload(p)
    PROVE  LagInv'
    <1>1. /\ UNCHANGED <<table, version, minted>>
          /\ index' = [version |-> op[p].v, base |-> EnabledRules(table), appended |-> {}]
        BY DEF Reload, rows
    <1>2. op \in [Ingests -> Op] /\ op[p] \in Op /\ op[p].v \in Nat
        BY BaseType DEF Op
    <1>3. (\A q \in Ingests \ {p} : op'[q] = op[q]) /\ op'[p].stage \notin {"note", "append"}
        BY <1>2 DEF Reload, Answer, Op
    <1>4. FewerPending
        BY <1>1, <1>3, NotPending, MovePending
    <1>5. QED
        BY <1>1, <1>2, <1>4, ReloadLag

LEMMA NoteStepLag ==
    ASSUME BaseInv, LagInv, DevicesStay, NEW p \in Ingests, Note(p)
    PROVE  LagInv'
    <1>1. UNCHANGED <<table, version, minted>> /\ At(p, "append")
        BY DEF Note, rows
    <1>2. op \in [Ingests -> Op] /\ op[p] \in Op /\ op[p].v \in Nat
        BY BaseType DEF Op
    <1>3. (\A q \in Ingests \ {p} : op'[q] = op[q]) /\ op'[p].stage \notin {"note", "append"}
        BY <1>2 DEF Note, Op
    <1>4. ~Pending(p)'
        BY <1>3, NotPending
    <1>5. CASE UNCHANGED index
        BY <1>1, <1>3, <1>4, <1>5, MovePending, FewerLag
    <1>6. CASE index' # index
        <2>1. /\ index # None /\ index.version = op[p].v /\ op[p].n = op[p].v + 1
              /\ index' = [index EXCEPT !.version = op[p].v + 1, !.appended = @ \cup {Appended(p)}]
            BY <1>6 DEF Note
        <2>2. Pending(p)
            BY <1>1, <2>1 DEF Pending
        <2>3. \A q \in Ingests \ {p} : (Pending(q)' <=> Pending(q)) /\ (Pending(q) => Still(q))
            BY <1>1, <1>3, OthersPending
        <2>4. QED
            BY <1>1, <1>4, <2>1, <2>2, <2>3, NoteLag
    <1>7. QED
        BY <1>5, <1>6

LEMMA CreateStepLag ==
    ASSUME BaseInv, LagInv, DevicesStay, NEW p \in Ingests, Create(p)
    PROVE  LagInv'
    <1>1. UNCHANGED <<index, emissions>> /\ op[p].stage = "create"
        BY DEF Create, At
    <1>2. op \in [Ingests -> Op] /\ op[p] \in Op /\ op[p].v \in Nat /\ version \in Nat /\ minted \in Nat
        BY BaseType DEF Op, StoreType
    <1>3. \A q \in Ingests \ {p} : op'[q] = op[q]
        BY <1>2 DEF Create, Leave, Go
    <1>4. op[p].em \in 1..Len(emissions) /\ ~Pending(p)
        BY <1>1 DEF BaseInv, ReadsArePast, At, Pending
    <1>5. CASE UNCHANGED rows /\ (Leave(p) \/ Go(p, "select"))
        <2>1. op'[p].stage \notin {"note", "append"}
            BY <1>2, <1>5, IdleType DEF Leave, Go, Op
        <2>2. UNCHANGED <<table, version, minted>>
            BY <1>5 DEF rows
        <2>3. QED
            BY <1>1, <1>3, <2>1, <2>2, NotPending, MovePending, FewerLag
    <1>6. CASE /\ ~KeyTaken(Dev(p)) /\ minted' = minted + 1 /\ version' = version + 1
               /\ table' = table \cup {[id |-> minted', rule |-> {Dev(p)}, on |-> TRUE,
                                        key |-> Dev(p)]}
               /\ op' = [op EXCEPT ![p].stage = "note", ![p].found = minted']
        <2>1. /\ op'[p].stage = "note" /\ op'[p].found = minted + 1 /\ op'[p].v = op[p].v
              /\ op'[p].em = op[p].em
            BY <1>2, <1>6 DEF Op
        <2>2. table' = table \cup {Entered(p)}
            BY <1>6 DEF Entered
        <2>3. Dev(p)' = Dev(p) /\ Dev(p) \in Devices
            BY <1>1, <1>4, <2>1, EmissionsType DEF Dev, Row
        <2>4. \A q \in Ingests \ {p} : Pending(q)' => Still(q)
            BY <1>3, <1>6, OthersPending
        <2>5. CASE op[p].v = version
            <3>1. Pending(p)'
                BY <1>6, <2>1, <2>5 DEF Pending, At
            <3>2. QED
                BY <1>1, <1>4, <1>6, <2>1, <2>2, <2>3, <2>4, <2>5, <3>1, CreatedLag
        <2>6. CASE op[p].v # version
            <3>1. ~Pending(p)'
                BY <1>2, <1>6, <2>1, <2>6 DEF Pending, At
            <3>2. FewerPending
                BY <1>3, <1>6, <3>1, MovePending
            <3>3. QED
                BY <1>1, <1>2, <1>6, <3>2, UnaccountedLag
        <2>7. QED
            BY <2>5, <2>6
    <1>7. QED
        BY <1>5, <1>6 DEF Create

LEMMA OperatorLag ==
    ASSUME BaseInv, LagInv, DevicesStay, Operator
    PROVE  LagInv'
    <1>1. UNCHANGED <<op, index>>
        BY DEF Operator, Backfill, CreateEmitter, SetRule, SetEnabled, Delete, AgeOut
    <1>2. version \in Nat /\ minted \in Nat
        BY BaseType DEF StoreType
    <1>3. CASE Backfill
        <2>1. UNCHANGED <<table, version, minted>>
            BY <1>3 DEF Backfill, rows
        <2>2. FewerPending
            BY <1>1, <2>1, OthersPending DEF FewerPending
        <2>3. QED
            BY <1>1, <2>1, <2>2, FewerLag
    <1>4. CASE ~Backfill
        <2>1. version' = version + 1 /\ (minted' = minted \/ minted' = minted + 1)
            BY <1>4 DEF Operator, CreateEmitter, SetRule, SetEnabled, Delete, AgeOut, Edit
        <2>2. FewerPending
            BY <1>1, <2>1, OthersPending DEF FewerPending
        <2>3. QED
            BY <1>1, <1>2, <2>1, <2>2, UnaccountedLag
    <1>5. QED
        BY <1>3, <1>4

LEMMA NextLag == BaseInv /\ LagInv /\ [Next]_vars => LagInv'
    <1> SUFFICES ASSUME BaseInv, LagInv, [Next]_vars PROVE LagInv'
        OBVIOUS
    <1>1. DevicesStay
        BY DevicesAreKept
    <1>2. ASSUME NEW p \in Ingests, Ingest(p)
          PROVE  LagInv'
        BY <1>1, <1>2, QuietLag, ReloadStepLag, NoteStepLag, CreateStepLag DEF Ingest
    <1>3. CASE Operator
        BY <1>1, <1>3, OperatorLag
    <1>4. CASE UNCHANGED <<rows, emissions, index, writer, op, operator>>
        <2>1. UNCHANGED <<table, version, minted, index, op>>
            BY <1>4 DEF rows
        <2>2. FewerPending
            BY <1>1, <2>1, OthersPending DEF FewerPending
        <2>3. QED
            BY <2>1, <2>2, FewerLag
    <1>5. QED
        BY <1>2, <1>3, <1>4 DEF Next, Finished, vars, rows, operator

-----------------------------------------------------------------------------
\* The types, with every id an emission or an ingest refers to, hold throughout.
THEOREM MatchingTypeOK == Spec => []TypeOK
    <1>1. BaseInv => TypeOK
        BY DEF BaseInv
    <1>2. QED
        BY <1>1, InitBase, NextBase, PTL DEF Spec

\* However reloads, appends, edits and creations interleave, a snapshot that carries the
\* version of the database matches every device as the database would (matcher.rs,
\* snapshot and note_created).
THEOREM SnapshotsAreExact == Spec => []CurrentSnapshotIsExact
    <1>1. BaseInv /\ LagInv => CurrentSnapshotIsExact
        <2> SUFFICES ASSUME BaseInv, LagInv, index # None, index.version = version, NEW d \in Devices
                     PROVE  FirstMatch(index.base, index.appended, d)
                            = FirstMatch(EnabledRules(table), {}, d)
            BY DEF CurrentSnapshotIsExact
        <2>1. version \in Nat
            BY BaseType
        <2>2. Accounted(index.version)
            BY <2>1 DEF Accounted
        <2>3. Right(version, index.base, index.appended, d)
            BY <2>2, ExactIsRight DEF LagInv
        <2>4. PendingFor(version, d) = {}
            BY PendingType DEF PendingFor
        <2>5. QED
            BY <2>3, <2>4 DEF Right, FirstMatch, Matched, Hits
    <1>2. QED
        BY <1>1, InitBase, NextBase, InitLag, NextLag, PTL DEF Spec

-----------------------------------------------------------------------------
(* What was answered, and what is left without an emitter.                   *)

\* The version is read, and nothing decided yet.
Asking(p) == op[p].stage \in {"look", "wait"}
Searching(p) == Asking(p) \/ op[p].stage \in {"version", "list"}

\* Every step of the version from w to v is a creation that is pending.
AccountedTo(w, v) == \A u \in w..(v - 1) : \E q \in Ingests : Pending(q) /\ op[q].v = u

\* Strengthening: an emitter whose creation accounts for a version that was read was there
\* when it was read.
PendingWasSeen ==
    \A p, q \in Ingests :
        Asking(p) /\ Pending(q) /\ op[q].v < op[p].v /\ Dev(q) = Dev(p) /\ AccountedTo(op[q].v, op[p].v)
            => op[q].found \in seen[p].ids

\* Strengthening: a snapshot that pending creations alone may bring to the version an
\* ingest has read matches its device as the database did at some moment since.
SnapshotWasRight ==
    index # None =>
        \A p \in Ingests :
            Asking(p) /\ index.version <= op[p].v /\ AccountedTo(index.version, op[p].v) =>
                /\ Known(Dev(p)) => FirstMatch(index.base, index.appended, Dev(p)) \in seen[p].ids
                /\ \/ Known(Dev(p)) \/ seen[p].none
                   \/ \E q \in Ingests : /\ Pending(q) /\ Dev(q) = Dev(p)
                                         /\ op[q].v \in index.version..(op[p].v - 1)

AnswerInv == AnswerWasLive /\ CreationWasCalledFor /\ PendingWasSeen /\ SnapshotWasRight

\* Strengthening: idle is idle, and who has found an emitter is about to attach it.
StagesAreHonest ==
    \A p \in Ingests :
        /\ At(p, "idle") => op[p] = Idle
        /\ op[p].stage \in {"attach", "note", "append"} <=> op[p].found # None

\* Strengthening: ids and keys of emitters.
EmittersAreDistinct ==
    /\ \A e, f \in table : e.id = f.id => e = f
    /\ \A e \in table : e.key \in AutoCreate \cup {None}

\* Strengthening: as long as nothing was disabled or deleted, all that was seen is there.
NothingIsLost ==
    ~narrowed =>
        /\ \A e \in table : e.on
        /\ \A p \in Ingests : /\ seen[p].ids \subseteq IdsOf(table)
                              /\ At(p, "select") => KeyTaken(Dev(p))

\* Strengthening: as long as nothing was disabled or deleted, an emission whose ingest is
\* over without an emitter is of a device that is given none.
LeftAlone ==
    ~narrowed =>
        \A m \in 1..Len(emissions) :
            emissions[m].to = None /\ (\A p \in Ingests : op[p].em # m)
                => emissions[m].dev \notin AutoCreate

\* What will give an emission its emitter: a backfill that is due, or its own ingest.
WillAttach(p, d) ==
    \/ op[p].found # None
    \/ Searching(p) /\ ~seen[p].none
    \/ (Searching(p) \/ op[p].stage \in {"create", "select"}) /\ KeyTaken(d)

Backfilled(d) == backfill \in IdsOf(table) /\ d \in Entry(backfill).rule

\* Strengthening: as long as nothing was disabled or deleted, somebody sees to an emission
\* with a rule for it.
SeenTo ==
    ~narrowed =>
        \A m \in 1..Len(emissions) :
            emissions[m].to = None /\ ~Unmatched(table, emissions[m].dev) =>
                \/ Backfilled(emissions[m].dev)
                \/ \E p \in Ingests : op[p].em = m /\ WillAttach(p, emissions[m].dev)

GapInv == StagesAreHonest /\ EmittersAreDistinct /\ NothingIsLost /\ LeftAlone /\ SeenTo

-----------------------------------------------------------------------------
(* Stages and steps. *)

LEMMA InitStages == Init => StagesAreHonest
    BY IdleType DEF Init, StagesAreHonest, At, Idle

\* One ingest moves at a time.
LEMMA OneMoves ==
    ASSUME BaseInv, NEW p \in Ingests, Ingest(p)
    PROVE  \A q \in Ingests \ {p} : op'[q] = op[q]
    <1>1. op \in [Ingests -> Op]
        BY BaseType
    <1>2. \A o : op' = [op EXCEPT ![p] = o] => \A q \in Ingests \ {p} : op'[q] = op[q]
        BY <1>1
    <1>3. CASE \/ \E d \in Devices : Store(p, d)
               \/ ReadVersion(p) \/ NoteVersion(p) \/ Note(p) \/ Select(p) \/ Attach(p) \/ Create(p)
        BY <1>1, <1>2, <1>3 DEF Store, ReadVersion, NoteVersion, Note, Select, Attach, Create, Go, Leave
    <1>4. CASE Look(p) \/ Lock(p) \/ Reload(p)
        BY <1>1, <1>2, <1>4 DEF Look, Lock, Reload, Go, Answer
    <1>5. QED
        BY <1>3, <1>4 DEF Ingest

LEMMA OperatorMovesNone ==
    ASSUME Operator \/ Finished
    PROVE  UNCHANGED op
    BY DEF Operator, Finished, Backfill, CreateEmitter, SetRule, SetEnabled, Delete, AgeOut

\* Where an answer leads.
LEMMA AnswerMoves ==
    ASSUME BaseInv, NEW p \in Ingests, NEW snap, Answer(p, snap), op[p].found = None
    PROVE  LET m == FirstMatch(snap.base, snap.appended, Dev(p))
           IN  /\ op'[p].found = m /\ op'[p].em = op[p].em
               /\ op'[p].stage = IF m = None THEN "create" ELSE "attach"
    BY BaseType DEF Answer, Op

\* Where each step takes its ingest.
Moves(p) ==
    \/ op[p].stage = "version" /\ op'[p].stage = "look" /\ op'[p].found = op[p].found
       /\ op'[p].v = version /\ ReadVersion(p)
    \/ /\ <<op[p].stage, op'[p].stage>> \in {<<"look", "wait">>, <<"wait", "list">>}
       /\ op'[p].found = op[p].found /\ op'[p].v = op[p].v /\ (Look(p) \/ Lock(p))
    \/ /\ op[p].stage \in {"look", "wait"} /\ Current(p) /\ (Look(p) \/ Lock(p))
       /\ op'[p].found = FirstMatch(index.base, index.appended, Dev(p))
       /\ op'[p].stage = IF op'[p].found = None THEN "create" ELSE "attach"
    \/ /\ op[p].stage = "list" /\ Reload(p)
       /\ op'[p].found = FirstMatch(EnabledRules(table), {}, Dev(p))
       /\ op'[p].stage = IF op'[p].found = None THEN "create" ELSE "attach"
    \/ /\ op[p].stage = "create" /\ op'[p].stage = "select" /\ Create(p) /\ KeyTaken(Dev(p))
       /\ op'[p].found = op[p].found
    \/ /\ op[p].stage = "create" /\ op'[p].stage = "note" /\ Create(p) /\ op'[p].found = minted'
       /\ minted' = minted + 1 /\ Dev(p) \in AutoCreate /\ ~KeyTaken(Dev(p))
       /\ table' = table \cup {[id |-> minted', rule |-> {Dev(p)}, on |-> TRUE, key |-> Dev(p)]}
    \/ /\ op[p].stage = "select" /\ op'[p].stage = "attach" /\ Select(p)
       /\ \E e \in table : e.key = Dev(p) /\ e.on /\ op'[p].found = e.id
    \/ op[p].stage = "note" /\ op'[p].stage = "append" /\ op'[p].found = op[p].found /\ NoteVersion(p)
    \/ op[p].stage = "append" /\ op'[p].stage = "attach" /\ op'[p].found = op[p].found /\ Note(p)

Leaves(p) ==
    /\ op'[p] = Idle
    /\ \/ Attach(p)
       \/ Create(p) /\ Dev(p) \notin AutoCreate /\ UNCHANGED rows
       \/ Select(p) /\ \A e \in table : ~(e.key = Dev(p) /\ e.on)

Stores(p) ==
    /\ op[p].stage = "idle" /\ op'[p].stage = "version" /\ op'[p].found = None
    /\ op'[p].em = Len(emissions) + 1 /\ \E d \in Devices : Store(p, d)

LEMMA StepsMove ==
    ASSUME BaseInv, NEW p \in Ingests, Ingest(p)
    PROVE  \/ Stores(p) \/ Leaves(p)
           \/ Moves(p) /\ op'[p].em = op[p].em
    <1>1. op \in [Ingests -> Op] /\ op[p] \in Op
        BY BaseType
    <1>2. CASE \E d \in Devices : Store(p, d)
        BY <1>1, <1>2 DEF Store, Stores, At, Idle
    <1>3. CASE ReadVersion(p) \/ NoteVersion(p) \/ Note(p)
        BY <1>1, <1>3 DEF ReadVersion, NoteVersion, Note, Moves, At, Op
    <1>4. CASE Look(p) \/ Lock(p)
        BY <1>1, <1>4 DEF Look, Lock, Moves, At, Go, Answer, Op
    <1>5. CASE Reload(p)
        BY <1>1, <1>5 DEF Reload, Moves, At, Answer, Op
    <1>6. CASE Attach(p)
        BY <1>1, <1>6 DEF Attach, Leave, Leaves
    <1>7. CASE Create(p)
        BY <1>1, <1>7 DEF Create, Leave, Leaves, Moves, Go, At, Op, rows
    <1>8. CASE Select(p)
        BY <1>1, <1>8 DEF Select, Leave, Leaves, Moves, At, Op
    <1>9. QED
        BY <1>2, <1>3, <1>4, <1>5, <1>6, <1>7, <1>8 DEF Ingest

LEMMA NextStages == BaseInv /\ StagesAreHonest /\ [Next]_vars => StagesAreHonest'
    <1> SUFFICES ASSUME BaseInv, StagesAreHonest, [Next]_vars PROVE StagesAreHonest'
        OBVIOUS
    <1>1. ASSUME NEW p \in Ingests, Ingest(p)
          PROVE  StagesAreHonest'
        <2>1. /\ op[p].stage = "idle" => op[p] = Idle
              /\ op[p].stage \in {"attach", "note", "append"} <=> op[p].found # None
            BY DEF StagesAreHonest, At
        <2>2. minted' \in Nat => minted' # None
            BY MatchingAssumption
        <2>3. /\ minted \in Nat
              /\ \A e \in table : e.id # None
            BY BaseType, MatchingAssumption DEF StoreType, Emitter, Ids
        <2>4. CASE Stores(p)
            BY <1>1, <2>4, OneMoves DEF StagesAreHonest, At, Stores
        <2>5. CASE Leaves(p)
            BY <1>1, <2>5, OneMoves DEF StagesAreHonest, At, Leaves, Idle
        <2>6. CASE Moves(p)
            <3>1. /\ op'[p].stage # "idle"
                  /\ op'[p].stage \in {"attach", "note", "append"} <=> op'[p].found # None
                BY <2>1, <2>2, <2>3, <2>6 DEF Moves
            <3>2. QED
                BY <1>1, <3>1, OneMoves DEF StagesAreHonest, At
        <2>7. QED
            BY <1>1, <2>4, <2>5, <2>6, StepsMove
    <1>2. CASE Operator \/ Finished
        BY <1>2, OperatorMovesNone DEF StagesAreHonest, At
    <1>3. CASE UNCHANGED vars
        BY <1>3 DEF StagesAreHonest, At, vars
    <1>4. QED
        BY <1>1, <1>2, <1>3 DEF Next

\* What is seen of an emission whose ingest goes on.
LEMMA Watched ==
    ASSUME BaseInv, DevicesStay, Observe, NEW p \in Ingests, op'[p].em = op[p].em, ~At(p, "idle")
    PROVE  /\ Dev(p)' = Dev(p) /\ Dev(p) \in Devices
           /\ seen'[p].ids = seen[p].ids \cup Attachable(table', Dev(p))
           /\ seen'[p].none = (seen[p].none \/ Unmatched(table', Dev(p)))
    <1>1. op[p].em \in 1..Len(emissions)
        BY DEF BaseInv, ReadsArePast
    <1>2. Dev(p)' = Dev(p) /\ Dev(p) \in Devices
        BY <1>1, EmissionsType DEF DevicesStay, Dev, Row
    <1>3. op'[p].em # 0 /\ emissions'[op'[p].em].dev = Dev(p)
        BY <1>1, <1>2 DEF Dev
    <1>4. QED
        BY <1>2, <1>3 DEF Observe

\* No creation is pending that was not, but one that has just taken its step.
FewerOrNew == \A p \in Ingests : Pending(p)' => Still(p) \/ op'[p].v >= version

LEMMA NextPending ==
    ASSUME BaseInv, DevicesStay, Next
    PROVE  FewerOrNew /\ (version' = version \/ version' = version + 1)
    <1>1. version' = version \/ version' = version + 1
        BY DEF Next, Ingest, Operator, Finished, Store, ReadVersion, Look, Lock, Reload, Attach, Create,
               Select, NoteVersion, Note, Backfill, CreateEmitter, SetRule, SetEnabled, Delete, AgeOut,
               Edit, rows
    <1>2. ASSUME NEW p \in Ingests, Ingest(p)
          PROVE  FewerOrNew
        <2>1. Pending(p)' => Still(p) \/ op'[p].v >= version
            <3>1. CASE \/ \E d \in Devices : Store(p, d)
                       \/ ReadVersion(p) \/ Look(p) \/ Lock(p) \/ Attach(p) \/ Select(p) \/ NoteVersion(p)
                BY <3>1, QuietPending
            <3>2. CASE Reload(p) \/ Note(p)
                <4>1. op'[p].stage \notin {"note", "append"}
                    BY <3>2, BaseType DEF Reload, Note, Answer, Op
                <4>2. QED
                    BY <4>1, NotPending
            <3>3. CASE Create(p)
                <4>1. (op'[p].v = op[p].v /\ op[p].v \in Nat) \/ op'[p] = Idle
                    BY <3>3, BaseType DEF Create, Leave, Go, Op
                <4>2. op'[p].stage # "append"
                    BY <3>3, BaseType, IdleType DEF Create, Leave, Go, Op
                <4>3. op'[p].stage = "note" => version' = version + 1
                    BY <3>3, BaseType, IdleType DEF Create, Leave, Go, Op
                <4>4. Pending(p)' => op'[p].v >= version
                    BY <4>1, <4>2, <4>3, BaseType, IdleType DEF Pending, At
                <4>5. QED
                    BY <4>4
            <3>4. QED
                BY <1>2, <3>1, <3>2, <3>3 DEF Ingest
        <2>2. QED
            BY <1>1, <1>2, <2>1, OneMoves, OthersPending DEF FewerOrNew
    <1>3. CASE Operator \/ Finished
        BY <1>1, <1>3, OperatorMovesNone, OthersPending DEF FewerOrNew
    <1>4. QED
        BY <1>1, <1>2, <1>3 DEF Next

AccountedNext(w, v) == \A u \in w..(v - 1) : \E q \in Ingests : Pending(q)' /\ op'[q].v = u

\* Up to a version that was read, no step is accounted for that was not, and what accounts
\* for it still does.
LEMMA AccountStays ==
    ASSUME BaseInv, LagInv, FewerOrNew, NEW v \in 0..version, NEW w, AccountedNext(w, v)
    PROVE  /\ AccountedTo(w, v)
           /\ \A q \in Ingests : Pending(q) /\ op[q].v \in w..(v - 1) => Pending(q)' /\ Still(q)
    <1>1. version \in Nat
        BY BaseType
    <1>2. ASSUME NEW u \in w..(v - 1)
          PROVE  \E q \in Ingests : Pending(q)' /\ Still(q) /\ op[q].v = u
        <2>1. PICK q \in Ingests : Pending(q)' /\ op'[q].v = u
            BY DEF AccountedNext
        <2>2. u < version
            BY <1>1
        <2>3. Still(q)
            BY <1>1, <2>1, <2>2 DEF FewerOrNew
        <2>4. QED
            BY <2>1, <2>3 DEF Still
    <1>3. AccountedTo(w, v)
        BY <1>2 DEF AccountedTo, Still
    <1>4. ASSUME NEW q \in Ingests, Pending(q), op[q].v \in w..(v - 1)
          PROVE  Pending(q)' /\ Still(q)
        <2>1. PICK r \in Ingests : Pending(r)' /\ Still(r) /\ op[r].v = op[q].v
            BY <1>2, <1>4
        <2>2. r = q
            BY <1>4, <2>1 DEF LagInv, PendingInOrder, Still
        <2>3. QED
            BY <2>1, <2>2
    <1>5. QED
        BY <1>3, <1>4

-----------------------------------------------------------------------------
(* Answers. *)

GoodAnswer(p) ==
    /\ op[p].found # None => op[p].found \in seen[p].ids
    /\ op[p].stage \in {"create", "select", "note", "append"} => seen[p].none

SawPending(p) ==
    \A q \in Ingests :
        Asking(p) /\ Pending(q) /\ op[q].v < op[p].v /\ Dev(q) = Dev(p) /\ AccountedTo(op[q].v, op[p].v)
            => op[q].found \in seen[p].ids

SawSnapshot(p) ==
    index # None /\ Asking(p) /\ index.version <= op[p].v /\ AccountedTo(index.version, op[p].v) =>
        /\ Known(Dev(p)) => FirstMatch(index.base, index.appended, Dev(p)) \in seen[p].ids
        /\ \/ Known(Dev(p)) \/ seen[p].none
           \/ \E q \in Ingests : /\ Pending(q) /\ Dev(q) = Dev(p)
                                 /\ op[q].v \in index.version..(op[p].v - 1)

LEMMA AnswerParts ==
    /\ AnswerInv <=> \A p \in Ingests : GoodAnswer(p) /\ SawPending(p) /\ SawSnapshot(p)
    /\ (\A p \in Ingests : GoodAnswer(p)' /\ SawPending(p)' /\ SawSnapshot(p)') => AnswerInv'
    BY DEF AnswerInv, AnswerWasLive, CreationWasCalledFor, PendingWasSeen, SnapshotWasRight,
           GoodAnswer, SawPending, SawSnapshot

LEMMA FirstMatchFinds ==
    ASSUME NEW B, B \subseteq Emitter, NEW A, A \subseteq Emitter, NEW d
    PROVE  FirstMatch(B, A, d) = None <=> Hits(B, d) = {} /\ Hits(A, d) = {}
    <1>1. ASSUME NEW S, S \subseteq Emitter, S # {}
          PROVE  Oldest(S).id # None
        <2>1. \A e \in S : e.id \in Nat
            BY <1>1 DEF Emitter, Ids
        <2>2. Oldest(S) \in S
            BY <1>1, <2>1, OldestExists
        <2>3. QED
            BY <2>1, <2>2, MatchingAssumption
    <1>2. Hits(B, d) \subseteq Emitter /\ Hits(A, d) \subseteq Emitter
        BY DEF Hits
    <1>3. QED
        BY <1>1, <1>2 DEF FirstMatch

\* What the table answers is attachable.
LEMMA TableAnswers ==
    ASSUME BaseInv, NEW d
    PROVE  LET m == FirstMatch(EnabledRules(table), {}, d)
           IN  /\ m = None <=> Unmatched(table, d)
               /\ m # None => m \in Attachable(table, d)
    <1>1. EnabledRules(table) \subseteq Emitter
        BY BaseType DEF StoreType, EnabledRules
    <1>2. FirstMatch(EnabledRules(table), {}, d) = None <=> Unmatched(table, d)
        BY <1>1, FirstMatchFinds DEF Unmatched, Hits
    <1>3. ASSUME Hits(EnabledRules(table), d) # {}
          PROVE  FirstMatch(EnabledRules(table), {}, d) \in Attachable(table, d)
        <2>1. \A e \in Hits(EnabledRules(table), d) : e.id \in Nat
            BY <1>1 DEF Hits, Emitter, Ids
        <2>2. Oldest(Hits(EnabledRules(table), d)) \in Hits(EnabledRules(table), d)
            BY <1>3, <2>1, OldestExists
        <2>3. QED
            BY <1>3, <2>2 DEF FirstMatch, Hits, EnabledRules, Attachable
    <1>4. QED
        BY <1>2, <1>3 DEF Unmatched

LEMMA IngestKeepsAnswer ==
    ASSUME BaseInv, StagesAreHonest, DevicesStay, Observe, NEW p \in Ingests, GoodAnswer(p), op'[p] = op[p]
    PROVE  GoodAnswer(p)'
    <1>1. CASE At(p, "idle")
        BY <1>1, IdleType DEF StagesAreHonest, GoodAnswer, Idle
    <1>2. CASE ~At(p, "idle")
        BY <1>2, Watched DEF GoodAnswer
    <1>3. QED
        BY <1>1, <1>2

LEMMA IngestAnswers ==
    ASSUME BaseInv, StagesAreHonest, DevicesStay, Observe, NEW p \in Ingests, Ingest(p),
           GoodAnswer(p), SawSnapshot(p)
    PROVE  GoodAnswer(p)'
    <1>1. CASE Stores(p)
        BY <1>1 DEF Stores, GoodAnswer
    <1>2. CASE Leaves(p)
        BY <1>2 DEF Leaves, GoodAnswer, Idle
    <1>3. CASE Moves(p) /\ op'[p].em = op[p].em
        <2>1. /\ Dev(p) \in Devices
              /\ seen'[p].ids = seen[p].ids \cup Attachable(table', Dev(p))
              /\ seen'[p].none = (seen[p].none \/ Unmatched(table', Dev(p)))
            <3>1. ~At(p, "idle")
                BY <1>3 DEF Moves, At
            <3>2. QED
                BY <1>3, <3>1, Watched
        <2>2. op[p].stage \in {"attach", "note", "append"} <=> op[p].found # None
            BY DEF StagesAreHonest
        <2>3. CASE /\ op[p].stage \in {"version", "look", "wait"} /\ op'[p].found = op[p].found
                   /\ op'[p].stage \in {"look", "wait", "list"}
            BY <2>1, <2>2, <2>3 DEF GoodAnswer
        <2>4. CASE /\ op[p].stage \in {"look", "wait"} /\ Current(p)
                   /\ op'[p].found = FirstMatch(index.base, index.appended, Dev(p))
                   /\ op'[p].stage = IF op'[p].found = None THEN "create" ELSE "attach"
            <3>1. index # None /\ index.version = op[p].v /\ op[p].v \in Nat
                BY <2>4, BaseType DEF Current, Op
            <3>2. /\ AccountedTo(index.version, op[p].v)
                  /\ ~\E q \in Ingests : op[q].v \in index.version..(op[p].v - 1)
                BY <3>1 DEF AccountedTo
            <3>3. /\ Known(Dev(p)) => FirstMatch(index.base, index.appended, Dev(p)) \in seen[p].ids
                  /\ Known(Dev(p)) \/ seen[p].none
                BY <2>4, <3>1, <3>2 DEF SawSnapshot, Asking
            <3>4. FirstMatch(index.base, index.appended, Dev(p)) = None <=> ~Known(Dev(p))
                BY <3>1, FirstMatchFinds, BaseType DEF Known, StoreType, Snapshot
            <3>5. QED
                BY <2>1, <2>4, <3>3, <3>4 DEF GoodAnswer
        <2>5. CASE /\ Reload(p) /\ op'[p].found = FirstMatch(EnabledRules(table), {}, Dev(p))
                   /\ op'[p].stage = IF op'[p].found = None THEN "create" ELSE "attach"
            <3>1. table' = table
                BY <2>5 DEF Reload, rows
            <3>2. QED
                BY <2>1, <2>5, <3>1, TableAnswers DEF GoodAnswer
        <2>6. CASE op[p].stage = "create" /\ op'[p].stage = "select" /\ op'[p].found = op[p].found
            BY <2>1, <2>2, <2>6 DEF GoodAnswer
        <2>7. CASE /\ op[p].stage = "create" /\ op'[p].stage = "note" /\ op'[p].found = minted'
                   /\ table' = table \cup {[id |-> minted', rule |-> {Dev(p)}, on |-> TRUE, key |-> Dev(p)]}
            <3>1. minted' \in Attachable(table', Dev(p))
                <4> DEFINE e == [id |-> minted', rule |-> {Dev(p)}, on |-> TRUE, key |-> Dev(p)]
                <4>1. e \in table' /\ e.on /\ Dev(p) \in e.rule /\ e.id = minted'
                    BY <2>7
                <4> HIDE DEF e
                <4>2. QED
                    BY <4>1 DEF Attachable
            <3>2. QED
                BY <2>1, <2>7, <3>1 DEF GoodAnswer
        <2>8. CASE /\ op'[p].stage = "attach" /\ Select(p)
                   /\ \E e \in table : e.key = Dev(p) /\ e.on /\ op'[p].found = e.id
            <3>1. table' = table
                BY <2>8 DEF Select, rows
            <3>2. op'[p].found \in Attachable(table', Dev(p))
                BY <2>8, <3>1 DEF Attachable
            <3>3. QED
                BY <2>1, <2>8, <3>2 DEF GoodAnswer
        <2>9. CASE op[p].stage \in {"note", "append"} /\ op'[p].found = op[p].found
            BY <2>1, <2>9 DEF GoodAnswer
        <2>10. QED
            BY <1>3, <2>3, <2>4, <2>5, <2>6, <2>7, <2>8, <2>9 DEF Moves
    <1>4. QED
        BY <1>1, <1>2, <1>3, StepsMove

\* Who asks after a step asked before it, or has just read the version.
Continues(p) == Asking(p) /\ op'[p].v = op[p].v /\ op'[p].em = op[p].em

LEMMA AskersContinue ==
    ASSUME BaseInv, Next, NEW p \in Ingests, Asking(p)'
    PROVE  /\ op'[p].em = op[p].em /\ ~At(p, "idle")
           /\ Continues(p) \/ (ReadVersion(p) /\ op'[p].v = version)
    <1>1. CASE Ingest(p)
        <2>1. CASE Stores(p) \/ Leaves(p)
            BY <2>1, IdleType DEF Stores, Leaves, Asking
        <2>2. CASE Moves(p) /\ op'[p].em = op[p].em
            BY <2>2 DEF Moves, Asking, Continues, At
        <2>3. QED
            BY <1>1, <2>1, <2>2, StepsMove
    <1>2. CASE op'[p] = op[p]
        BY <1>2 DEF Continues, Asking, At
    <1>3. QED
        BY <1>1, <1>2, OneMoves, OperatorMovesNone DEF Next

LEMMA NextPendingSeen ==
    ASSUME BaseInv, LagInv, DevicesStay, Next, NEW p \in Ingests, SawPending(p)
    PROVE  SawPending(p)'
    <1> SUFFICES ASSUME NEW q \in Ingests,
                        Asking(p)', Pending(q)', op'[q].v < op'[p].v, Dev(q)' = Dev(p)',
                        AccountedTo(op[q].v, op[p].v)'
                 PROVE  op'[q].found \in seen'[p].ids
        BY DEF SawPending
    <1>1. /\ op'[p].em = op[p].em /\ ~At(p, "idle")
          /\ Continues(p) \/ (ReadVersion(p) /\ op'[p].v = version)
        BY AskersContinue
    <1>2. /\ Dev(p)' = Dev(p)
          /\ seen'[p].ids = seen[p].ids \cup Attachable(table', Dev(p))
        BY <1>1, Watched DEF Next
    <1>3. op'[p].v \in 0..version /\ version \in Nat
        <2>1. Asking(p) => op[p].v \in 1..version
            BY DEF Asking, BaseInv, ReadsArePast
        <2>2. QED
            BY <1>1, <2>1, BaseType DEF Continues
    <1>4. FewerOrNew
        BY NextPending
    <1>5. Still(q)
        <2>1. op'[q].v \in Nat
            BY NextBase DEF BaseInv, TypeOK, Op
        <2>2. QED
            BY <1>3, <1>4, <2>1 DEF FewerOrNew
    <1>6. AccountedTo(op[q].v, op'[p].v)
        <2>1. AccountedNext(op[q].v, op'[p].v)
            BY <1>5 DEF Still, AccountedTo, AccountedNext
        <2>2. QED
            BY <1>3, <1>4, <2>1, AccountStays
    <1>7. CASE Continues(p)
        BY <1>2, <1>5, <1>6, <1>7 DEF SawPending, Still, Continues
    <1>8. CASE ReadVersion(p) /\ op'[p].v = version
        <2>1. Accounted(op[q].v)
            BY <1>6, <1>8 DEF Accounted, AccountedTo
        <2>2. Appended(q) \in EnabledRules(table) /\ table' = table
            BY <1>5, <1>8, <2>1 DEF LagInv, PendingIsListed, Still, ReadVersion, rows
        <2>3. op[q].found \in Attachable(table', Dev(p))
            BY <1>2, <1>5, <2>2 DEF Appended, EnabledRules, Attachable, Still
        <2>4. QED
            BY <1>2, <1>5, <2>3 DEF Still
    <1>9. QED
        BY <1>1, <1>7, <1>8

\* What a snapshot with rules base and appended, of version w, tells an ingest that has read
\* version v.
SnapshotTells(w, v, base, appended, d, p) ==
    LET known == Hits(base, d) # {} \/ Hits(appended, d) # {}
    IN  /\ known => FirstMatch(base, appended, d) \in seen[p].ids
        /\ \/ known \/ seen[p].none
           \/ \E q \in Ingests : Pending(q) /\ Dev(q) = d /\ op[q].v \in w..(v - 1)

LEMMA SnapshotParts ==
    ASSUME NEW p \in Ingests
    PROVE  /\ SawSnapshot(p) =>
                 (index # None /\ Asking(p) /\ index.version <= op[p].v
                               /\ AccountedTo(index.version, op[p].v)
                     => SnapshotTells(index.version, op[p].v, index.base, index.appended, Dev(p), p))
           /\ (index' # None /\ Asking(p)' /\ index'.version <= op'[p].v
                             /\ AccountedNext(index'.version, op'[p].v)
                   => SnapshotTells(index.version, op[p].v, index.base, index.appended, Dev(p), p)')
              => SawSnapshot(p)'
    BY DEF SawSnapshot, SnapshotTells, Known, AccountedTo, AccountedNext

\* The snapshot stays what it is.
LEMMA SnapshotStays ==
    ASSUME BaseInv, LagInv, DevicesStay, Next, NEW p \in Ingests, SawSnapshot(p), UNCHANGED index
    PROVE  SawSnapshot(p)'
    <1> SUFFICES ASSUME index # None, Asking(p)', index.version <= op'[p].v,
                        AccountedNext(index.version, op'[p].v)
                 PROVE  SnapshotTells(index.version, op[p].v, index.base, index.appended, Dev(p), p)'
        BY SnapshotParts
    <1>1. /\ op'[p].em = op[p].em /\ ~At(p, "idle")
          /\ Continues(p) \/ (ReadVersion(p) /\ op'[p].v = version)
        BY AskersContinue
    <1>2. /\ Dev(p)' = Dev(p) /\ Dev(p) \in Devices
          /\ seen'[p].ids = seen[p].ids \cup Attachable(table', Dev(p))
          /\ seen'[p].none = (seen[p].none \/ Unmatched(table', Dev(p)))
        BY <1>1, Watched DEF Next
    <1>3. op'[p].v \in 0..version /\ version \in Nat /\ FewerOrNew
        <2>1. Asking(p) => op[p].v \in 1..version
            BY DEF Asking, BaseInv, ReadsArePast
        <2>2. QED
            BY <1>1, <2>1, BaseType, NextPending DEF Continues
    <1>4. /\ AccountedTo(index.version, op'[p].v)
          /\ \A q \in Ingests : Pending(q) /\ op[q].v \in index.version..(op'[p].v - 1)
                                    => Pending(q)' /\ Still(q)
        BY <1>3, AccountStays
    <1>5. SnapshotTells(index.version, op'[p].v, index.base, index.appended, Dev(p), p)
              => SnapshotTells(index.version, op[p].v, index.base, index.appended, Dev(p), p)'
        BY <1>2, <1>4 DEF SnapshotTells, Still
    <1>6. CASE Continues(p)
        BY <1>4, <1>5, <1>6, SnapshotParts DEF Continues
    <1>7. CASE ReadVersion(p) /\ op'[p].v = version
        <2>1. Accounted(index.version) /\ table' = table
            BY <1>4, <1>7 DEF Accounted, AccountedTo, ReadVersion, rows
        <2>2. Right(index.version, index.base, index.appended, Dev(p))
            BY <1>2, <2>1, ExactIsRight DEF LagInv
        <2>3. CASE Hits(index.base, Dev(p)) # {} \/ Hits(index.appended, Dev(p)) # {}
            <3>1. /\ Matched(Dev(p)) # {}
                  /\ FirstMatch(index.base, index.appended, Dev(p))
                     = FirstMatch(EnabledRules(table), {}, Dev(p))
                BY <2>2, <2>3 DEF Right
            <3>2. FirstMatch(index.base, index.appended, Dev(p)) \in Attachable(table, Dev(p))
                BY <3>1, TableAnswers DEF Matched, Unmatched
            <3>3. QED
                BY <1>2, <2>1, <2>3, <3>2 DEF SnapshotTells
        <2>4. CASE Hits(index.base, Dev(p)) = {} /\ Hits(index.appended, Dev(p)) = {}
            <3>1. CASE PendingFor(index.version, Dev(p)) = {}
                <4>1. Unmatched(table', Dev(p))
                    BY <2>1, <2>2, <2>4, <3>1 DEF Right, Matched, Unmatched
                <4>2. QED
                    BY <1>2, <2>4, <4>1 DEF SnapshotTells
            <3>2. CASE PendingFor(index.version, Dev(p)) # {}
                <4>1. PICK q \in Ingests : Pending(q) /\ op[q].v >= index.version /\ Dev(q) = Dev(p)
                    BY <3>2 DEF PendingFor
                <4>2. op[q].v \in index.version..(version - 1)
                    <5>1. index.version \in Nat
                        BY BaseType DEF StoreType
                    <5>2. QED
                        BY <4>1, <5>1, PendingType
                <4>3. Pending(q)' /\ Still(q)
                    BY <1>4, <1>7, <4>1, <4>2
                <4>4. QED
                    BY <1>2, <1>7, <2>4, <4>1, <4>2, <4>3 DEF SnapshotTells, Still
            <3>3. QED
                BY <3>1, <3>2
        <2>5. QED
            BY <2>3, <2>4
    <1>8. QED
        BY <1>1, <1>6, <1>7

\* A snapshot that is loaded is right for whoever asks.
LEMMA SnapshotLoaded ==
    ASSUME BaseInv, LagInv, DevicesStay, Next, NEW p \in Ingests, NEW q \in Ingests, Reload(q)
    PROVE  SawSnapshot(p)'
    <1> SUFFICES ASSUME Asking(p)'
                 PROVE  SnapshotTells(index.version, op[p].v, index.base, index.appended, Dev(p), p)'
        BY SnapshotParts
    <1>1. op'[p].em = op[p].em /\ ~At(p, "idle")
        BY AskersContinue
    <1>2. /\ Dev(p)' = Dev(p)
          /\ seen'[p].ids = seen[p].ids \cup Attachable(table', Dev(p))
          /\ seen'[p].none = (seen[p].none \/ Unmatched(table', Dev(p)))
        BY <1>1, Watched DEF Next
    <1>3. index'.base = EnabledRules(table) /\ index'.appended = {} /\ table' = table
        BY DEF Reload, rows
    <1>4. Hits({}, Dev(p)) = {}
        BY DEF Hits
    <1>5. QED
        BY <1>2, <1>3, <1>4, TableAnswers DEF SnapshotTells, Unmatched

\* A creation is appended to the snapshot by the ingest that made it.
LEMMA SnapshotAppended ==
    ASSUME BaseInv, LagInv, DevicesStay, Next, NEW p \in Ingests, NEW q \in Ingests, Note(q),
           SawPending(p), SawSnapshot(p), index' # index
    PROVE  SawSnapshot(p)'
    <1> SUFFICES ASSUME index' # None, Asking(p)', index'.version <= op'[p].v,
                        AccountedNext(index'.version, op'[p].v)
                 PROVE  SnapshotTells(index.version, op[p].v, index.base, index.appended, Dev(p), p)'
        BY SnapshotParts
    <1>1. /\ op'[p].em = op[p].em /\ ~At(p, "idle")
          /\ Continues(p) \/ (ReadVersion(p) /\ op'[p].v = version)
        BY AskersContinue
    <1>2. /\ Dev(p)' = Dev(p) /\ Dev(p) \in Devices
          /\ seen'[p].ids = seen[p].ids \cup Attachable(table', Dev(p))
          /\ seen'[p].none = (seen[p].none \/ Unmatched(table', Dev(p)))
        BY <1>1, Watched DEF Next
    <1>3. At(q, "append") /\ p # q /\ Continues(p) /\ \A r \in Ingests \ {q} : op'[r] = op[r]
        <2>1. At(q, "append") /\ Ingest(q)
            BY DEF Note, Ingest
        <2>2. \A r \in Ingests \ {q} : op'[r] = op[r]
            BY <2>1, OneMoves
        <2>3. op'[q].stage = "attach"
            BY BaseType DEF Note, Op
        <2>4. p # q
            BY <2>3 DEF Asking
        <2>5. QED
            BY <2>1, <2>2, <2>4 DEF Continues, Asking
    <1>4. /\ index # None /\ index.version = op[q].v /\ op[q].n = op[q].v + 1
          /\ index' = [index EXCEPT !.version = op[q].v + 1, !.appended = @ \cup {Appended(q)}]
        BY DEF Note
    <1>5. /\ index.version \in Nat /\ index.base \subseteq Emitter /\ index.appended \subseteq Emitter
          /\ index \in Snapshot
        BY <1>4, BaseType DEF StoreType, Snapshot
    <1>6. /\ index'.version = op[q].v + 1 /\ index'.base = index.base
          /\ index'.appended = index.appended \cup {Appended(q)}
        BY <1>4, <1>5 DEF Snapshot
    <1>7. Pending(q)
        BY <1>3, <1>4 DEF Pending
    <1>8. /\ op'[p].v = op[p].v /\ op[p].v \in 0..version /\ version \in Nat /\ FewerOrNew
          /\ op[q].v < op[p].v
        <2>1. op[p].v \in 1..version
            BY <1>3 DEF Asking, BaseInv, ReadsArePast, Continues
        <2>2. QED
            BY <1>3, <1>4, <1>5, <1>6, <2>1, BaseType, NextPending DEF Continues
    <1>9. /\ AccountedTo(op[q].v + 1, op[p].v)
          /\ \A r \in Ingests : Pending(r) /\ op[r].v \in (op[q].v + 1)..(op[p].v - 1)
                                    => Pending(r)' /\ Still(r)
        BY <1>6, <1>8, AccountStays
    <1>10. AccountedTo(op[q].v, op[p].v)
        <2>1. \A u \in op[q].v..(op[p].v - 1) : u = op[q].v \/ u \in (op[q].v + 1)..(op[p].v - 1)
            BY <1>4, <1>5, <1>8
        <2>2. QED
            BY <1>7, <1>9, <2>1 DEF AccountedTo
    <1>11. SnapshotTells(index.version, op[p].v, index.base, index.appended, Dev(p), p)
        BY <1>3, <1>4, <1>5, <1>8, <1>10, SnapshotParts DEF Continues
    <1>12. /\ Appended(q).id \in Nat /\ Appended(q).rule = {Dev(q)} /\ Appended(q).id = op[q].found
           /\ \A x \in index.appended : x.id \in Nat /\ x.id < Appended(q).id
        <2>1. \A x \in index.appended : x.id \in Nat
            BY <1>5 DEF Emitter, Ids
        <2>2. \A x \in index.appended : x.id < op[q].found
            BY <1>4, <1>5, <1>7 DEF LagInv, AppendedIsOlder
        <2>3. QED
            BY <1>7, <2>1, <2>2, PendingType
    <1> DEFINE A == index.appended
               e == Appended(q)
               d == Dev(p)
    <1>13. /\ Hits(A \cup {e}, d) = Hits(A, d) \cup (IF d \in e.rule THEN {e} ELSE {})
           /\ Hits(A, d) # {} => Oldest(Hits(A \cup {e}, d)) = Oldest(Hits(A, d))
           /\ Hits(A, d) = {} /\ d \in e.rule => Oldest(Hits(A \cup {e}, d)) = e
        BY <1>12, AppendMatches
    <1>14. CASE Hits(index.base, d) # {} \/ Hits(A, d) # {}
        <2>1. FirstMatch(index.base, A \cup {e}, d) = FirstMatch(index.base, A, d)
            BY <1>13, <1>14 DEF FirstMatch
        <2>2. Hits(index.base, d) # {} \/ Hits(A \cup {e}, d) # {}
            BY <1>13, <1>14
        <2>3. FirstMatch(index.base, A, d) \in seen[p].ids
            BY <1>11, <1>14 DEF SnapshotTells
        <2>4. QED
            BY <1>2, <1>6, <2>1, <2>2, <2>3 DEF SnapshotTells
    <1>15. CASE Hits(index.base, d) = {} /\ Hits(A, d) = {} /\ d = Dev(q)
        <2>1. FirstMatch(index.base, A \cup {e}, d) = op[q].found /\ Hits(A \cup {e}, d) # {}
            BY <1>12, <1>13, <1>15 DEF FirstMatch
        <2>2. op[q].found \in seen[p].ids
            BY <1>3, <1>7, <1>8, <1>10, <1>15 DEF SawPending, Continues
        <2>3. QED
            BY <1>2, <1>6, <2>1, <2>2 DEF SnapshotTells
    <1>16. CASE Hits(index.base, d) = {} /\ Hits(A, d) = {} /\ d # Dev(q)
        <2>1. Hits(A \cup {e}, d) = {}
            BY <1>12, <1>13, <1>16
        <2>2. CASE seen[p].none
            BY <1>2, <1>6, <1>16, <2>1, <2>2 DEF SnapshotTells
        <2>3. ASSUME NEW r \in Ingests, Pending(r), Dev(r) = d, op[r].v \in index.version..(op[p].v - 1)
              PROVE  Pending(r)' /\ Still(r) /\ op[r].v \in (op[q].v + 1)..(op[p].v - 1)
            <3>1. op[r].v # op[q].v
                BY <1>7, <1>16, <2>3 DEF LagInv, PendingInOrder
            <3>2. op[r].v \in (op[q].v + 1)..(op[p].v - 1)
                BY <1>4, <1>5, <1>8, <2>3, <3>1
            <3>3. QED
                BY <1>9, <2>3, <3>2
        <2>4. QED
            BY <1>2, <1>6, <1>8, <1>11, <1>16, <2>1, <2>2, <2>3 DEF SnapshotTells, Still
    <1>17. QED
        BY <1>14, <1>15, <1>16

LEMMA InitAnswers == Init => AnswerInv
    <1> SUFFICES ASSUME Init PROVE AnswerInv
        OBVIOUS
    <1>1. \A p \in Ingests : op[p] = Idle
        BY DEF Init
    <1>2. \A p \in Ingests : GoodAnswer(p) /\ SawPending(p) /\ SawSnapshot(p)
        BY <1>1 DEF Idle, GoodAnswer, SawPending, SawSnapshot, Asking
    <1>3. QED
        BY <1>2, AnswerParts

LEMMA NextAnswers ==
    BaseInv /\ LagInv /\ StagesAreHonest /\ AnswerInv /\ [Next]_vars => AnswerInv'
    <1> SUFFICES ASSUME BaseInv, LagInv, StagesAreHonest, AnswerInv, [Next]_vars PROVE AnswerInv'
        OBVIOUS
    <1>1. DevicesStay
        BY DevicesAreKept
    <1>2. \A p \in Ingests : GoodAnswer(p) /\ SawPending(p) /\ SawSnapshot(p)
        BY AnswerParts
    <1>3. CASE Next
        <2> SUFFICES ASSUME NEW p \in Ingests
                     PROVE  GoodAnswer(p)' /\ SawPending(p)' /\ SawSnapshot(p)'
            BY AnswerParts
        <2>1. GoodAnswer(p)'
            <3>1. CASE Ingest(p)
                BY <1>1, <1>2, <1>3, <3>1, IngestAnswers DEF Next
            <3>2. CASE op'[p] = op[p]
                BY <1>1, <1>2, <1>3, <3>2, IngestKeepsAnswer DEF Next
            <3>3. QED
                BY <1>3, <3>1, <3>2, OneMoves, OperatorMovesNone DEF Next
        <2>2. SawPending(p)'
            BY <1>1, <1>2, <1>3, NextPendingSeen
        <2>3. SawSnapshot(p)'
            <3>1. ASSUME NEW q \in Ingests, Reload(q)
                  PROVE  SawSnapshot(p)'
                BY <1>1, <1>3, <3>1, SnapshotLoaded
            <3>2. ASSUME NEW q \in Ingests, Note(q)
                  PROVE  SawSnapshot(p)'
                BY <1>1, <1>2, <1>3, <3>2, SnapshotAppended, SnapshotStays
            <3>3. CASE UNCHANGED index
                BY <1>1, <1>2, <1>3, <3>3, SnapshotStays
            <3>4. UNCHANGED index \/ \E q \in Ingests : Reload(q) \/ Note(q)
                BY <1>3 DEF Next, Ingest, Operator, Finished, Store, ReadVersion, Look, Lock, Attach,
                            Create, Select, NoteVersion, Backfill, CreateEmitter, SetRule, SetEnabled,
                            Delete, AgeOut
            <3>5. QED
                BY <3>1, <3>2, <3>3, <3>4
        <2>4. QED
            BY <2>1, <2>2, <2>3
    <1>4. CASE UNCHANGED vars
        BY <1>4 DEF vars, AnswerInv, AnswerWasLive, CreationWasCalledFor, PendingWasSeen,
                    SnapshotWasRight, Asking, Pending, At, AccountedTo, Known, Dev
    <1>5. QED
        BY <1>3, <1>4

-----------------------------------------------------------------------------
(* No gap between the index and a backfill. *)

LEMMA InitGap == Init => GapInv
    <1> SUFFICES ASSUME Init PROVE GapInv
        OBVIOUS
    <1>1. StagesAreHonest
        BY InitStages
    <1>2. EmittersAreDistinct /\ Len(emissions) = 0
        BY DEF Init, EmittersAreDistinct
    <1>3. NothingIsLost
        BY IdleType DEF Init, NothingIsLost, Nothing, At
    <1>4. QED
        BY <1>1, <1>2, <1>3 DEF GapInv, LeftAlone, SeenTo

\* The ways a step changes the table.
Adds(e) == table' = table \cup {e} /\ e.id = minted + 1 /\ e.on
Edits(e, f) == table' = (table \ {e}) \cup {f} /\ e \in table /\ f.id = e.id /\ f.key = e.key

LEMMA TableChanges ==
    ASSUME BaseInv, Next
    PROVE  \/ UNCHANGED table
           \/ \E e : Adds(e) /\ e.key \in AutoCreate \cup {None}
           \/ \E e, f : Edits(e, f) /\ (f.on = e.on \/ f.on \/ (f.on \in BOOLEAN /\ narrowed'))
           \/ table' \subseteq table /\ narrowed'
    <1>1. ASSUME NEW p \in Ingests, Ingest(p)
          PROVE  UNCHANGED table \/ \E e : Adds(e) /\ e.key \in AutoCreate \cup {None}
        <2>1. CASE Create(p)
            <3> DEFINE e == [id |-> minted', rule |-> {Dev(p)}, on |-> TRUE, key |-> Dev(p)]
            <3>1. \/ UNCHANGED table
                  \/ table' = table \cup {e} /\ minted' = minted + 1 /\ Dev(p) \in AutoCreate
                <4>1. CASE UNCHANGED rows
                    <5>1. table' = table
                        BY <4>1 DEF rows
                    <5>2. QED
                        BY <5>1
                <4>2. Dev(p) \notin AutoCreate \/ KeyTaken(Dev(p)) => UNCHANGED rows
                    BY <2>1 DEF Create
                <4>3. CASE Dev(p) \in AutoCreate /\ ~KeyTaken(Dev(p))
                    BY <2>1, <4>3 DEF Create
                <4>4. QED
                    BY <4>1, <4>2, <4>3
            <3>2. minted' = minted + 1 => e.id = minted + 1 /\ e.on /\ e.key = Dev(p)
                OBVIOUS
            <3> HIDE DEF e
            <3>3. QED
                BY <3>1, <3>2 DEF Adds
        <2>2. CASE ~Create(p)
            BY <1>1, <2>2 DEF Ingest, Store, ReadVersion, Look, Lock, Reload, Attach, Select,
                              NoteVersion, Note, rows
        <2>3. QED
            BY <2>1, <2>2
    <1>2. ASSUME NEW rule \in Stated, CreateEmitter(rule)
          PROVE  \E e : Adds(e) /\ e.key \in AutoCreate \cup {None}
        <2> DEFINE e == [id |-> minted', rule |-> rule, on |-> TRUE, key |-> None]
        <2>1. table' = table \cup {e} /\ e.id = minted + 1 /\ e.on /\ e.key = None
            BY <1>2 DEF CreateEmitter
        <2> HIDE DEF e
        <2>2. QED
            BY <2>1 DEF Adds
    <1>3. ASSUME NEW e \in table, NEW rule \in Stated, SetRule(e, rule)
          PROVE  \E f : Edits(e, f) /\ f.on = e.on
        <2> DEFINE f == [e EXCEPT !.rule = rule]
        <2>1. e \in Emitter
            BY BaseType DEF StoreType
        <2>2. table' = (table \ {e}) \cup {f} /\ f.id = e.id /\ f.key = e.key /\ f.on = e.on
            BY <1>3, <2>1 DEF SetRule, Emitter
        <2> HIDE DEF f
        <2>3. QED
            BY <2>2 DEF Edits
    <1>4. ASSUME NEW e \in table, NEW on \in BOOLEAN, SetEnabled(e, on)
          PROVE  \E f : Edits(e, f) /\ f.on \in BOOLEAN /\ (f.on \/ narrowed')
        <2> DEFINE f == [e EXCEPT !.on = on]
        <2>1. e \in Emitter
            BY BaseType DEF StoreType
        <2>2. table' = (table \ {e}) \cup {f} /\ f.id = e.id /\ f.key = e.key /\ f.on = on
            BY <1>4, <2>1 DEF SetEnabled, Emitter
        <2>3. on \/ narrowed'
            BY <1>4 DEF SetEnabled
        <2> HIDE DEF f
        <2>4. QED
            BY <2>2, <2>3 DEF Edits
    <1>5. ASSUME NEW gone, Delete(gone) \/ AgeOut(gone)
          PROVE  table' \subseteq table /\ narrowed'
        BY <1>5 DEF Delete, AgeOut
    <1>6. CASE Backfill \/ Finished
        BY <1>6 DEF Backfill, Finished, rows
    <1>7. CASE \E rule \in Stated : CreateEmitter(rule)
        BY <1>2, <1>7
    <1>8. CASE \E e \in table, rule \in Stated : SetRule(e, rule)
        <2>1. PICK e \in table, rule \in Stated : SetRule(e, rule)
            BY <1>8
        <2>2. PICK f : Edits(e, f) /\ f.on = e.on
            BY <1>3, <2>1
        <2>3. QED
            BY <2>2
    <1>9. CASE \E e \in table, on \in BOOLEAN : SetEnabled(e, on)
        BY <1>4, <1>9
    <1>10. CASE \E p \in Ingests : Ingest(p)
        BY <1>1, <1>10
    <1>11. \/ \E p \in Ingests : Ingest(p)
           \/ \E rule \in Stated : CreateEmitter(rule)
           \/ \E e \in table, rule \in Stated : SetRule(e, rule)
           \/ \E e \in table, on \in BOOLEAN : SetEnabled(e, on)
           \/ \E gone : Delete(gone) \/ AgeOut(gone)
           \/ Backfill \/ Finished
        BY DEF Next, Operator
    <1>12. QED
        BY <1>5, <1>6, <1>7, <1>8, <1>9, <1>10, <1>11

LEMMA NextDistinct ==
    ASSUME BaseInv, EmittersAreDistinct, Next
    PROVE  EmittersAreDistinct'
    <1>1. /\ \A e \in table : e.id \in Nat /\ e.id <= minted
          /\ minted \in Nat
        BY BaseType DEF StoreType, AgesInOrder, Emitter, Ids
    <1>2. ASSUME NEW e, Adds(e), e.key \in AutoCreate \cup {None}
          PROVE  EmittersAreDistinct'
        BY <1>1, <1>2 DEF EmittersAreDistinct, Adds
    <1>3. ASSUME NEW e, NEW f, Edits(e, f)
          PROVE  EmittersAreDistinct'
        BY <1>3 DEF EmittersAreDistinct, Edits
    <1>4. CASE table' \subseteq table
        BY <1>4 DEF EmittersAreDistinct
    <1>5. QED
        BY <1>2, <1>3, <1>4, TableChanges

\* As long as nothing is disabled or deleted, emitters and identities stay.
LEMMA NothingGoes ==
    ASSUME BaseInv, NothingIsLost, Next, ~narrowed'
    PROVE  /\ ~narrowed /\ \A e \in table' : e.on
           /\ IdsOf(table) \subseteq IdsOf(table')
           /\ \A d : KeyTaken(d) => KeyTaken(d)'
    <1>1. ~narrowed
        BY DEF Next, Ingest, Operator, Finished, Store, ReadVersion, Look, Lock, Reload, Attach, Create,
               Select, NoteVersion, Note, Backfill, CreateEmitter, SetRule, SetEnabled, Delete, AgeOut,
               operator
    <1>2. \A e \in table : e.on
        BY <1>1 DEF NothingIsLost
    <1>3. CASE UNCHANGED table
        BY <1>1, <1>2, <1>3 DEF IdsOf, KeyTaken
    <1>4. ASSUME NEW e, Adds(e)
          PROVE  /\ \A f \in table' : f.on
                 /\ IdsOf(table) \subseteq IdsOf(table')
                 /\ \A d : KeyTaken(d) => KeyTaken(d)'
        BY <1>2, <1>4 DEF Adds, IdsOf, KeyTaken
    <1>5. ASSUME NEW e, NEW f, Edits(e, f), f.on = e.on \/ f.on
          PROVE  /\ \A g \in table' : g.on
                 /\ IdsOf(table) \subseteq IdsOf(table')
                 /\ \A d : KeyTaken(d) => KeyTaken(d)'
        BY <1>2, <1>5 DEF Edits, IdsOf, KeyTaken
    <1>6. QED
        BY <1>1, <1>3, <1>4, <1>5, TableChanges

LEMMA NextNothingLost ==
    ASSUME BaseInv, StagesAreHonest, NothingIsLost, DevicesStay, Next
    PROVE  NothingIsLost'
    <1> SUFFICES ASSUME ~narrowed'
                 PROVE  /\ \A e \in table' : e.on
                        /\ \A p \in Ingests : /\ seen'[p].ids \subseteq IdsOf(table')
                                              /\ At(p, "select")' => KeyTaken(Dev(p))'
        BY DEF NothingIsLost
    <1>1. /\ ~narrowed /\ \A e \in table' : e.on
          /\ IdsOf(table) \subseteq IdsOf(table')
          /\ \A d : KeyTaken(d) => KeyTaken(d)'
        BY NothingGoes
    <1>2. ASSUME NEW p \in Ingests
          PROVE  seen'[p].ids \subseteq IdsOf(table')
        <2>1. \A d : Attachable(table', d) \subseteq IdsOf(table')
            BY DEF Attachable, IdsOf
        <2>2. seen[p].ids \subseteq IdsOf(table')
            BY <1>1 DEF NothingIsLost
        <2>3. seen'[p].ids = {} \/ \E d, S : S \subseteq seen[p].ids /\ seen'[p].ids = S \cup Attachable(table', d)
            <3> DEFINE past == IF op'[p].em = op[p].em THEN seen[p] ELSE Nothing
                       d == emissions'[op'[p].em].dev
            <3>1. seen'[p] = IF op'[p].em = 0 THEN Nothing
                             ELSE [ids |-> past.ids \cup Attachable(table', d),
                                   none |-> past.none \/ Unmatched(table', d)]
                BY DEF Next, Observe
            <3>2. past.ids \subseteq seen[p].ids
                BY DEF Nothing
            <3> HIDE DEF past, d
            <3>3. QED
                BY <3>1, <3>2 DEF Nothing
        <2>4. QED
            BY <2>1, <2>2, <2>3
    <1>3. ASSUME NEW p \in Ingests, At(p, "select")'
          PROVE  KeyTaken(Dev(p))'
        <2>1. op'[p].em = op[p].em /\ ~At(p, "idle") /\ KeyTaken(Dev(p))
            <3>1. CASE Ingest(p)
                <4>1. CASE Stores(p) \/ Leaves(p)
                    BY <1>3, <4>1, IdleType DEF Stores, Leaves, At
                <4>2. CASE Moves(p) /\ op'[p].em = op[p].em
                    BY <1>3, <4>2 DEF Moves, At
                <4>3. QED
                    BY <3>1, <4>1, <4>2, StepsMove
            <3>2. CASE op'[p] = op[p]
                BY <1>1, <1>3, <3>2 DEF NothingIsLost, At
            <3>3. QED
                BY <3>1, <3>2, OneMoves, OperatorMovesNone DEF Next
        <2>2. Dev(p)' = Dev(p)
            BY <2>1, Watched DEF Next
        <2>3. QED
            BY <1>1, <2>1, <2>2 DEF KeyTaken
    <1>4. QED
        BY <1>1, <1>2, <1>3

\* An emission is without an emitter because it was, or because it is new.
LEMMA ToStays ==
    ASSUME BaseInv, DevicesStay, Next, ~narrowed', NEW m \in 1..Len(emissions'), emissions'[m].to = None
    PROVE  \/ m \in 1..Len(emissions) /\ emissions[m].to = None /\ emissions'[m].dev = emissions[m].dev
           \/ m = Len(emissions) + 1 /\ \E p \in Ingests : Ingest(p) /\ Stores(p)
    <1>1. /\ emissions \in Seq(Row) /\ Len(emissions) \in Nat
          /\ \A n \in 1..Len(emissions) : emissions[n] \in Row
        BY EmissionsType
    <1>2. m \in 1..Len(emissions) => emissions'[m].dev = emissions[m].dev
        BY DEF DevicesStay
    <1>3. ASSUME NEW p \in Ingests, NEW d \in Devices, Store(p, d)
          PROVE  \/ m \in 1..Len(emissions) /\ emissions[m].to = None
                 \/ m = Len(emissions) + 1 /\ Ingest(p) /\ Stores(p)
        <2>1. Stores(p) /\ Ingest(p)
            BY <1>3, BaseType DEF Store, Stores, At, Idle, Ingest
        <2>2. [dev |-> d, to |-> None] \in Row
            BY DEF Row
        <2>3. emissions' = Append(emissions, [dev |-> d, to |-> None])
            BY <1>3 DEF Store
        <2>4. Len(emissions') = Len(emissions) + 1
              /\ \A n \in 1..Len(emissions) : emissions'[n] = emissions[n]
            BY <1>1, <2>2, <2>3
        <2>5. QED
            BY <1>1, <2>1, <2>4
    <1>4. ASSUME NEW p \in Ingests, Attach(p)
          PROVE  m \in 1..Len(emissions) /\ emissions[m].to = None
        <2>1. op[p].em \in 1..Len(emissions)
            BY <1>4 DEF BaseInv, ReadsArePast, Attach, At
        <2>2. CASE op[p].found \in IdsOf(table) /\ emissions[op[p].em].to # Deleted
            <3>1. op[p].found # None
                BY <2>2, BaseType, MatchingAssumption DEF IdsOf, StoreType, Emitter, Ids
            <3> DEFINE em == op[p].em
                       to == op[p].found
            <3>2. emissions' = [emissions EXCEPT ![em].to = to]
                BY <1>4, <2>2 DEF Attach
            <3> HIDE DEF em, to
            <3>3. Len(emissions') = Len(emissions) /\ m \in 1..Len(emissions)
                BY <1>1, <3>2
            <3>4. m # em => emissions'[m] = emissions[m]
                BY <1>1, <3>2, <3>3
            <3>5. m = em => emissions'[m] = [emissions[m] EXCEPT !.to = to]
                BY <1>1, <3>2, <3>3
            <3>6. m = em => emissions'[m].to = to
                BY <1>1, <3>3, <3>5 DEF Row
            <3>7. QED
                BY <3>1, <3>3, <3>4, <3>6 DEF to
        <2>3. QED
            BY <1>4, <2>2 DEF Attach
    <1>5. CASE Backfill
        <2>1. /\ backfill # None
              /\ emissions' = [n \in 1..Len(emissions) |->
                        IF /\ backfill \in IdsOf(table) /\ emissions[n].to # Deleted
                           /\ emissions[n].dev \in Entry(backfill).rule
                        THEN [emissions[n] EXCEPT !.to = backfill] ELSE emissions[n]]
            BY <1>5 DEF Backfill
        <2>2. m \in 1..Len(emissions)
            BY <1>1, <2>1
        <2>3. emissions'[m] = emissions[m] \/ emissions'[m] = [emissions[m] EXCEPT !.to = backfill]
            BY <2>1, <2>2
        <2>4. [emissions[m] EXCEPT !.to = backfill].to = backfill
            BY <1>1, <2>2 DEF Row
        <2>5. QED
            BY <2>1, <2>2, <2>3, <2>4
    <1>6. CASE UNCHANGED emissions
        BY <1>6
    <1>7. \/ \E p \in Ingests : Attach(p) \/ \E d \in Devices : Store(p, d)
          \/ Backfill \/ UNCHANGED emissions
        BY DEF Next, Ingest, Operator, Finished, ReadVersion, Look, Lock, Reload, Create,
               Select, NoteVersion, Note, CreateEmitter, SetRule, SetEnabled, Delete, AgeOut
    <1>8. QED
        BY <1>2, <1>3, <1>4, <1>5, <1>6, <1>7

\* What is attached is not without.
LEMMA AttachGives ==
    ASSUME BaseInv, StagesAreHonest, NothingIsLost, AnswerInv, ~narrowed, NEW p \in Ingests, Attach(p),
           emissions[op[p].em].to = None
    PROVE  emissions'[op[p].em].to # None
    <1>1. op[p].em \in 1..Len(emissions) /\ op[p].stage = "attach"
        BY DEF BaseInv, ReadsArePast, Attach, At
    <1>2. op[p].found # None
        BY <1>1 DEF StagesAreHonest
    <1>3. op[p].found \in IdsOf(table)
        BY <1>2 DEF AnswerInv, AnswerWasLive, NothingIsLost
    <1>4. emissions[op[p].em].to # Deleted
        BY MatchingAssumption DEF Deleted
    <1> DEFINE em == op[p].em
               to == op[p].found
    <1>5. emissions' = [emissions EXCEPT ![em].to = to]
        BY <1>3, <1>4 DEF Attach
    <1>6. em \in 1..Len(emissions) /\ to # None
        BY <1>1, <1>2
    <1> HIDE DEF em, to
    <1>7. emissions'[em] = [emissions[em] EXCEPT !.to = to] /\ emissions[em] \in Row
        BY <1>5, <1>6, EmissionsType
    <1>8. emissions'[em].to = to
        BY <1>7 DEF Row
    <1>9. QED
        BY <1>6, <1>8 DEF em

\* An ingest does not end with its emission left alone, if the device is given emitters.
LEMMA LeavingIsRight ==
    ASSUME BaseInv, StagesAreHonest, NothingIsLost, AnswerInv, ~narrowed, NEW p \in Ingests, Leaves(p),
           emissions[op[p].em].to = None, emissions'[op[p].em].to = None
    PROVE  op[p].stage = "create" /\ Dev(p) \notin AutoCreate
    <1>1. ~Attach(p)
        BY AttachGives
    <1>2. ASSUME Select(p), \A e \in table : ~(e.key = Dev(p) /\ e.on)
          PROVE  FALSE
        BY <1>2 DEF NothingIsLost, Select, KeyTaken
    <1>3. QED
        BY <1>1, <1>2 DEF Leaves, Create, At

LEMMA NextLeftAlone ==
    ASSUME BaseInv, StagesAreHonest, NothingIsLost, AnswerInv, LeftAlone, DevicesStay, Next
    PROVE  LeftAlone'
    <1> SUFFICES ASSUME ~narrowed', NEW m \in 1..Len(emissions'), emissions'[m].to = None,
                        \A p \in Ingests : op'[p].em # m
                 PROVE  emissions'[m].dev \notin AutoCreate
        BY DEF LeftAlone
    <1>1. ~narrowed
        BY NothingGoes
    <1>2. m \in 1..Len(emissions) /\ emissions[m].to = None /\ emissions'[m].dev = emissions[m].dev
        BY ToStays DEF Stores
    <1>3. CASE \A p \in Ingests : op[p].em # m
        BY <1>1, <1>2, <1>3 DEF LeftAlone
    <1>4. ASSUME NEW p \in Ingests, op[p].em = m
          PROVE  emissions[m].dev \notin AutoCreate
        <2>1. Ingest(p)
            BY <1>4, OneMoves, OperatorMovesNone DEF Next
        <2>2. ~Stores(p)
            <3>1. m # 0
                BY EmissionsType, <1>2
            <3>2. op[p].stage # "idle"
                BY <1>4, <3>1 DEF StagesAreHonest, At, Idle
            <3>3. QED
                BY <3>2 DEF Stores
        <2>3. Leaves(p)
            BY <1>4, <2>1, <2>2, StepsMove
        <2>4. QED
            BY <1>1, <1>2, <1>4, <2>3, LeavingIsRight DEF Dev
    <1>5. QED
        BY <1>2, <1>3, <1>4

\* With ids that are distinct, an id's entry is the one that has it.
LEMMA EntryIs ==
    ASSUME EmittersAreDistinct, NEW d
    PROVE  Backfilled(d) <=> \E e \in table : e.id = backfill /\ d \in e.rule
    <1>1. ASSUME NEW e \in table, e.id = backfill
          PROVE  Entry(backfill) = e
        BY <1>1 DEF Entry, EmittersAreDistinct
    <1>2. QED
        BY <1>1 DEF Backfilled, IdsOf

BackfilledNext(d) == \E e \in table' : e.id = backfill' /\ d \in e.rule

LEMMA EntryIsNext ==
    ASSUME EmittersAreDistinct', NEW d, BackfilledNext(d)
    PROVE  backfill' \in IdsOf(table') /\ d \in Entry(backfill)'.rule
    <1>1. PICK e \in table' : e.id = backfill' /\ d \in e.rule
        BY DEF BackfilledNext
    <1>2. Entry(backfill)' = e
        BY <1>1 DEF Entry, EmittersAreDistinct
    <1>3. QED
        BY <1>1, <1>2 DEF IdsOf

LEMMA BackfillGives ==
    ASSUME BaseInv, Backfill, NEW m \in 1..Len(emissions), Backfilled(emissions[m].dev),
           emissions[m].to = None
    PROVE  emissions'[m].to # None
    <1>1. emissions[m] \in Row /\ emissions[m].to # Deleted
        BY EmissionsType, MatchingAssumption DEF Deleted
    <1>2. emissions'[m] = [emissions[m] EXCEPT !.to = backfill] /\ backfill # None
        BY <1>1, EmissionsType DEF Backfill, Backfilled
    <1>3. QED
        BY <1>1, <1>2 DEF Row

\* Whoever was to give the emission its emitter still is.
LEMMA StillAttaches ==
    ASSUME BaseInv, LagInv, StagesAreHonest, EmittersAreDistinct, NothingIsLost, AnswerInv,
           DevicesStay, Next, ~narrowed', NEW p \in Ingests, NEW d \in Devices,
           op[p].em \in 1..Len(emissions), emissions[op[p].em].to = None, emissions'[op[p].em].to = None,
           d = Dev(p), ~Unmatched(table', d), WillAttach(p, d)
    PROVE  op'[p].em = op[p].em
           /\ \/ op'[p].found # None
              \/ op'[p].stage \in {"version", "look", "wait", "list"} /\ ~seen'[p].none
              \/ op'[p].stage \in {"version", "look", "wait", "list", "create", "select"} /\ KeyTaken(d)'
    <1>1. ~narrowed /\ (KeyTaken(d) => KeyTaken(d)')
        BY NothingGoes
    <1>2. ~At(p, "idle")
        BY EmissionsType DEF StagesAreHonest, Idle
    <1>3. op'[p].em = op[p].em => (seen'[p].none <=> seen[p].none)
        BY <1>2, Watched DEF Next
    <1>4. KeyTaken(d) => d \in AutoCreate
        BY MatchingAssumption DEF KeyTaken, EmittersAreDistinct
    <1>5. CASE op'[p] = op[p]
        BY <1>1, <1>3, <1>5 DEF WillAttach, Searching, Asking
    <1>6. CASE Leaves(p)
        <2>1. op[p].stage = "create" /\ d \notin AutoCreate
            BY <1>1, <1>6, LeavingIsRight
        <2>2. QED
            BY <1>4, <2>1 DEF WillAttach, Searching, Asking, StagesAreHonest
    <1>7. CASE Moves(p) /\ op'[p].em = op[p].em
        <2>1. op'[p].stage = "create" => seen'[p].none
            BY NextAnswers DEF AnswerInv, CreationWasCalledFor
        <2>2. op[p].stage \in {"attach", "note", "append"} <=> op[p].found # None
            BY DEF StagesAreHonest
        <2>3. op'[p].stage \in {"attach", "note", "append"} <=> op'[p].found # None
            BY NextStages DEF StagesAreHonest
        <2>4. CASE op[p].found # None
            BY <1>7, <2>2, <2>3, <2>4 DEF Moves
        <2>5. CASE op'[p].stage \in {"version", "look", "wait", "list"}
            <3>1. op[p].stage \in {"version", "look", "wait"}
                BY <1>7, <2>5 DEF Moves
            <3>2. QED
                BY <1>1, <1>3, <1>7, <2>2, <2>5, <3>1 DEF WillAttach, Searching, Asking
        <2>6. CASE op'[p].stage = "create"
            <3>1. op[p].stage \in {"look", "wait", "list"}
                BY <1>7, <2>6 DEF Moves
            <3>2. QED
                BY <1>1, <1>3, <1>7, <2>1, <2>2, <2>6, <3>1 DEF WillAttach, Searching, Asking
        <2>7. CASE op'[p].stage = "select"
            <3>1. KeyTaken(d)
                BY <1>7, <2>7 DEF Moves
            <3>2. QED
                BY <1>1, <1>7, <2>7, <3>1
        <2>8. op'[p].stage \in Stages /\ op'[p].stage # "idle"
            BY <1>7, NextBase DEF Moves, BaseInv, TypeOK, Op
        <2>9. QED
            BY <1>7, <2>3, <2>5, <2>6, <2>7, <2>8 DEF Stages
    <1>8. CASE Stores(p)
        BY <1>2, <1>8 DEF Stores, At
    <1>9. QED
        BY <1>5, <1>6, <1>7, <1>8, StepsMove, OneMoves, OperatorMovesNone DEF Next

WillAttachNext(p, d) ==
    \/ op'[p].found # None
    \/ op'[p].stage \in {"version", "look", "wait", "list"} /\ ~seen'[p].none
    \/ op'[p].stage \in {"version", "look", "wait", "list", "create", "select"}
       /\ \E e \in table' : e.key = d

\* Who matches a device that nobody matched.
LEMMA NewRule ==
    ASSUME BaseInv, StagesAreHonest, EmittersAreDistinct, EmittersAreDistinct', NothingIsLost, Next, ~narrowed',
           NEW d, Unmatched(table, d), ~Unmatched(table', d)
    PROVE  \/ BackfilledNext(d)
           \/ \E p \in Ingests : /\ Ingest(p) /\ op'[p].stage = "note" /\ op'[p].em = op[p].em
                                 /\ Dev(p) = d /\ d \in AutoCreate /\ op'[p].found # None
                                 /\ \E e \in table' : e.key = d
    <1>1. ~narrowed /\ \A e \in table : e.on
        BY NothingGoes DEF NothingIsLost
    <1>2. PICK g \in table' : d \in g.rule /\ \A e \in table : d \notin e.rule
        BY <1>1 DEF Unmatched, Hits, EnabledRules
    <1>3. ASSUME NEW p \in Ingests, Ingest(p)
          PROVE  /\ op'[p].stage = "note" /\ op'[p].em = op[p].em
                 /\ Dev(p) = d /\ d \in AutoCreate /\ op'[p].found # None
                 /\ \E e \in table' : e.key = d
        <2>1. ~UNCHANGED table
            BY <1>2
        <2>2. Create(p) /\ ~UNCHANGED rows
            BY <1>3, <2>1 DEF Ingest, Store, ReadVersion, Look, Lock, Reload, Attach, Select, NoteVersion,
                              Note, rows
        <2>3. Dev(p) \in AutoCreate /\ ~KeyTaken(Dev(p))
            BY <2>2 DEF Create
        <2> DEFINE e == [id |-> minted', rule |-> {Dev(p)}, on |-> TRUE, key |-> Dev(p)]
        <2>4. /\ table' = table \cup {e} /\ minted' = minted + 1
              /\ op' = [op EXCEPT ![p].stage = "note", ![p].found = minted']
            BY <2>2, <2>3 DEF Create
        <2>5. e.rule = {Dev(p)} /\ e.key = Dev(p)
            OBVIOUS
        <2>6. op'[p].stage = "note" /\ op'[p].em = op[p].em /\ op'[p].found = minted'
            BY <2>4, BaseType DEF Op
        <2>7. minted' # None
            BY <2>4, BaseType, MatchingAssumption DEF StoreType
        <2> HIDE DEF e
        <2>8. Dev(p) = d
            BY <1>2, <2>4, <2>5
        <2>9. QED
            BY <2>3, <2>4, <2>5, <2>6, <2>7, <2>8
    <1>4. ASSUME NEW rule \in Stated, CreateEmitter(rule)
          PROVE  BackfilledNext(d)
        <2> DEFINE e == [id |-> minted', rule |-> rule, on |-> TRUE, key |-> None]
        <2>1. table' = table \cup {e} /\ e.id = backfill'
            BY <1>4 DEF CreateEmitter
        <2> HIDE DEF e
        <2>2. g = e
            BY <1>2, <2>1
        <2>3. QED
            BY <1>2, <2>1, <2>2 DEF BackfilledNext
    <1>5. ASSUME NEW e \in table, NEW rule \in Stated, SetRule(e, rule)
          PROVE  BackfilledNext(d)
        <2> DEFINE f == [e EXCEPT !.rule = rule]
        <2>1. e \in Emitter
            BY BaseType DEF StoreType
        <2>2. table' = (table \ {e}) \cup {f} /\ f.id = backfill'
            BY <1>5, <2>1 DEF SetRule, Emitter
        <2> HIDE DEF f
        <2>3. g = f
            BY <1>2, <2>2
        <2>4. QED
            BY <1>2, <2>2, <2>3 DEF BackfilledNext
    <1>6. ASSUME NEW e \in table, NEW on \in BOOLEAN, SetEnabled(e, on)
          PROVE  FALSE
        <2> DEFINE f == [e EXCEPT !.on = on]
        <2>1. e \in Emitter
            BY BaseType DEF StoreType
        <2>2. table' = (table \ {e}) \cup {f} /\ f.rule = e.rule
            BY <1>6, <2>1 DEF SetEnabled, Emitter
        <2> HIDE DEF f
        <2>3. QED
            BY <1>2, <2>2
    <1>7. ASSUME NEW gone, Delete(gone) \/ AgeOut(gone)
          PROVE  FALSE
        BY <1>7 DEF Delete, AgeOut
    <1>8. CASE Backfill \/ Finished
        BY <1>2, <1>8 DEF Backfill, Finished, rows
    <1>9. \/ \E p \in Ingests : Ingest(p)
          \/ \E rule \in Stated : CreateEmitter(rule)
          \/ \E e \in table, rule \in Stated : SetRule(e, rule)
          \/ \E e \in table, on \in BOOLEAN : SetEnabled(e, on)
          \/ \E gone : Delete(gone) \/ AgeOut(gone)
          \/ Backfill \/ Finished
        BY DEF Next, Operator
    <1>10. QED
        BY <1>3, <1>4, <1>5, <1>6, <1>7, <1>8, <1>9

\* A backfill that is due stays due until it is run.
LEMMA StillBackfilled ==
    ASSUME BaseInv, EmittersAreDistinct, Next, ~narrowed', ~Backfill, NEW d, Backfilled(d)
    PROVE  BackfilledNext(d)
    <1>1. PICK e \in table : e.id = backfill /\ d \in e.rule
        BY EntryIs
    <1>2. backfill # None
        BY <1>1, BaseType, MatchingAssumption DEF StoreType, Emitter, Ids
    <1>3. UNCHANGED backfill /\ (UNCHANGED table \/ \E f : table' = table \cup {f})
        <2>1. ASSUME NEW p \in Ingests, Ingest(p)
              PROVE  UNCHANGED backfill /\ (UNCHANGED table \/ \E f : table' = table \cup {f})
            BY <2>1 DEF Ingest, Store, ReadVersion, Look, Lock, Reload, Attach, Create, Select, NoteVersion,
                        Note, rows, operator
        <2>2. ~Operator
            BY <1>2 DEF Operator, CreateEmitter, SetRule, SetEnabled, Delete, AgeOut, Edit
        <2>3. CASE Finished
            BY <2>3 DEF Finished, rows, operator
        <2>4. QED
            BY <2>1, <2>2, <2>3 DEF Next
    <1>4. QED
        BY <1>1, <1>3 DEF BackfilledNext

LEMMA NextSeenTo ==
    ASSUME BaseInv, LagInv, GapInv, EmittersAreDistinct', AnswerInv, DevicesStay, Next
    PROVE  SeenTo'
    <1> SUFFICES ASSUME ~narrowed', NEW m \in 1..Len(emissions'), emissions'[m].to = None,
                        ~Unmatched(table', emissions'[m].dev)
                 PROVE  \/ BackfilledNext(emissions'[m].dev)
                        \/ \E p \in Ingests : op'[p].em = m /\ WillAttachNext(p, emissions'[m].dev)
        BY EntryIsNext DEF SeenTo, Backfilled, WillAttach, WillAttachNext, Searching, Asking, KeyTaken
    <1>1. StagesAreHonest /\ EmittersAreDistinct /\ NothingIsLost /\ LeftAlone /\ SeenTo
        BY DEF GapInv
    <1>2. ~narrowed /\ \A d : KeyTaken(d) => KeyTaken(d)'
        BY <1>1, NothingGoes
    <1> DEFINE d == emissions'[m].dev
    <1>3. CASE m = Len(emissions) + 1 /\ \E p \in Ingests : Ingest(p) /\ Stores(p)
        <2>1. PICK p \in Ingests : Ingest(p) /\ Stores(p)
            BY <1>3
        <2>2. op'[p].em = m /\ op'[p].stage = "version" /\ op[p].em = 0 /\ m # 0
            BY <1>1, <1>3, <2>1, EmissionsType DEF Stores, StagesAreHonest, At, Idle
        <2>3. ~seen'[p].none
            BY <2>2 DEF Next, Observe, Nothing
        <2>4. QED
            BY <2>2, <2>3 DEF WillAttachNext
    <1>4. CASE m \in 1..Len(emissions) /\ emissions[m].to = None /\ d = emissions[m].dev
        <2>1. d \in Devices
            BY <1>4, EmissionsType DEF Row
        <2>2. CASE ~Unmatched(table, d)
            <3>1. CASE Backfilled(d)
                <4>1. ~Backfill
                    BY <1>4, <3>1, BackfillGives
                <4>2. QED
                    BY <1>1, <3>1, <4>1, StillBackfilled
            <3>2. ASSUME NEW p \in Ingests, op[p].em = m, WillAttach(p, d)
                  PROVE  op'[p].em = m /\ WillAttachNext(p, d)
                BY <1>1, <1>4, <2>1, <3>2, StillAttaches DEF WillAttachNext, KeyTaken, Dev
            <3>3. QED
                BY <1>1, <1>2, <1>4, <2>2, <3>1, <3>2 DEF SeenTo
        <2>3. CASE Unmatched(table, d)
            <3>1. ASSUME NEW q \in Ingests, Ingest(q), op'[q].stage = "note", op'[q].em = op[q].em,
                         Dev(q) = d, d \in AutoCreate, op'[q].found # None, \E e \in table' : e.key = d
                  PROVE  \E p \in Ingests : op'[p].em = m /\ WillAttachNext(p, d)
                <4>1. PICK p \in Ingests : op[p].em = m
                    BY <1>1, <1>2, <1>4, <3>1 DEF LeftAlone
                <4>2. CASE p = q
                    BY <3>1, <4>1, <4>2 DEF WillAttachNext
                <4>3. CASE p # q
                    <5>1. op'[p] = op[p] /\ op[p] \in Op
                        BY <3>1, <4>3, OneMoves, BaseType
                    <5>2. m # 0 /\ op[p].stage # "idle"
                        BY <1>1, <1>4, <4>1, EmissionsType DEF StagesAreHonest, At, Idle
                    <5>3. op[p].stage \in {"attach", "note", "append"} => op[p].found # None
                        BY <1>1 DEF StagesAreHonest
                    <5>4. QED
                        BY <3>1, <4>1, <5>1, <5>2, <5>3 DEF WillAttachNext, Op, Stages
                <4>4. QED
                    BY <4>2, <4>3
            <3>2. QED
                BY <1>1, <2>3, <3>1, NewRule
        <2>4. QED
            BY <2>2, <2>3
    <1>5. QED
        BY <1>3, <1>4, ToStays

LEMMA NextGap ==
    BaseInv /\ LagInv /\ AnswerInv /\ GapInv /\ [Next]_vars => GapInv'
    <1> SUFFICES ASSUME BaseInv, LagInv, AnswerInv, GapInv, [Next]_vars PROVE GapInv'
        OBVIOUS
    <1>1. CASE Next
        BY <1>1, DevicesAreKept, NextStages, NextDistinct, NextNothingLost, NextLeftAlone, NextSeenTo DEF GapInv
    <1>2. CASE UNCHANGED vars
        BY <1>2 DEF vars, GapInv, StagesAreHonest, EmittersAreDistinct, NothingIsLost, LeftAlone, SeenTo, At,
                    IdsOf, KeyTaken, Dev, Backfilled, Entry, WillAttach, Searching, Asking
    <1>3. QED
        BY <1>1, <1>2

-----------------------------------------------------------------------------
\* Whatever snapshot an ingest was answered from, whoever loaded it or appended to it: the
\* emitter it attaches was there, enabled and right at some moment of the ingest; it
\* creates one only if no rule matched at some moment of it; and, as long as nothing is
\* disabled or deleted, no emission with a rule for it stays without an emitter (matcher.rs,
\* first_match and note_created; emitters.rs, the backfill of a stated rule).
THEOREM AnswersWereLive == Spec => []AnswersAreLive
    <1>1. BaseInv /\ AnswerInv /\ GapInv => AnswersAreLive
        <2> SUFFICES ASSUME BaseInv, AnswerInv, GapInv, Quiet, ~narrowed, NEW m \in 1..Len(emissions),
                            emissions[m].to = None
                     PROVE  Unmatched(table, emissions[m].dev)
            BY DEF AnswersAreLive, AnswerInv, NoGap
        <2>1. \A p \in Ingests : op[p] = Idle
            BY DEF Quiet, GapInv, StagesAreHonest
        <2>2. \A p \in Ingests : op[p].em # m
            BY <2>1 DEF Idle
        <2>3. ASSUME Backfilled(emissions[m].dev)
              PROVE  FALSE
            BY <2>3, BaseType, MatchingAssumption DEF Quiet, Backfilled, IdsOf, StoreType, Emitter, Ids
        <2>4. QED
            BY <2>2, <2>3 DEF GapInv, SeenTo
    <1>2. QED
        BY <1>1, InitBase, NextBase, InitLag, NextLag, InitStages, NextStages, InitAnswers, NextAnswers,
           InitGap, NextGap, PTL DEF Spec, GapInv

-----------------------------------------------------------------------------
(* The lists and their pages.                                                *)

\* The order of a list over a table: strict and total, whatever the keys.
Less(tab, dir, a, b) ==
    \/ Lists!KeyBefore(dir, tab[a].key, tab[b].key)
    \/ tab[a].key = tab[b].key /\ IF dir = "asc" THEN a < b ELSE a > b

Smaller(tab, rows_of, dir, id) == {r \in rows_of : Less(tab, dir, r, id)}

RankOf(tab, rows_of, dir, id) == Cardinality(Smaller(tab, rows_of, dir, id))

RowFields == {"key", "owned", "located"}

TableTyped(tab) ==
    /\ DOMAIN tab \subseteq Nat /\ IsFiniteSet(DOMAIN tab)
    /\ \A id \in DOMAIN tab : DOMAIN tab[id] = RowFields /\ tab[id].key \in Nat \cup {NoValue}

LEMMA OrderIsStrict ==
    ASSUME NEW tab, TableTyped(tab), NEW dir, NEW a \in DOMAIN tab, NEW b \in DOMAIN tab
    PROVE  /\ ~Less(tab, dir, a, a)
           /\ a # b => Less(tab, dir, a, b) \/ Less(tab, dir, b, a)
    BY DEF Less, TableTyped, Lists!KeyBefore

LEMMA OrderIsTransitive ==
    ASSUME NEW tab, TableTyped(tab), NEW dir,
           NEW a \in DOMAIN tab, NEW b \in DOMAIN tab, NEW c \in DOMAIN tab,
           Less(tab, dir, a, b), Less(tab, dir, b, c)
    PROVE  Less(tab, dir, a, c)
    BY DEF Less, TableTyped, Lists!KeyBefore

\* A row that comes later has a higher rank, and every rank is below the number of rows.
LEMMA RanksAreOrdered ==
    ASSUME NEW tab, TableTyped(tab), NEW dir, NEW M \in SUBSET DOMAIN tab, NEW a \in M
    PROVE  /\ IsFiniteSet(M) /\ Cardinality(M) \in Nat
           /\ RankOf(tab, M, dir, a) \in Nat
           /\ RankOf(tab, M, dir, a) < Cardinality(M)
           /\ \A b \in M : Less(tab, dir, a, b) => RankOf(tab, M, dir, a) < RankOf(tab, M, dir, b)
    <1>1. IsFiniteSet(M) /\ Cardinality(M) \in Nat
        BY FS_Subset, FS_CardinalityType DEF TableTyped
    <1>2. \A id, S : S \in SUBSET M => IsFiniteSet(S) /\ Cardinality(S) \in Nat
        BY <1>1, FS_Subset, FS_CardinalityType
    <1>3. ~Less(tab, dir, a, a)
        BY OrderIsStrict
    <1>4. ASSUME NEW S \in SUBSET M, Smaller(tab, M, dir, a) \cup {a} \subseteq S
          PROVE  RankOf(tab, M, dir, a) < Cardinality(S)
        <2>1. a \notin Smaller(tab, M, dir, a) /\ Smaller(tab, M, dir, a) \in SUBSET M
            BY <1>3 DEF Smaller
        <2>2. Cardinality(Smaller(tab, M, dir, a) \cup {a}) = RankOf(tab, M, dir, a) + 1
            BY <1>2, <2>1, FS_AddElement DEF RankOf
        <2>3. Cardinality(Smaller(tab, M, dir, a) \cup {a}) <= Cardinality(S)
            BY <1>2, <1>4, FS_Subset
        <2> QED
            BY <1>2, <2>1, <2>2, <2>3 DEF RankOf
    <1>5. RankOf(tab, M, dir, a) \in Nat /\ RankOf(tab, M, dir, a) < Cardinality(M)
        BY <1>2, <1>4 DEF Smaller, RankOf
    <1>6. ASSUME NEW b \in M, Less(tab, dir, a, b)
          PROVE  RankOf(tab, M, dir, a) < RankOf(tab, M, dir, b)
        <2>1. Smaller(tab, M, dir, a) \cup {a} \subseteq Smaller(tab, M, dir, b)
            BY <1>6, OrderIsTransitive DEF Smaller
        <2>2. Smaller(tab, M, dir, b) \in SUBSET M
            BY DEF Smaller
        <2> QED
            BY <1>4, <2>1, <2>2 DEF RankOf
    <1> QED
        BY <1>1, <1>5, <1>6

\* Among more rows, of which those there were have not sunk, the rank of one that kept its key
\* only grows.
LEMMA RanksOnlyGrow ==
    ASSUME NEW tab, TableTyped(tab), NEW new, TableTyped(new), NEW dir,
           NEW M \in SUBSET DOMAIN tab, NEW N \in SUBSET DOMAIN new,
           M \in SUBSET N, NEW a \in M, tab[a].key = new[a].key,
           \A id \in M : ~Lists!KeyBefore(dir, tab[id].key, new[id].key)
    PROVE  RankOf(tab, M, dir, a) <= RankOf(new, N, dir, a)
    <1>1. Smaller(tab, M, dir, a) \subseteq Smaller(new, N, dir, a)
        <2>1. ASSUME NEW r \in M, Less(tab, dir, r, a)
              PROVE  Less(new, dir, r, a)
            BY <2>1 DEF Less, TableTyped, Lists!KeyBefore
        <2> QED
            BY <2>1 DEF Smaller
    <1>2. IsFiniteSet(Smaller(new, N, dir, a))
        BY FS_Subset DEF TableTyped, Smaller
    <1> QED
        BY <1>1, <1>2, FS_Subset DEF RankOf

\* A page is the rows whose ranks it spans: as many as it may have, or the last ones.
PageSpan(n, limit, offset) == {i \in 0..(n - 1) : offset <= i /\ i < offset + limit}

LEMMA SpanIsFull ==
    ASSUME NEW n \in Nat, NEW limit \in Nat \ {0}, NEW offset \in Nat
    PROVE  /\ offset + limit <= n => Cardinality(PageSpan(n, limit, offset)) = limit
           /\ offset = 0 /\ n < limit => Cardinality(PageSpan(n, limit, offset)) = n
    <1>1. offset + limit <= n => PageSpan(n, limit, offset) = offset..(offset + limit - 1)
        BY DEF PageSpan
    <1>2. offset = 0 /\ n < limit => PageSpan(n, limit, offset) = 0..(n - 1)
        BY DEF PageSpan
    <1>3. Cardinality(offset..(offset + limit - 1)) = limit
        BY FS_Interval
    <1>4. Cardinality(0..(n - 1)) = n
        BY FS_Interval
    <1> QED
        BY <1>1, <1>2, <1>3, <1>4

\* Paging counts as this module does.
LEMMA ListsCountAlike ==
    /\ \A S : Lists!Cardinality(S) = Cardinality(S)
    /\ \A S : Lists!IsFiniteSet(S) = IsFiniteSet(S)
    <1>1. \A S : Lists!Cardinality(S) = Cardinality(S)
        BY DEF Lists!Cardinality, Cardinality
    <1>2. \A S : Lists!IsFiniteSet(S) = IsFiniteSet(S)
        BY DEF Lists!IsFiniteSet, IsFiniteSet
    <1> QED
        BY <1>1, <1>2

LEMMA PageIsWindow ==
    ASSUME TableTyped(rows_listed), NEW M \in SUBSET DOMAIN rows_listed, NEW dir,
           NEW limit \in Nat \ {0}, NEW offset \in Nat,
           NEW page, page \in Lists!Pages(M, dir, limit, offset)
    PROVE  /\ page \subseteq M
           /\ \A id \in M : id \in page <=> /\ offset <= RankOf(rows_listed, M, dir, id)
                                            /\ RankOf(rows_listed, M, dir, id) < offset + limit
           /\ IsFiniteSet(M) /\ Cardinality(M) \in Nat
           /\ offset + limit <= Cardinality(M) => Cardinality(page) = limit
           /\ offset = 0 /\ Cardinality(M) < limit => Cardinality(page) = Cardinality(M)
    <1> DEFINE Rank(id) == Lists!Cardinality(Lists!Ahead(M, dir, id))
               Tied(id) == {r \in M : Rank(r) = Rank(id)}
               Last(id) == Rank(id) + Lists!Cardinality(Tied(id)) - 1
    <1>1. \A id \in M : Lists!Ahead(M, dir, id) = Smaller(rows_listed, M, dir, id)
        BY DEF Lists!Ahead, Lists!Before, Smaller, Less
    <1>2. \A id \in M : Rank(id) = RankOf(rows_listed, M, dir, id)
        BY <1>1, ListsCountAlike DEF RankOf
    <1>3. \A id \in M : Rank(id) \in Nat
        BY <1>2, RanksAreOrdered
    <1>4. ASSUME NEW id \in M, NEW r \in M, Rank(r) = Rank(id)
          PROVE  r = id
        <2>1. ~Less(rows_listed, dir, r, id) /\ ~Less(rows_listed, dir, id, r)
            BY <1>2, <1>3, <1>4, RanksAreOrdered
        <2> QED
            BY <2>1, OrderIsStrict
    <1>5. \A id \in M : Tied(id) = {id}
        BY <1>4
    <1>6. \A id \in M : Last(id) = Rank(id)
        <2>1. \A x : Cardinality({x}) = 1
            BY FS_Singleton
        <2>2. \A id \in M : Lists!Cardinality(Tied(id)) = 1
            BY <1>5, <2>1, ListsCountAlike
        <2> HIDE DEF Rank, Tied
        <2> QED
            BY <1>3, <2>2
    <1>7. /\ page \subseteq {id \in M : Rank(id) < offset + limit /\ Last(id) >= offset}
          /\ {id \in M : offset <= Rank(id) /\ Last(id) < offset + limit} \subseteq page
          /\ Cardinality(page) = Cardinality(PageSpan(Cardinality(M), limit, offset))
        <2>1. Lists!Pages(M, dir, limit, offset) =
                  {p \in SUBSET {id \in M : Rank(id) < offset + limit /\ Last(id) >= offset} :
                      /\ {id \in M : offset <= Rank(id) /\ Last(id) < offset + limit} \subseteq p
                      /\ Lists!Cardinality(p) = Lists!Cardinality(PageSpan(Lists!Cardinality(M), limit, offset))}
            BY Zenon DEF Lists!Pages, PageSpan
        <2> HIDE DEF Rank, Last
        <2> QED
            BY <2>1, ListsCountAlike
    <1>8. /\ page \subseteq M
          /\ \A id \in M : id \in page <=> /\ offset <= RankOf(rows_listed, M, dir, id)
                                           /\ RankOf(rows_listed, M, dir, id) < offset + limit
        <2>1. \A id \in page : id \in M /\ offset <= Rank(id) /\ Rank(id) < offset + limit
            BY <1>3, <1>6, <1>7
        <2>2. \A id \in M : offset <= Rank(id) /\ Rank(id) < offset + limit => id \in page
            BY <1>3, <1>6, <1>7
        <2> QED
            BY <1>2, <2>1, <2>2
    <1>9. IsFiniteSet(M) /\ Cardinality(M) \in Nat
        BY FS_Subset, FS_CardinalityType DEF TableTyped
    <1> QED
        BY <1>7, <1>8, <1>9, SpanIsFull


\* The rows of a table that a filter lets through.
Chosen(tab, filter) ==
    {id \in DOMAIN tab : CASE filter = "all" -> TRUE
                           [] filter = "unassigned" -> ~tab[id].owned
                           [] filter = "located" -> tab[id].located}

ListingFields ==
    {"at", "filter", "dir", "limit", "offset", "total", "shown", "stayed", "left", "quiet"}

\* How far a listing has got: the ranks below are on the pages it has.
Reached(r) == IF r.at = "select" THEN r.offset ELSE r.offset + r.limit

\* Strengthening: of the rows that stayed, those with a rank the listing has passed were shown,
\* unless one has left; where nothing changed, nothing else was, and the total is right.
ListingOK(tab, r) ==
    LET there == Chosen(tab, r.filter) IN
    /\ DOMAIN r = ListingFields /\ r.filter \in {"all", "unassigned"}
    /\ r.limit \in Nat \ {0} /\ r.offset \in Nat
    /\ r.stayed \subseteq there
    /\ ~r.left => \A id \in r.stayed : RankOf(tab, there, r.dir, id) < Reached(r) => id \in r.shown
    /\ r.quiet => ~r.left /\ r.stayed = there /\ r.shown \subseteq there /\ r.total = Cardinality(there)

ReaderOK(tab, r) ==
    /\ r.at \in {"idle", "select", "next", "listed", "counted", "mapped"}
    /\ r.at \in {"select", "next"} => ListingOK(tab, r)
    /\ r.at = "counted" => /\ DOMAIN r = {"at", "filter", "total", "quiet"}
                           /\ r.quiet => r.total = Cardinality(Chosen(tab, "located"))

ListsInv == TableTyped(rows_listed) /\ ReaderOK(rows_listed, reader) /\ PagesAreComplete

LEMMA MatchingIsChosen == \A filter : Lists!Matching(filter) = Chosen(rows_listed, filter)
    BY Zenon DEF Lists!Matching, Chosen

LEMMA ListsInitially == SuiteInit => ListsInv
    <1> SUFFICES ASSUME SuiteInit PROVE ListsInv
        OBVIOUS
    <1>1. PICK spare \in ListedIds : rows_listed \in [ListedIds \ {spare} -> ListedRows]
        BY DEF SuiteInit, Lists!Init
    <1>2. reader.at = "idle"
        BY DEF SuiteInit, Lists!Init, Lists!Idle
    <1>3. TableTyped(rows_listed)
        <2>1. ListedIds \subseteq Nat /\ IsFiniteSet(ListedIds)
            BY ListsAreSound, ListsCountAlike DEF Lists!PagingAssumption
        <2>2. IsFiniteSet(ListedIds \ {spare})
            BY <2>1, FS_Subset
        <2> QED
            BY <1>1, <2>1, <2>2, ListsAreSound DEF TableTyped, Lists!PagingAssumption, RowFields
    <1> QED
        BY <1>2, <1>3 DEF ListsInv, ReaderOK, PagesAreComplete, Lists!EveryRowIsShown, Lists!TruncatedIsTrue

LEMMA ListsUntouched ==
    ASSUME ListsInv, UNCHANGED listsVars
    PROVE  ListsInv'
    BY DEF ListsInv, listsVars, PagesAreComplete, Lists!EveryRowIsShown, Lists!TruncatedIsTrue

\* The client's own steps.
LEMMA OpenStep ==
    ASSUME ListsInv, Lists!Open
    PROVE  ListsInv'
    <1>1. PICK filter \in {"all", "unassigned"}, dir \in SortedBy, asked \in SentLimits :
             reader' = [at |-> "select", filter |-> filter, dir |-> dir, limit |-> Lists!Clamp(asked),
                        offset |-> 0, total |-> Lists!Cardinality(Lists!Matching(filter)), shown |-> {},
                        stayed |-> Lists!Matching(filter), left |-> FALSE, quiet |-> TRUE]
        BY DEF Lists!Open
    <1>2. UNCHANGED rows_listed
        BY DEF Lists!Open
    <1>3. Lists!Clamp(asked) \in Nat \ {0}
        BY ListsAreSound DEF Lists!Clamp, Lists!PagingAssumption
    <1>4. \A id \in Chosen(rows_listed, filter) : RankOf(rows_listed, Chosen(rows_listed, filter), dir, id) \in Nat
        BY RanksAreOrdered DEF ListsInv, Chosen
    <1> DEFINE r == [at |-> "select", filter |-> filter, dir |-> dir, limit |-> Lists!Clamp(asked),
                     offset |-> 0, total |-> Cardinality(Chosen(rows_listed, filter)), shown |-> {},
                     stayed |-> Chosen(rows_listed, filter), left |-> FALSE, quiet |-> TRUE]
    <1>5. reader' = r
        BY <1>1, MatchingIsChosen, ListsCountAlike
    <1>6. /\ DOMAIN r = ListingFields /\ r.at = "select" /\ r.filter = filter /\ r.dir = dir /\ r.offset = 0
          /\ r.limit \in Nat \ {0} /\ r.shown = {} /\ r.stayed = Chosen(rows_listed, filter)
          /\ ~r.left /\ r.total = Cardinality(Chosen(rows_listed, filter))
        BY <1>3 DEF ListingFields
    <1> HIDE DEF r
    <1>7. ListingOK(rows_listed, r)
        BY <1>4, <1>6 DEF ListingOK, Reached
    <1> QED
        BY <1>2, <1>5, <1>6, <1>7 DEF ListsInv, ReaderOK, PagesAreComplete, Lists!EveryRowIsShown, Lists!TruncatedIsTrue

LEMMA SelectStep ==
    ASSUME ListsInv, Lists!Select
    PROVE  ListsInv'
    <1> DEFINE there == Chosen(rows_listed, reader.filter)
    <1>1. reader.at = "select" /\ ListingOK(rows_listed, reader) /\ UNCHANGED rows_listed /\ TableTyped(rows_listed)
        BY DEF Lists!Select, ListsInv, ReaderOK
    <1>2. PICK page \in Lists!Pages(there, reader.dir, reader.limit, reader.offset) :
             reader' = [reader EXCEPT
                          !.at = IF Cardinality(page) < reader.limit THEN "listed" ELSE "next",
                          !.shown = @ \cup page]
        BY MatchingIsChosen, ListsCountAlike DEF Lists!Select
    <1>3. there \in SUBSET DOMAIN rows_listed
        BY DEF Chosen
    <1>4. /\ reader.limit \in Nat \ {0} /\ reader.offset \in Nat /\ DOMAIN reader = ListingFields
          /\ reader.filter \in {"all", "unassigned"} /\ reader.stayed \subseteq there
        BY <1>1 DEF ListingOK
    <1> HIDE DEF there
    <1>5. /\ page \subseteq there
          /\ \A id \in there :
                id \in page <=> /\ reader.offset <= RankOf(rows_listed, there, reader.dir, id)
                               /\ RankOf(rows_listed, there, reader.dir, id) < reader.offset + reader.limit
          /\ Cardinality(there) \in Nat
          /\ reader.offset + reader.limit <= Cardinality(there) => Cardinality(page) = reader.limit
        <2>1. ASSUME NEW limit \in Nat \ {0}, NEW offset \in Nat, NEW dir,
                     page \in Lists!Pages(there, dir, limit, offset)
              PROVE  /\ page \subseteq there
                     /\ \A id \in there : id \in page <=> /\ offset <= RankOf(rows_listed, there, dir, id)
                                                          /\ RankOf(rows_listed, there, dir, id) < offset + limit
                     /\ Cardinality(there) \in Nat
                     /\ offset + limit <= Cardinality(there) => Cardinality(page) = limit
            BY <1>1, <1>3, <2>1, PageIsWindow
        <2> QED
            BY <1>2, <1>4, <2>1
    <1>6. \A id \in there : /\ RankOf(rows_listed, there, reader.dir, id) \in Nat
                            /\ RankOf(rows_listed, there, reader.dir, id) < Cardinality(there)
        BY <1>1, <1>3, RanksAreOrdered
    <1>7. /\ DOMAIN reader' = ListingFields /\ reader'.at \in {"listed", "next"}
          /\ reader'.shown = reader.shown \cup page
          /\ reader'.filter = reader.filter /\ reader'.dir = reader.dir /\ reader'.limit = reader.limit
          /\ reader'.offset = reader.offset /\ reader'.total = reader.total /\ reader'.stayed = reader.stayed
          /\ reader'.left = reader.left /\ reader'.quiet = reader.quiet
          /\ reader'.at = "listed" => Cardinality(page) < reader.limit
        BY <1>2, <1>4 DEF ListingFields
    <1>8. ~reader.left => \A id \in reader.stayed :
              RankOf(rows_listed, there, reader.dir, id) < reader.offset + reader.limit => id \in reader.shown \cup page
        <2>1. ~reader.left => \A id \in reader.stayed :
                  RankOf(rows_listed, there, reader.dir, id) < reader.offset => id \in reader.shown
            BY <1>1 DEF ListingOK, Reached, there
        <2> QED
            BY <1>4, <1>5, <1>6, <2>1
    <1>9. reader.quiet => /\ ~reader.left /\ reader.stayed = there /\ reader.shown \cup page \subseteq there
                          /\ reader.total = Cardinality(there)
        BY <1>1, <1>5 DEF ListingOK, there
    <1>10. CASE reader'.at = "next"
        <2>1. ListingOK(rows_listed, reader')
            BY <1>4, <1>7, <1>8, <1>9, <1>10 DEF ListingOK, Reached, there
        <2> QED
            BY <1>1, <1>10, <2>1 DEF ListsInv, ReaderOK, PagesAreComplete, Lists!EveryRowIsShown, Lists!TruncatedIsTrue
    <1>11. CASE reader'.at = "listed"
        <2>1. ~reader.left => reader.stayed \subseteq reader.shown \cup page
            BY <1>4, <1>5, <1>6, <1>7, <1>8, <1>11
        <2>2. reader.quiet => reader.total = Cardinality(reader.shown \cup page)
            BY <1>9, <2>1
        <2>3. Lists!EveryRowIsShown'
            BY <1>7, <2>1, <2>2, ListsCountAlike DEF Lists!EveryRowIsShown
        <2> QED
            BY <1>1, <1>11, <2>3 DEF ListsInv, ReaderOK, PagesAreComplete, Lists!TruncatedIsTrue
    <1> QED
        BY <1>7, <1>10, <1>11

LEMMA TurnStep ==
    ASSUME ListsInv, Lists!Turn
    PROVE  ListsInv'
    <1>1. /\ reader.at = "next" /\ ListingOK(rows_listed, reader) /\ UNCHANGED rows_listed
          /\ reader' = [reader EXCEPT !.at = "select", !.offset = @ + reader.limit,
                                      !.total = Cardinality(Chosen(rows_listed, reader.filter))]
        BY MatchingIsChosen, ListsCountAlike DEF Lists!Turn, ListsInv, ReaderOK
    <1>2. DOMAIN reader = ListingFields
        BY <1>1 DEF ListingOK
    <1>3. /\ DOMAIN reader' = ListingFields /\ reader'.at = "select" /\ reader'.shown = reader.shown
          /\ reader'.filter = reader.filter /\ reader'.dir = reader.dir /\ reader'.limit = reader.limit
          /\ reader'.offset = reader.offset + reader.limit /\ reader'.stayed = reader.stayed
          /\ reader'.total = Cardinality(Chosen(rows_listed, reader.filter))
          /\ reader'.left = reader.left /\ reader'.quiet = reader.quiet
        BY <1>1, <1>2 DEF ListingFields
    <1>4. ListingOK(rows_listed, reader')
        BY <1>1, <1>3 DEF ListingOK, Reached
    <1> QED
        BY <1>1, <1>3, <1>4 DEF ListsInv, ReaderOK, PagesAreComplete, Lists!EveryRowIsShown, Lists!TruncatedIsTrue

LEMMA MapSteps ==
    ASSUME ListsInv, Lists!Count \/ Lists!Fetch \/ Lists!Close
    PROVE  ListsInv'
    <1> DEFINE there == Chosen(rows_listed, "located")
    <1>1. CASE Lists!Count
        <2>1. reader' = [at |-> "counted", filter |-> "located", total |-> Cardinality(there), quiet |-> TRUE]
            BY <1>1, MatchingIsChosen, ListsCountAlike DEF Lists!Count, Lists!Counted
        <2>2. UNCHANGED rows_listed
            BY <1>1 DEF Lists!Count
        <2> QED
            BY <2>1, <2>2 DEF ListsInv, ReaderOK, PagesAreComplete, Lists!EveryRowIsShown, Lists!TruncatedIsTrue
    <1>2. CASE Lists!Fetch
        <2>1. reader.at = "counted" /\ UNCHANGED rows_listed /\ TableTyped(rows_listed)
            BY <1>2 DEF Lists!Fetch, ListsInv
        <2>2. PICK page \in Lists!Pages(there, "desc", PointsAtMost, 0) :
                 reader' = [at |-> "mapped", quiet |-> reader.quiet, shown |-> page, there |-> there,
                            truncated |-> reader.total > Cardinality(page)]
            BY <1>2, MatchingIsChosen, ListsCountAlike DEF Lists!Fetch
        <2>3. there \in SUBSET DOMAIN rows_listed /\ PointsAtMost \in Nat \ {0}
            BY ListsAreSound DEF Chosen, Lists!PagingAssumption
        <2>4. reader.quiet => reader.total = Cardinality(there)
            BY <2>1 DEF ListsInv, ReaderOK
        <2> HIDE DEF there
        <2>5. /\ page \in SUBSET there /\ IsFiniteSet(there) /\ Cardinality(there) \in Nat
              /\ PointsAtMost <= Cardinality(there) => Cardinality(page) = PointsAtMost
              /\ Cardinality(there) < PointsAtMost => Cardinality(page) = Cardinality(there)
            <3>1. /\ page \subseteq there /\ IsFiniteSet(there) /\ Cardinality(there) \in Nat
                  /\ 0 + PointsAtMost <= Cardinality(there) => Cardinality(page) = PointsAtMost
                  /\ 0 = 0 /\ Cardinality(there) < PointsAtMost => Cardinality(page) = Cardinality(there)
                BY <2>1, <2>2, <2>3, PageIsWindow
            <3> QED
                BY <2>3, <3>1
        <2>6. /\ Cardinality(page) \in Nat /\ Cardinality(page) <= Cardinality(there)
              /\ Cardinality(page) = Cardinality(there) <=> page = there
            BY <2>5, FS_Subset, FS_CardinalityType
        <2>7. reader'.at = "mapped" /\ reader'.shown = page /\ reader'.there = there /\ reader'.quiet = reader.quiet
            BY <2>2
        <2>8. reader'.truncated <=> reader.total > Cardinality(page)
            BY <2>2
        <2>9. Lists!TruncatedIsTrue'
            BY <2>3, <2>4, <2>5, <2>6, <2>7, <2>8, ListsCountAlike DEF Lists!TruncatedIsTrue
        <2> QED
            BY <2>1, <2>7, <2>9 DEF ListsInv, ReaderOK, PagesAreComplete, Lists!EveryRowIsShown
    <1>3. CASE Lists!Close
        <2>1. reader'.at = "idle" /\ UNCHANGED rows_listed
            BY <1>3 DEF Lists!Close, Lists!Idle
        <2> QED
            BY <2>1 DEF ListsInv, ReaderOK, PagesAreComplete, Lists!EveryRowIsShown, Lists!TruncatedIsTrue
    <1> QED
        BY <1>1, <1>2, <1>3


\* The others.  A listing has the rows that stayed where it had them, or later.
LEMMA ChangedStep ==
    ASSUME ListsInv, NEW new, Lists!Changed(new), TableTyped(new)
    PROVE  ListsInv'
    <1>1. rows_listed' = new
        BY DEF Lists!Changed
    <1>2. CASE reader.at \in {"select", "next"}
        <2> DEFINE M == Chosen(rows_listed, reader.filter)
                   N == Chosen(new, reader.filter)
                   Stays(id) == id \in DOMAIN new /\ (reader.filter = "all" \/ ~new[id].owned)
                   Sinks(id) == Stays(id) /\ Lists!KeyBefore(reader.dir, rows_listed[id].key, new[id].key)
        <2>1. /\ ListingOK(rows_listed, reader) /\ TableTyped(rows_listed)
              /\ DOMAIN reader = ListingFields /\ reader.filter \in {"all", "unassigned"}
              /\ reader.limit \in Nat \ {0} /\ reader.offset \in Nat
            BY <1>2 DEF ListsInv, ReaderOK, ListingOK
        <2>2. reader' = [reader EXCEPT
                           !.quiet = FALSE,
                           !.stayed = {id \in @ : Stays(id) /\ new[id].key = rows_listed[id].key},
                           !.left = @ \/ \E id \in M : ~Stays(id) \/ Sinks(id)]
            BY <1>2, MatchingIsChosen DEF Lists!Changed
        <2>3. /\ DOMAIN reader' = ListingFields /\ reader'.at = reader.at
              /\ reader'.shown = reader.shown /\ reader'.filter = reader.filter /\ reader'.dir = reader.dir
              /\ reader'.limit = reader.limit /\ reader'.offset = reader.offset
              /\ reader'.stayed = {id \in reader.stayed : Stays(id) /\ new[id].key = rows_listed[id].key}
              /\ reader'.quiet = FALSE
            BY <2>1, <2>2 DEF ListingFields
        <2>4. reader'.left <=> reader.left \/ \E id \in M : ~Stays(id) \/ Sinks(id)
            BY <2>1, <2>2 DEF ListingFields
        <2>5. M \in SUBSET DOMAIN rows_listed /\ N \in SUBSET DOMAIN new
            BY DEF Chosen
        <2>6. \A id \in M : Stays(id) => id \in N
            BY <2>1 DEF Chosen
        <2>7. reader.stayed \subseteq M
            BY <2>1 DEF ListingOK
        <2>8. ~reader.left => \A id \in reader.stayed :
                  RankOf(rows_listed, M, reader.dir, id) < Reached(reader) => id \in reader.shown
            BY <2>1 DEF ListingOK
        <2> DEFINE Back(id) == Lists!KeyBefore(reader.dir, rows_listed[id].key, new[id].key)
        <2>13. \A id \in M : Sinks(id) <=> Stays(id) /\ Back(id)
            OBVIOUS
        <2> HIDE DEF M, N, Stays, Sinks
        <2>9. ASSUME ~reader'.left, NEW id \in reader'.stayed, RankOf(new, N, reader.dir, id) < Reached(reader)
              PROVE  id \in reader.shown
            <3>1. ~reader.left /\ \A i \in M : Stays(i) /\ ~Back(i)
                BY <2>4, <2>9, <2>13
            <3>2. id \in reader.stayed /\ id \in M /\ M \in SUBSET N
                BY <2>3, <2>6, <2>7, <3>1
            <3>3. rows_listed[id].key = new[id].key
                BY <2>3, <2>9
            <3>4. RankOf(rows_listed, M, reader.dir, id) <= RankOf(new, N, reader.dir, id)
                BY <2>1, <2>5, <3>1, <3>2, <3>3, RanksOnlyGrow
            <3>5. RankOf(rows_listed, M, reader.dir, id) \in Nat /\ RankOf(new, N, reader.dir, id) \in Nat
                BY <2>1, <2>5, <3>2, RanksAreOrdered
            <3>6. Reached(reader) \in Nat
                BY <2>1 DEF Reached
            <3> QED
                BY <2>8, <2>9, <3>1, <3>2, <3>4, <3>5, <3>6
        <2>10. reader'.stayed \subseteq N
            BY <2>3, <2>6, <2>7
        <2>11. Reached(reader') = Reached(reader)
            BY <2>3 DEF Reached
        <2>12. ListingOK(new, reader')
            BY <2>1, <2>3, <2>9, <2>10, <2>11 DEF ListingOK, N
        <2> QED
            BY <1>1, <1>2, <2>3, <2>12
            DEF ListsInv, ReaderOK, PagesAreComplete, Lists!EveryRowIsShown, Lists!TruncatedIsTrue
    <1>3. CASE reader.at = "counted"
        <2>1. reader' = [reader EXCEPT !.quiet = FALSE] /\ DOMAIN reader = {"at", "filter", "total", "quiet"}
            BY <1>3 DEF Lists!Changed, ListsInv, ReaderOK
        <2>2. reader'.at = "counted" /\ reader'.quiet = FALSE /\ DOMAIN reader' = {"at", "filter", "total", "quiet"}
            BY <1>3, <2>1
        <2> QED
            BY <1>1, <2>2 DEF ListsInv, ReaderOK, PagesAreComplete, Lists!EveryRowIsShown, Lists!TruncatedIsTrue
    <1>4. CASE reader.at \notin {"select", "next", "counted"}
        <2>1. UNCHANGED reader
            BY <1>4 DEF Lists!Changed
        <2> QED
            BY <1>1, <1>4, <2>1 DEF ListsInv, ReaderOK, PagesAreComplete, Lists!EveryRowIsShown, Lists!TruncatedIsTrue
    <1> QED
        BY <1>2, <1>3, <1>4

LEMMA TableSteps ==
    ASSUME ListsInv, Lists!Insert \/ Lists!Delete \/ Lists!Attribute \/ Lists!Touch
    PROVE  ListsInv'
    <1>1. TableTyped(rows_listed)
        BY DEF ListsInv
    <1>2. CASE Lists!Insert
        <2>1. PICK id \in ListedIds \ DOMAIN rows_listed, new_row \in ListedRows :
                 Lists!Changed([i \in DOMAIN rows_listed \cup {id} |-> IF i = id THEN new_row ELSE rows_listed[i]])
            BY <1>2 DEF Lists!Insert
        <2> DEFINE new == [i \in DOMAIN rows_listed \cup {id} |-> IF i = id THEN new_row ELSE rows_listed[i]]
        <2>2. IsFiniteSet(DOMAIN rows_listed \cup {id})
            BY <1>1, FS_AddElement DEF TableTyped
        <2>3. /\ id \in Nat /\ DOMAIN new_row = RowFields /\ new_row.key \in Nat \cup {NoValue}
            BY ListsAreSound DEF Lists!PagingAssumption, RowFields
        <2>4. TableTyped(new)
            BY <1>1, <2>2, <2>3 DEF TableTyped
        <2> QED
            BY <2>1, <2>4, ChangedStep
    <1>3. CASE Lists!Delete
        <2>1. PICK ids : Lists!Changed([i \in DOMAIN rows_listed \ ids |-> rows_listed[i]])
            BY <1>3 DEF Lists!Delete
        <2> DEFINE new == [i \in DOMAIN rows_listed \ ids |-> rows_listed[i]]
        <2>2. IsFiniteSet(DOMAIN rows_listed \ ids)
            BY <1>1, FS_Subset DEF TableTyped
        <2>3. TableTyped(new)
            BY <1>1, <2>2 DEF TableTyped
        <2> QED
            BY <2>1, <2>3, ChangedStep
    <1>4. CASE Lists!Attribute
        <2>1. PICK id \in DOMAIN rows_listed : Lists!Changed([rows_listed EXCEPT ![id].owned = ~@])
            BY <1>4 DEF Lists!Attribute
        <2> DEFINE new == [rows_listed EXCEPT ![id].owned = ~@]
        <2>2. /\ DOMAIN new = DOMAIN rows_listed
              /\ \A i \in DOMAIN new : DOMAIN new[i] = DOMAIN rows_listed[i] /\ new[i].key = rows_listed[i].key
            BY <1>1 DEF TableTyped, RowFields
        <2>3. TableTyped(new)
            BY <1>1, <2>2 DEF TableTyped
        <2> HIDE DEF new
        <2> QED
            BY <2>1, <2>3, ChangedStep DEF new
    <1>5. CASE Lists!Touch
        <2>1. PICK id \in DOMAIN rows_listed, new_row \in ListedRows :
                 Lists!Changed([rows_listed EXCEPT ![id].key = new_row.key])
            BY <1>5 DEF Lists!Touch
        <2> DEFINE new == [rows_listed EXCEPT ![id].key = new_row.key]
        <2>2. new_row.key \in Nat \cup {NoValue}
            BY ListsAreSound DEF Lists!PagingAssumption
        <2>3. /\ DOMAIN new = DOMAIN rows_listed
              /\ \A i \in DOMAIN new : DOMAIN new[i] = DOMAIN rows_listed[i]
                                       /\ new[i].key \in Nat \cup {NoValue}
            BY <1>1, <2>2 DEF TableTyped, RowFields
        <2>4. TableTyped(new)
            BY <1>1, <2>3 DEF TableTyped
        <2> HIDE DEF new
        <2> QED
            BY <2>1, <2>4, ChangedStep DEF new
    <1> QED
        BY <1>2, <1>3, <1>4, <1>5

\* A listing that ran to its end has shown every row that matched all along and kept its place,
\* unless one left or sank, and a map that says it has all points has them: whatever the table,
\* the sizes of pages and the changes (fluxfang-db/src/sort.rs, repo/emission.rs).
THEOREM PagesStayComplete == SuiteSpec => []PagesAreComplete
    <1>1. ListsInv /\ [SuiteNext]_suiteVars => ListsInv'
        <2> SUFFICES ASSUME ListsInv, [SuiteNext]_suiteVars PROVE ListsInv'
            OBVIOUS
        <2>1. CASE Lists!Next
            BY <2>1, OpenStep, SelectStep, TurnStep, MapSteps, TableSteps DEF Lists!Next
        <2>2. CASE UNCHANGED listsVars
            BY <2>2, ListsUntouched
        <2> QED
            BY <2>1, <2>2 DEF SuiteNext, suiteVars
    <1>2. ListsInv => PagesAreComplete
        BY DEF ListsInv
    <1> QED
        BY <1>1, <1>2, ListsInitially, PTL DEF SuiteSpec

-----------------------------------------------------------------------------
(* A rule and its query.                                                     *)

\* The steps of build, one condition at a time, and that there are such steps.
Steps(r, n, f) ==
    f = [i \in 0..n |-> IF i = 0 THEN [clauses |-> <<>>, binds |-> <<>>]
                        ELSE Language!WithCondition(f[i - 1], r.conditions[i])]

LEMMA StepsExist ==
    ASSUME NEW r, NEW n \in Nat
    PROVE  \E f : Steps(r, n, f)
    <1> DEFINE T == {m \in Nat : ~\E f : Steps(r, m, f)}
    <1> SUFFICES ASSUME T # {} PROVE FALSE
        OBVIOUS
    <1>1. PICK m \in T : \A k \in T : m =< k
        BY LeastExists
    <1>2. CASE m = 0
        <2> DEFINE f == [i \in 0..0 |-> [clauses |-> <<>>, binds |-> <<>>]]
        <2>1. Steps(r, 0, f)
            BY DEF Steps
        <2> QED
            BY <1>2, <2>1
    <1>3. CASE m # 0
        <2>1. m - 1 \in Nat /\ m - 1 \notin T
            BY <1>1, <1>3
        <2>2. PICK f : Steps(r, m - 1, f)
            BY <2>1
        <2> DEFINE g == [i \in 0..m |-> IF i = m THEN Language!WithCondition(f[m - 1], r.conditions[m]) ELSE f[i]]
        <2>3. Steps(r, m, g)
            <3>1. ASSUME NEW i \in 0..m
                  PROVE  g[i] = IF i = 0 THEN [clauses |-> <<>>, binds |-> <<>>]
                                ELSE Language!WithCondition(g[i - 1], r.conditions[i])
                BY <1>3, <2>2 DEF Steps
            <3> HIDE DEF g
            <3> SUFFICES g = [i \in 0..m |-> g[i]]
                BY <3>1, Zenon DEF Steps
            <3> QED
                BY DEF g
        <2> HIDE DEF g
        <2> QED
            BY <2>3
    <1> QED
        BY <1>2, <1>3

LEMMA BuildTakesSteps ==
    ASSUME NEW r, Len(r.conditions) \in Nat
    PROVE  \E f : Steps(r, Len(r.conditions), f) /\ Language!Build(r) = f[Len(r.conditions)]
    <1> DEFINE n == Len(r.conditions)
               built == CHOOSE f : Steps(r, n, f)
    <1>1. Steps(r, n, built)
        BY StepsExist
    <1>2. Language!Build(r) = built[n]
        BY DEF Language!Build, Steps
    <1> QED
        BY <1>1, <1>2

BoundTexts == Language!Texts \cup {""}

\* A clause names, as its parameters, the places of its own condition's binds.
Numbered(c, clause, binds) ==
    \E next \in Nat :
        LET made == Language!ConditionClause(c, next) IN
        /\ clause = made.clause
        /\ next >= FirstBind /\ next - FirstBind + Len(made.binds) =< Len(binds)
        /\ \A k \in 1..Len(made.binds) : binds[next - FirstBind + k] = made.binds[k]

BuiltOK(r, n, b) ==
    /\ b.binds \in Seq(BoundTexts)
    /\ \E S : b.clauses \in Seq(S)
    /\ Len(b.clauses) = n
    /\ \A j \in 1..n : Numbered(r.conditions[j], b.clauses[j], b.binds)

LEMMA BindsAreTexts ==
    ASSUME NEW c, Language!Conditions(c), NEW next \in Nat
    PROVE  Language!ConditionClause(c, next).binds \in Seq(BoundTexts)
    <1>1. \A v \in Language!Json : Language!TextBind(v) \in BoundTexts
        BY DEF Language!TextBind, Language!Json, BoundTexts
    <1>2. Language!TextBind([type |-> "array", text |-> ""]) \in BoundTexts
        BY DEF Language!TextBind, BoundTexts
    <1> DEFINE items == c.items
    <1>3. /\ items \in Seq(Language!Json)
          /\ [i \in DOMAIN items |-> Language!TextBind(items[i])] \in Seq(BoundTexts)
        <2>1. items \in Seq(Language!Json)
            BY DEF Language!Conditions
        <2>2. DOMAIN items = 1..Len(items) /\ Len(items) \in Nat /\ \A i \in 1..Len(items) : items[i] \in Language!Json
            BY <2>1
        <2> HIDE DEF items
        <2>3. [i \in 1..Len(items) |-> Language!TextBind(items[i])] \in Seq(BoundTexts)
            BY <1>1, <2>2
        <2> QED
            BY <2>1, <2>2, <2>3
    <1>4. [i \in DOMAIN <<[type |-> "array", text |-> ""]>> |->
               Language!TextBind(<<[type |-> "array", text |-> ""]>>[i])] \in Seq(BoundTexts)
        <2> DEFINE v == [type |-> "array", text |-> ""]
        <2> HIDE DEF v
        <2>1. DOMAIN <<v>> = 1..1 /\ \A i \in 1..1 : <<v>>[i] = v
            OBVIOUS
        <2>2. [i \in 1..1 |-> Language!TextBind(v)] \in Seq(BoundTexts)
            <3>1. ASSUME NEW t \in BoundTexts PROVE [i \in 1..1 |-> t] \in Seq(BoundTexts)
                BY <3>1
            <3> QED
                BY <1>2, <3>1 DEF v
        <2>3. [i \in DOMAIN <<v>> |-> Language!TextBind(<<v>>[i])] = [i \in 1..1 |-> Language!TextBind(v)]
            BY <2>1, Zenon
        <2> QED
            BY <2>2, <2>3 DEF v
    <1>5. <<>> \in Seq(BoundTexts)
        OBVIOUS
    <1> QED
        BY <1>3, <1>4, <1>5, Zenon DEF Language!ConditionClause

LEMMA NumberedStays ==
    ASSUME NEW c, Language!Conditions(c), NEW clause, NEW S, NEW binds \in Seq(S), NEW more \in Seq(S),
           Numbered(c, clause, binds), FirstBind \in Nat
    PROVE  Numbered(c, clause, binds \o more)
    <1>1. PICK next \in Nat :
              LET made == Language!ConditionClause(c, next) IN
              /\ clause = made.clause
              /\ next >= FirstBind /\ next - FirstBind + Len(made.binds) =< Len(binds)
              /\ \A k \in 1..Len(made.binds) : binds[next - FirstBind + k] = made.binds[k]
        BY DEF Numbered
    <1> DEFINE made == Language!ConditionClause(c, next)
    <1> HIDE DEF made
    <1>2. /\ clause = made.clause
          /\ next >= FirstBind /\ next - FirstBind + Len(made.binds) =< Len(binds)
          /\ \A k \in 1..Len(made.binds) : binds[next - FirstBind + k] = made.binds[k]
        BY <1>1 DEF made
    <1>3. Len(made.binds) \in Nat /\ FirstBind \in Nat
        BY BindsAreTexts DEF made
    <1>4. Len(binds \o more) >= Len(binds)
          /\ \A k \in 1..Len(binds) : (binds \o more)[k] = binds[k]
        OBVIOUS
    <1>5. \A k \in 1..Len(made.binds) : (binds \o more)[next - FirstBind + k] = made.binds[k]
        BY <1>2, <1>3, <1>4
    <1>6. next - FirstBind + Len(made.binds) =< Len(binds \o more)
        BY <1>2, <1>3, <1>4
    <1> QED
        BY <1>2, <1>5, <1>6, Zenon DEF Numbered, made

LEMMA StepBuilds ==
    ASSUME NEW r, NEW n \in Nat, NEW b, BuiltOK(r, n, b),
           \A j \in 1..n + 1 : Language!Conditions(r.conditions[j]), FirstBind \in Nat
    PROVE  BuiltOK(r, n + 1, Language!WithCondition(b, r.conditions[n + 1]))
    <1> DEFINE c == r.conditions[n + 1]
               next == FirstBind + Len(b.binds)
               made == Language!ConditionClause(c, next)
               new == Language!WithCondition(b, c)
    <1>1. next \in Nat /\ b.binds \in Seq(BoundTexts)
        BY DEF BuiltOK
    <1>2. made.binds \in Seq(BoundTexts)
        BY <1>1, BindsAreTexts
    <1>3. new.clauses = Append(b.clauses, made.clause) /\ new.binds = b.binds \o made.binds
        BY DEF Language!WithCondition
    <1>4. PICK S : b.clauses \in Seq(S)
        BY DEF BuiltOK
    <1> HIDE DEF made, new
    <1>5. new.binds \in Seq(BoundTexts) /\ Len(new.binds) = Len(b.binds) + Len(made.binds)
        BY <1>1, <1>2, <1>3
    <1>6. new.clauses \in Seq(S \cup {made.clause}) /\ Len(new.clauses) = n + 1
          /\ new.clauses[n + 1] = made.clause /\ \A j \in 1..n : new.clauses[j] = b.clauses[j]
        BY <1>3, <1>4 DEF BuiltOK
    <1>7. \A k \in 1..Len(made.binds) : new.binds[next - FirstBind + k] = made.binds[k]
        <2>1. \A k \in 1..Len(made.binds) : (b.binds \o made.binds)[Len(b.binds) + k] = made.binds[k]
            <3>1. ASSUME NEW s \in Seq(BoundTexts), NEW t \in Seq(BoundTexts), NEW k \in 1..Len(t)
                  PROVE  (s \o t)[Len(s) + k] = t[k]
                OBVIOUS
            <3> QED
                BY <1>1, <1>2, <3>1
        <2>2. \A k \in 1..Len(made.binds) : next - FirstBind + k = Len(b.binds) + k
            BY <1>1, <1>2
        <2> QED
            BY <1>3, <2>1, <2>2
    <1>8. Numbered(c, new.clauses[n + 1], new.binds)
        <2>1. next >= FirstBind /\ next - FirstBind + Len(made.binds) =< Len(new.binds)
            BY <1>1, <1>2, <1>5
        <2> HIDE DEF next
        <2> QED
            BY <1>1, <1>6, <1>7, <2>1, Zenon DEF Numbered, made
    <1>9. \A j \in 1..n : Numbered(r.conditions[j], new.clauses[j], new.binds)
        <2> SUFFICES ASSUME NEW j \in 1..n PROVE Numbered(r.conditions[j], new.clauses[j], new.binds)
            OBVIOUS
        <2>1. Numbered(r.conditions[j], b.clauses[j], b.binds) /\ Language!Conditions(r.conditions[j])
            BY DEF BuiltOK
        <2>2. Numbered(r.conditions[j], b.clauses[j], b.binds \o made.binds)
            BY <1>1, <1>2, <2>1, NumberedStays
        <2> QED
            BY <1>3, <1>6, <2>2
    <1> QED
        BY <1>5, <1>6, <1>8, <1>9 DEF BuiltOK, new

\* Every clause a query is built of has its own values, wherever it stands.
LEMMA QueryIsBuilt ==
    ASSUME NEW r \in StatedRules
    PROVE  BuiltOK(r, Len(r.conditions), Language!Build(r))
    <1> DEFINE n == Len(r.conditions)
    <1>1. n \in Nat /\ DOMAIN r.conditions = 1..n /\ FirstBind \in Nat
        BY RulesAreSound DEF Language!RuleAssumption
    <1>2. \A i \in 1..n : Language!Conditions(r.conditions[i])
        BY <1>1, RulesAreSound DEF Language!RuleAssumption
    <1>3. PICK f : Steps(r, n, f) /\ Language!Build(r) = f[n]
        BY <1>1, BuildTakesSteps
    <1> HIDE DEF n
    <1> DEFINE T == {i \in 0..n : ~BuiltOK(r, i, f[i])}
    <1>4. T = {}
        <2> SUFFICES ASSUME T # {} PROVE FALSE
            OBVIOUS
        <2>1. PICK m \in T : \A k \in T : m =< k
            <3>1. T \subseteq Nat
                BY <1>1
            <3> HIDE DEF T
            <3> QED
                BY <3>1, LeastExists
        <2>2. BuiltOK(r, 0, [clauses |-> <<>>, binds |-> <<>>])
            BY DEF BuiltOK
        <2>3. m # 0
            BY <1>1, <1>3, <2>1, <2>2 DEF Steps
        <2>4. m - 1 \in 0..n /\ BuiltOK(r, m - 1, f[m - 1])
            BY <1>1, <2>1, <2>3
        <2>5. f[m] = Language!WithCondition(f[m - 1], r.conditions[m])
            BY <1>1, <1>3, <2>1, <2>3 DEF Steps
        <2>6. BuiltOK(r, (m - 1) + 1, Language!WithCondition(f[m - 1], r.conditions[(m - 1) + 1]))
            <3>1. \A j \in 1..(m - 1) + 1 : Language!Conditions(r.conditions[j])
                BY <1>1, <1>2, <2>1, <2>3
            <3>2. m - 1 \in Nat
                BY <1>1, <2>1, <2>3
            <3> HIDE DEF T
            <3> QED
                BY <1>1, <2>4, <3>1, <3>2, StepBuilds
        <2> QED
            BY <1>1, <2>1, <2>5, <2>6
    <1> QED
        BY <1>1, <1>3, <1>4 DEF n

\* One condition: what its clause is for Postgres is what eval says of it, if the condition
\* reads the emission as the catalog has it.
ReadsAlike(c) ==
    /\ c.field \in DOMAIN payload =>
           /\ Language!ValueMatchesType(payload[c.field], FieldTypes[c.field])
           /\ payload[c.field].text \notin DOMAIN Spellings
    /\ c.op = "matches" => c.items[1].text \in DOMAIN Regexes

ClauseAgrees(c, value) ==
    /\ value \in {"true", "false", "null"}
    /\ value = "true" <=> Language!EvalCondition(c, payload)

LEMMA RegularReadsAlike ==
    ASSUME NEW c
    PROVE  Language!Regular(c) <=> ReadsAlike(c)
    BY DEF Language!Regular, ReadsAlike, Language!Scalar

\* What a field is declared as: its type as JSON has it.
JsonType(f) == IF FieldTypes[f] = "number" THEN "number" ELSE "string"

\* The values of a valid condition are of its field's type.
LEMMA ItemsAreOfType ==
    ASSUME NEW c, Language!Valid(c)
    PROVE  /\ JsonType(c.field) \in {"number", "string"}
           /\ \A i \in DOMAIN c.items : c.items[i].type = JsonType(c.field)
           /\ c.op = "matches" => JsonType(c.field) = "string"
           /\ c.op \in {"gte", "lte"} => JsonType(c.field) = "number"
           /\ Language!Array(c) <=> c.op = "in"
    <1>1. c.field \in DOMAIN FieldTypes /\ FieldTypes[c.field] \in {"text", "mac", "enum", "number"}
        BY RulesAreSound DEF Language!RuleAssumption, Language!Valid
    <1>2. \A i \in DOMAIN c.items : c.items[i].type = JsonType(c.field)
        BY DEF Language!Valid, Language!ValueMatchesType, JsonType
    <1>3. c.op = "matches" => JsonType(c.field) = "string"
        BY <1>1 DEF Language!Valid, Language!OpsOf, JsonType
    <1>4. c.op \in {"gte", "lte"} => JsonType(c.field) = "number"
        BY <1>1 DEF Language!Valid, Language!OpsOf, JsonType
    <1>5. Language!Array(c) <=> c.op = "in"
        BY DEF Language!Valid
    <1>6. JsonType(c.field) \in {"number", "string"}
        BY DEF JsonType
    <1> QED
        BY <1>2, <1>3, <1>4, <1>5, <1>6

\* So is the value an emission has of it, and Postgres spells it as the emission does.
LEMMA ColumnIsText ==
    ASSUME NEW c, ReadsAlike(c), c.field \in DOMAIN payload, payload \in HeldPayloads
    PROVE  /\ payload[c.field] \in Language!Json
           /\ payload[c.field].type = JsonType(c.field)
           /\ Language!Column(payload, c.field) = payload[c.field].text
           /\ ~Language!IsNull(payload, c.field)
    <1>1. payload[c.field] \in Language!Json
        BY RulesAreSound DEF Language!RuleAssumption
    <1>2. payload[c.field].type = JsonType(c.field) /\ payload[c.field].text \notin DOMAIN Spellings
        BY DEF ReadsAlike, Language!ValueMatchesType, JsonType
    <1>3. Language!Column(payload, c.field) = payload[c.field].text
        BY <1>2 DEF Language!Column
    <1>4. ~Language!IsNull(payload, c.field)
        BY <1>2 DEF Language!IsNull, JsonType
    <1> QED
        BY <1>1, <1>2, <1>3, <1>4

LEMMA SameJson ==
    ASSUME NEW v \in Language!Json, NEW w \in Language!Json, v.type = w.type
    PROVE  v = w <=> v.text = w.text
    BY DEF Language!Json

LEMMA BoundText ==
    ASSUME NEW v \in Language!Json, v.type \in {"number", "string"}
    PROVE  Language!TextBind(v) = v.text
    BY DEF Language!TextBind

\* The clause of a valid condition: FALSE for an empty `in`, else its operator over its field
\* and its values.
Faithful(c, clause, binds) ==
    /\ clause.op = c.op /\ clause.field = c.field
    /\ DOMAIN clause.params = DOMAIN c.items
    /\ \A i \in DOMAIN c.items : binds[clause.params[i] - FirstBind + 1] = c.items[i].text

LEMMA ClauseIsFaithful ==
    ASSUME NEW c, Language!Conditions(c), Language!Valid(c), NEW clause, NEW binds,
           Numbered(c, clause, binds), FirstBind \in Nat
    PROVE  IF c.op = "in" /\ c.items = <<>> THEN clause.op = "false" ELSE Faithful(c, clause, binds)
    <1>1. PICK next \in Nat :
              LET made == Language!ConditionClause(c, next) IN
              /\ clause = made.clause
              /\ next >= FirstBind /\ next - FirstBind + Len(made.binds) =< Len(binds)
              /\ \A k \in 1..Len(made.binds) : binds[next - FirstBind + k] = made.binds[k]
        BY DEF Numbered
    <1>2. /\ c.items \in Seq(Language!Json) /\ c.op \in Language!Ops
          /\ ~Language!Array(c) => Len(c.items) = 1
        BY DEF Language!Conditions, Language!Array
    <1>3. CASE c.op = "in" /\ c.items = <<>>
        BY <1>1, <1>3 DEF Language!ConditionClause, Language!Never
    <1>4. CASE ~(c.op = "in" /\ c.items = <<>>)
        <2> DEFINE dead == \/ c.op = "matches" /\ (Language!Array(c) \/ Language!Scalar(c).type # "string")
                           \/ c.op \in {"gte", "lte"} /\ (Language!Array(c) \/ Language!Scalar(c).type # "number")
                           \/ c.op = "in" /\ (~Language!Array(c) \/ c.items = <<>>)
        <2>1. ~Language!Array(c) => 1 \in DOMAIN c.items
            BY <1>2
        <2>2. ~dead
            BY <1>4, <2>1, ItemsAreOfType DEF Language!Scalar
        <2>3. c.op = "in" \/ ~Language!Array(c)
            BY ItemsAreOfType
        <2> DEFINE text == [i \in DOMAIN c.items |-> Language!TextBind(c.items[i])]
                   places == [i \in DOMAIN c.items |-> next + i - 1]
        <2>4. Language!ConditionClause(c, next) =
                  [clause |-> [op |-> c.op, field |-> c.field, params |-> places], binds |-> text]
            BY <2>2, <2>3, Zenon DEF Language!ConditionClause
        <2>5. DOMAIN text = 1..Len(c.items) /\ Len(text) = Len(c.items) /\ Len(c.items) \in Nat
            BY <1>2
        <2>6. ASSUME NEW i \in DOMAIN c.items
              PROVE  binds[places[i] - FirstBind + 1] = c.items[i].text
            <3>1. i \in 1..Len(text) /\ text[i] = c.items[i].text
                BY <1>2, <2>5, ItemsAreOfType, BoundText
            <3>2. binds[next - FirstBind + i] = text[i]
                <4> HIDE DEF text, places
                <4> QED
                    BY <1>1, <2>4, <3>1
            <3>3. places[i] - FirstBind + 1 = next - FirstBind + i
                BY <1>2
            <3> QED
                BY <3>1, <3>2, <3>3
        <2>7. clause = [op |-> c.op, field |-> c.field, params |-> places]
            <3> HIDE DEF text, places
            <3> QED
                BY <1>1, <2>4
        <2> QED
            BY <1>4, <2>6, <2>7 DEF Faithful
    <1> QED
        BY <1>3, <1>4

LEMMA ClauseMeansCondition ==
    ASSUME NEW c, Language!Conditions(c), Language!Valid(c), ReadsAlike(c), payload \in HeldPayloads,
           NEW clause, NEW binds, Numbered(c, clause, binds), FirstBind \in Nat
    PROVE  ClauseAgrees(c, Language!ClauseValue(clause, binds, payload))
    <1> DEFINE value == Language!ClauseValue(clause, binds, payload)
               v == payload[c.field]
               args == [i \in DOMAIN clause.params |-> binds[clause.params[i] - FirstBind + 1]]
    <1>1. /\ c.items \in Seq(Language!Json) /\ c.op \in Language!Ops
          /\ ~Language!Array(c) => Len(c.items) = 1
        BY DEF Language!Conditions, Language!Array
    <1>2. CASE c.op = "in" /\ c.items = <<>>
        <2>1. value = "false"
            BY <1>2, ClauseIsFaithful DEF Language!ClauseValue
        <2>2. ~Language!EvalCondition(c, payload)
            BY <1>2 DEF Language!EvalCondition, Language!EvalNumeric
        <2> QED
            BY <2>1, <2>2 DEF ClauseAgrees
    <1>3. CASE ~(c.op = "in" /\ c.items = <<>>) /\ c.field \notin DOMAIN payload
        <2>1. clause.op # "false" /\ clause.field = c.field
            BY <1>1, <1>3, ClauseIsFaithful DEF Faithful, Language!Ops
        <2>2. value = "null"
            BY <1>3, <2>1 DEF Language!ClauseValue, Language!IsNull
        <2> QED
            BY <1>3, <2>2 DEF ClauseAgrees, Language!EvalCondition
    <1>4. CASE ~(c.op = "in" /\ c.items = <<>>) /\ c.field \in DOMAIN payload
        <2>1. Faithful(c, clause, binds)
            BY <1>4, ClauseIsFaithful
        <2>2. clause.op = c.op /\ clause.op # "false" /\ clause.field = c.field
            BY <1>1, <2>1 DEF Faithful, Language!Ops
        <2>3. DOMAIN args = DOMAIN c.items /\ \A i \in DOMAIN c.items : args[i] = c.items[i].text
            BY <2>1 DEF Faithful
        <2>4. v \in Language!Json /\ v.type = JsonType(c.field)
              /\ Language!Column(payload, c.field) = v.text /\ ~Language!IsNull(payload, c.field)
            BY <1>4, ColumnIsText
        <2>5. /\ \A i \in DOMAIN c.items : c.items[i] \in Language!Json /\ c.items[i].type = v.type
              /\ v.type \in {"number", "string"}
              /\ c.op = "matches" => v.type = "string"
              /\ c.op \in {"gte", "lte"} => v.type = "number"
              /\ Language!Array(c) <=> c.op = "in"
            BY <1>1, <2>4, ItemsAreOfType
        <2>6. c.op # "in" => 1 \in DOMAIN c.items /\ Language!Scalar(c) = c.items[1]
            BY <1>1, <2>5 DEF Language!Scalar
        <2>7. \A i \in DOMAIN c.items : v = c.items[i] <=> v.text = args[i]
            BY <2>3, <2>4, <2>5, SameJson
        <2> HIDE DEF args, v
        <2>8. value = CASE c.op = "eq" -> Language!Truth(v.text = args[1])
                        [] c.op = "neq" -> Language!Truth(v.text # args[1])
                        [] c.op = "in" -> Language!Truth(\E i \in DOMAIN args : v.text = args[i])
                        [] c.op = "matches" -> IF args[1] \notin DOMAIN Regexes THEN "error"
                                               ELSE Language!Truth(v.text \in Regexes[args[1]])
                        [] OTHER -> IF v.text \notin Language!Numerals \/ args[1] \notin Language!Numerals THEN "error"
                                    ELSE IF c.op = "gte" THEN Language!Truth(Magnitudes[v.text] >= Magnitudes[args[1]])
                                    ELSE Language!Truth(Magnitudes[v.text] =< Magnitudes[args[1]])
            BY <2>2, <2>4 DEF Language!ClauseValue, args
        <2> HIDE DEF value
        <2>9. CASE c.op = "eq"
            BY <1>4, <2>5, <2>6, <2>7, <2>8, <2>9
               DEF ClauseAgrees, Language!EvalCondition, Language!EvalNumeric, Language!Truth, v, value
        <2>10. CASE c.op = "neq"
            BY <1>4, <2>5, <2>6, <2>7, <2>8, <2>10
               DEF ClauseAgrees, Language!EvalCondition, Language!EvalNumeric, Language!Truth, v, value
        <2>11. CASE c.op = "in"
            BY <1>4, <2>3, <2>5, <2>7, <2>8, <2>11
               DEF ClauseAgrees, Language!EvalCondition, Language!EvalNumeric, Language!Truth, v, value
        <2>12. CASE c.op = "matches"
            <3>1. args[1] \in DOMAIN Regexes /\ args[1] = c.items[1].text /\ c.items[1].type = "string"
                BY <2>3, <2>5, <2>6, <2>12 DEF ReadsAlike
            <3> QED
                BY <1>4, <2>5, <2>6, <2>8, <2>12, <3>1
                   DEF ClauseAgrees, Language!EvalCondition, Language!EvalNumeric, Language!MatchString,
                       Language!Truth, v, value
        <2>13. CASE c.op \in {"gte", "lte"}
            <3>1. v.type = "number" /\ c.items[1].type = "number" /\ args[1] = c.items[1].text
                BY <2>3, <2>5, <2>6, <2>13
            <3>2. v.text \in Language!Numerals /\ args[1] \in Language!Numerals
                BY <2>4, <2>5, <2>6, <2>13, <3>1 DEF Language!Json
            <3> QED
                BY <1>4, <2>5, <2>6, <2>8, <2>13, <3>1, <3>2
                   DEF ClauseAgrees, Language!EvalCondition, Language!EvalNumeric, Language!Truth, v, value
        <2> QED
            BY <1>1, <2>9, <2>10, <2>11, <2>12, <2>13 DEF Language!Ops
    <1> QED
        BY <1>2, <1>3, <1>4

\* A rule is a query: whatever its conditions, one row has one outcome, and it is eval's.
LEMMA QueryMeansRule ==
    ASSUME NEW r \in StatedRules, payload \in HeldPayloads, Language!ValidRule(r),
           \A i \in DOMAIN r.conditions : Language!Regular(r.conditions[i])
    PROVE  Language!Outcomes(r, payload) = {Language!Truth(Language!Eval(r, payload))}
    <1> DEFINE q == Language!Build(r)
               n == Len(r.conditions)
               holds == {i \in DOMAIN r.conditions : Language!EvalCondition(r.conditions[i], payload)}
               values == {Language!ClauseValue(q.clauses[i], q.binds, payload) : i \in DOMAIN q.clauses}
    <1>1. FirstBind \in Nat /\ n \in Nat /\ DOMAIN r.conditions = 1..n
          /\ \A i \in 1..n : Language!Conditions(r.conditions[i])
        <2>1. /\ FirstBind \in Nat
              /\ r.conditions \in Seq({r.conditions[i] : i \in DOMAIN r.conditions})
              /\ \A i \in DOMAIN r.conditions : Language!Conditions(r.conditions[i])
            BY RulesAreSound, Zenon DEF Language!RuleAssumption
        <2> QED
            BY <2>1
    <1>2. DOMAIN q.clauses = 1..n /\ \A i \in 1..n : Numbered(r.conditions[i], q.clauses[i], q.binds)
        BY <1>1, QueryIsBuilt DEF BuiltOK
    <1>3. ASSUME NEW i \in 1..n
          PROVE  ClauseAgrees(r.conditions[i], Language!ClauseValue(q.clauses[i], q.binds, payload))
        BY <1>1, <1>2, ClauseMeansCondition, RegularReadsAlike DEF Language!ValidRule
    <1> HIDE DEF q, n
    <1>4. values \subseteq {"true", "false", "null"}
        BY <1>2, <1>3 DEF ClauseAgrees
    <1>5. values \subseteq {"true"} <=> holds = DOMAIN r.conditions
        BY <1>1, <1>2, <1>3 DEF ClauseAgrees
    <1>6. "true" \in values <=> holds # {}
        BY <1>1, <1>2, <1>3 DEF ClauseAgrees
    <1> HIDE DEF values, holds
    <1>7. Language!Eval(r, payload) <=> IF r.mode = "all" THEN holds = DOMAIN r.conditions ELSE holds # {}
        BY DEF Language!Eval, holds
    <1>8. Language!Outcomes(r, payload) =
              {Language!Truth(IF r.mode = "all" THEN values \subseteq {"true"} ELSE "true" \in values)}
        <2>1. "error" \notin values
            BY <1>4
        <2> QED
            BY <2>1 DEF Language!Outcomes, values, q
    <1> QED
        BY <1>5, <1>6, <1>7, <1>8 DEF Language!Truth

\* What each side has answered.
LanguageInv ==
    /\ stated_rule \in StatedRules /\ payload \in HeldPayloads
    /\ rule_backfill \notin {"none", "refused"} =>
           Language!ValidRule(stated_rule) /\ rule_backfill \in Language!Outcomes(stated_rule, payload)
    /\ live_match # "none" => live_match = Language!Truth(Language!Eval(stated_rule, payload))

LEMMA RulesAgree ==
    ASSUME LanguageInv
    PROVE  Language!QueryAgreesWithEval
    BY QueryMeansRule DEF LanguageInv, Language!QueryAgreesWithEval

LEMMA LanguageStep ==
    ASSUME LanguageInv, Language!Next
    PROVE  LanguageInv'
    <1>1. CASE Language!AttachEmissionsMatching
        BY <1>1 DEF LanguageInv, Language!AttachEmissionsMatching
    <1>2. CASE Language!Match
        BY <1>2 DEF LanguageInv, Language!Match
    <1>3. CASE Language!Done
        BY <1>3 DEF LanguageInv, Language!Done, Language!vars
    <1> QED
        BY <1>1, <1>2, <1>3 DEF Language!Next

LEMMA LanguageUntouched ==
    ASSUME LanguageInv, UNCHANGED languageVars
    PROVE  LanguageInv'
    BY DEF LanguageInv, languageVars

LEMMA LanguageInitially ==
    ASSUME SuiteInit
    PROVE  LanguageInv
    BY DEF SuiteInit, Language!Init, LanguageInv

-----------------------------------------------------------------------------
(* The positions of a statement, and what is bound to them.                  *)

BuildOK(b) ==
    /\ b.next \in Nat /\ b.bound \in Nat
    /\ \E S : b.clauses \in Seq(S) /\ b.binds \in Seq(S)

\* The text and the driver agree.
Agree(b) == b.next = b.bound + 1 /\ b.clauses = b.binds

KeysOf(clauses) == {clauses[i].key : i \in DOMAIN clauses}

GroupsOK(groups) == Len(groups) \in Nat /\ \A i \in 1..Len(groups) : groups[i].n \in Nat

Hows == {"number", "bind", "both"}

LEMMA AppendTo ==
    ASSUME NEW S, NEW s \in Seq(S), NEW e
    PROVE  /\ Append(s, e) \in Seq(S \cup {e})
           /\ KeysOf(Append(s, e)) = KeysOf(s) \cup {e.key}
    <1>1. Append(s, e) \in Seq(S \cup {e})
        OBVIOUS
    <1>2. DOMAIN Append(s, e) = 1..Len(s) + 1 /\ DOMAIN s = 1..Len(s) /\ Len(s) \in Nat
          /\ Append(s, e)[Len(s) + 1] = e /\ \A i \in 1..Len(s) : Append(s, e)[i] = s[i]
        OBVIOUS
    <1> QED
        BY <1>1, <1>2 DEF KeysOf

LEMMA Numbers ==
    ASSUME NEW b, BuildOK(b), NEW g, g.n \in Nat
    PROVE  LET new == Binds!Number(b, g) IN
           /\ BuildOK(new) /\ new.bound = b.bound /\ new.binds = b.binds
           /\ KeysOf(new.clauses) = KeysOf(b.clauses) \cup {g.key}
    <1> DEFINE e == [key |-> g.key, at |-> b.next, n |-> g.n]
               new == Binds!Number(b, g)
    <1>1. PICK S : b.clauses \in Seq(S) /\ b.binds \in Seq(S)
        BY DEF BuildOK
    <1>2. new.next = b.next + g.n /\ new.clauses = Append(b.clauses, e) /\ new.bound = b.bound /\ new.binds = b.binds
        BY DEF Binds!Number
    <1>3. e.key = g.key
        OBVIOUS
    <1> HIDE DEF e, new
    <1>4. new.clauses \in Seq(S \cup {e}) /\ KeysOf(new.clauses) = KeysOf(b.clauses) \cup {g.key}
        <2>1. Append(b.clauses, e) \in Seq(S \cup {e})
              /\ KeysOf(Append(b.clauses, e)) = KeysOf(b.clauses) \cup {e.key}
            BY <1>1, AppendTo
        <2> QED
            BY <1>2, <1>3, <2>1
    <1>5. new.binds \in Seq(S \cup {e})
        BY <1>1, <1>2
    <1> QED
        BY <1>2, <1>4, <1>5 DEF BuildOK, new

LEMMA BindsValues ==
    ASSUME NEW b, BuildOK(b), NEW g, g.n \in Nat
    PROVE  LET new == Binds!Bind(b, g) IN
           BuildOK(new) /\ new.next = b.next /\ new.clauses = b.clauses /\ new.bound = b.bound + g.n
    <1> DEFINE e == [key |-> g.key, at |-> b.bound + 1, n |-> g.n]
               new == Binds!Bind(b, g)
    <1>1. PICK S : b.clauses \in Seq(S) /\ b.binds \in Seq(S)
        BY DEF BuildOK
    <1>2. new.bound = b.bound + g.n /\ new.binds = Append(b.binds, e) /\ new.next = b.next /\ new.clauses = b.clauses
        BY DEF Binds!Bind
    <1> HIDE DEF e, new
    <1>3. new.binds \in Seq(S \cup {e}) /\ new.clauses \in Seq(S \cup {e})
        BY <1>1, <1>2
    <1> QED
        BY <1>2, <1>3 DEF BuildOK, new

\* One filter of a run.
Through(b, g, asked, how) == IF g.key \in asked THEN Binds!Take(b, g, how) ELSE b

LEMMA ThroughOne ==
    ASSUME NEW b, BuildOK(b), NEW g, g.n \in Nat, NEW asked, NEW how \in Hows
    PROVE  LET new == Through(b, g, asked, how) IN
           /\ BuildOK(new)
           /\ how = "both" /\ Agree(b) => Agree(new)
           /\ how = "number" => new.bound = b.bound /\ new.binds = b.binds
           /\ how = "bind" => new.next = b.next /\ new.clauses = b.clauses
           /\ how # "bind" => KeysOf(new.clauses) = KeysOf(b.clauses) \cup ({g.key} \cap asked)
           /\ b.bound =< new.bound /\ new.bound =< b.bound + g.n
    <1> DEFINE new == Through(b, g, asked, how)
    <1>1. CASE g.key \notin asked
        BY <1>1 DEF Through, BuildOK
    <1>2. CASE g.key \in asked /\ how = "number"
        <2>1. new = Binds!Number(b, g)
            BY <1>2 DEF Through, Binds!Take
        <2> QED
            <3>1. /\ BuildOK(new) /\ new.bound = b.bound /\ new.binds = b.binds
                  /\ KeysOf(new.clauses) = KeysOf(b.clauses) \cup {g.key}
                BY <2>1, Numbers
            <3>2. b.bound \in Nat
                BY DEF BuildOK
            <3>3. b.bound =< new.bound /\ new.bound =< b.bound + g.n
                BY <3>1, <3>2
            <3>4. {g.key} \cap asked = {g.key}
                BY <1>2
            <3> QED
                BY <1>2, <3>1, <3>3, <3>4, Zenon
    <1>3. CASE g.key \in asked /\ how = "bind"
        <2>1. new = Binds!Bind(b, g)
            BY <1>3 DEF Through, Binds!Take
        <2> QED
            BY <1>3, <2>1, BindsValues DEF BuildOK
    <1>4. CASE g.key \in asked /\ how = "both"
        <2> DEFINE mid == Binds!Number(b, g)
        <2>1. new = Binds!Bind(mid, g)
            BY <1>4 DEF Through, Binds!Take
        <2>2. BuildOK(mid) /\ mid.bound = b.bound /\ mid.binds = b.binds
              /\ KeysOf(mid.clauses) = KeysOf(b.clauses) \cup {g.key}
            BY Numbers
        <2>3. BuildOK(new) /\ new.clauses = mid.clauses /\ new.bound = b.bound + g.n
            BY <2>1, <2>2, BindsValues
        <2>4. Agree(b) => Agree(new)
            BY <2>1, b.bound \in Nat, g.n \in Nat DEF Agree, Binds!Number, Binds!Bind, BuildOK
        <2> QED
            BY <1>4, <2>2, <2>3, <2>4 DEF BuildOK
    <1> QED
        BY <1>1, <1>2, <1>3, <1>4 DEF Hows

Run(b, groups, asked, how, n, f) ==
    f = [i \in 0..n |-> IF i = 0 THEN b ELSE Through(f[i - 1], groups[i], asked, how)]

LEMMA RunsExist ==
    ASSUME NEW b, NEW groups, NEW asked, NEW how, NEW n \in Nat
    PROVE  \E f : Run(b, groups, asked, how, n, f)
    <1> DEFINE T == {m \in Nat : ~\E f : Run(b, groups, asked, how, m, f)}
    <1> SUFFICES ASSUME T # {} PROVE FALSE
        OBVIOUS
    <1>1. PICK m \in T : \A k \in T : m =< k
        BY LeastExists
    <1>2. CASE m = 0
        <2> DEFINE f == [i \in 0..0 |-> b]
        <2>1. Run(b, groups, asked, how, 0, f)
            BY DEF Run
        <2> QED
            BY <1>2, <2>1
    <1>3. CASE m # 0
        <2>1. m - 1 \in Nat /\ m - 1 \notin T
            BY <1>1, <1>3
        <2>2. PICK f : Run(b, groups, asked, how, m - 1, f)
            BY <2>1
        <2> DEFINE g == [i \in 0..m |-> IF i = m THEN Through(f[m - 1], groups[m], asked, how) ELSE f[i]]
        <2>3. Run(b, groups, asked, how, m, g)
            <3>1. ASSUME NEW i \in 0..m
                  PROVE  g[i] = IF i = 0 THEN b ELSE Through(g[i - 1], groups[i], asked, how)
                BY <1>3, <2>2 DEF Run
            <3> HIDE DEF g
            <3> SUFFICES g = [i \in 0..m |-> g[i]]
                BY <3>1, Zenon DEF Run
            <3> QED
                BY DEF g
        <2> HIDE DEF g
        <2> QED
            BY <2>3
    <1> QED
        BY <1>2, <1>3

LEMMA EachRuns ==
    ASSUME NEW b, NEW groups, Len(groups) \in Nat, NEW asked, NEW how
    PROVE  \E f : /\ Run(b, groups, asked, how, Len(groups), f)
                  /\ Binds!Each(b, groups, asked, how) = f[Len(groups)]
    <1> DEFINE n == Len(groups)
               built == CHOOSE f : Run(b, groups, asked, how, n, f)
    <1>1. Run(b, groups, asked, how, n, built)
        BY RunsExist
    <1>2. Binds!Each(b, groups, asked, how) = built[n]
        BY DEF Binds!Each, Run, Through
    <1> QED
        BY <1>1, <1>2

KeysUpTo(groups, i) == {groups[j].key : j \in 1..i}

\* Where a run has got to after i filters.
After(b, groups, asked, how, i, new) ==
    /\ BuildOK(new)
    /\ how = "both" /\ Agree(b) => Agree(new)
    /\ how = "number" => new.bound = b.bound /\ new.binds = b.binds
    /\ how = "bind" => new.next = b.next /\ new.clauses = b.clauses
    /\ how # "bind" => KeysOf(new.clauses) = KeysOf(b.clauses) \cup (KeysUpTo(groups, i) \cap asked)
    /\ \A most \in Nat : (\A j \in 1..Len(groups) : groups[j].n =< most) => new.bound =< b.bound + i * most

LEMMA AfterOneMore ==
    ASSUME NEW b, BuildOK(b), NEW groups, GroupsOK(groups), NEW asked, NEW how \in Hows,
           NEW i \in 1..Len(groups), NEW old, After(b, groups, asked, how, i - 1, old)
    PROVE  After(b, groups, asked, how, i, Through(old, groups[i], asked, how))
    <1> DEFINE g == groups[i]
               new == Through(old, g, asked, how)
    <1>1. BuildOK(old) /\ g.n \in Nat /\ Len(groups) \in Nat
        BY DEF After, GroupsOK
    <1>2. /\ BuildOK(new)
          /\ how = "both" /\ Agree(old) => Agree(new)
          /\ how = "number" => new.bound = old.bound /\ new.binds = old.binds
          /\ how = "bind" => new.next = old.next /\ new.clauses = old.clauses
          /\ how # "bind" => KeysOf(new.clauses) = KeysOf(old.clauses) \cup ({g.key} \cap asked)
          /\ old.bound =< new.bound /\ new.bound =< old.bound + g.n
        BY <1>1, ThroughOne
    <1> HIDE DEF new
    <1>3. KeysUpTo(groups, i) = KeysUpTo(groups, i - 1) \cup {g.key}
        BY <1>1 DEF KeysUpTo
    <1>4. how # "bind" => KeysOf(new.clauses) = KeysOf(b.clauses) \cup (KeysUpTo(groups, i) \cap asked)
        BY <1>2, <1>3 DEF After
    <1>5. ASSUME NEW most \in Nat, \A j \in 1..Len(groups) : groups[j].n =< most
          PROVE  new.bound =< b.bound + i * most
        <2>1. old.bound =< b.bound + (i - 1) * most /\ g.n =< most
            BY <1>5 DEF After
        <2>2. new.bound \in Nat /\ old.bound \in Nat /\ b.bound \in Nat
            BY <1>1, <1>2 DEF BuildOK
        <2>3. (i - 1) * most + most = i * most
            BY <1>1
        <2>4. (i - 1) * most \in Int /\ i * most \in Int
            BY <1>1
        <2> QED
            BY <1>1, <1>2, <2>1, <2>2, <2>3, <2>4
    <1>6. how = "both" /\ Agree(b) => Agree(new)
        BY <1>2 DEF After
    <1>7. how = "number" => new.bound = b.bound /\ new.binds = b.binds
        BY <1>2 DEF After
    <1>8. how = "bind" => new.next = b.next /\ new.clauses = b.clauses
        BY <1>2 DEF After
    <1> QED
        BY <1>2, <1>4, <1>5, <1>6, <1>7, <1>8 DEF After, new

LEMMA AfterAll ==
    ASSUME NEW b, BuildOK(b), NEW groups, GroupsOK(groups), NEW asked, NEW how \in Hows,
           NEW f, Run(b, groups, asked, how, Len(groups), f)
    PROVE  \A i \in 0..Len(groups) : After(b, groups, asked, how, i, f[i])
    <1> DEFINE T == {i \in 0..Len(groups) : ~After(b, groups, asked, how, i, f[i])}
    <1> SUFFICES ASSUME T # {} PROVE FALSE
        OBVIOUS
    <1>1. Len(groups) \in Nat
        BY DEF GroupsOK
    <1>2. PICK m \in T : \A k \in T : m =< k
        <2>1. T \subseteq Nat
            BY <1>1
        <2> HIDE DEF T
        <2> QED
            BY <2>1, LeastExists
    <1>3. After(b, groups, asked, how, 0, b)
        <2>1. KeysUpTo(groups, 0) = {}
            BY DEF KeysUpTo
        <2>2. \A most \in Nat : b.bound =< b.bound + 0 * most
            BY DEF BuildOK
        <2> QED
            BY <2>1, <2>2 DEF After
    <1>4. f[0] = b
        BY <1>1 DEF Run
    <1>5. m # 0
        BY <1>2, <1>3, <1>4
    <1>6. After(b, groups, asked, how, m - 1, f[m - 1]) /\ m \in 1..Len(groups)
        BY <1>1, <1>2, <1>5
    <1>7. f[m] = Through(f[m - 1], groups[m], asked, how)
        BY <1>1, <1>6 DEF Run
    <1>8. After(b, groups, asked, how, m, f[m])
        BY <1>6, <1>7, AfterOneMore
    <1> QED
        BY <1>2, <1>8

LEMMA EachOf ==
    ASSUME NEW b, BuildOK(b), NEW groups, GroupsOK(groups), NEW asked, NEW how \in Hows
    PROVE  After(b, groups, asked, how, Len(groups), Binds!Each(b, groups, asked, how))
    <1>1. Len(groups) \in Nat
        BY DEF GroupsOK
    <1>2. PICK f : /\ Run(b, groups, asked, how, Len(groups), f)
                   /\ Binds!Each(b, groups, asked, how) = f[Len(groups)]
        BY <1>1, EachRuns
    <1> QED
        BY <1>1, <1>2, AfterAll

\* One run numbers, another binds; they stand where the other does.
Level(x, y) == x.next = y.bound + 1 /\ x.clauses = y.binds

LEMMA LevelStays ==
    ASSUME NEW x, BuildOK(x), NEW y, BuildOK(y), Level(x, y), NEW g, g.n \in Nat, NEW asked
    PROVE  Level(Through(x, g, asked, "number"), Through(y, g, asked, "bind"))
    <1>1. CASE g.key \notin asked
        BY <1>1 DEF Through
    <1>2. CASE g.key \in asked
        <2>1. Through(x, g, asked, "number") = Binds!Number(x, g) /\ Through(y, g, asked, "bind") = Binds!Bind(y, g)
            BY <1>2 DEF Through, Binds!Take
        <2>2. x.next \in Nat /\ y.bound \in Nat
            BY DEF BuildOK
        <2>3. Binds!Number(x, g).next = Binds!Bind(y, g).bound + 1
            BY <2>2 DEF Binds!Number, Binds!Bind, Level
        <2>4. Binds!Number(x, g).clauses = Binds!Bind(y, g).binds
            BY DEF Binds!Number, Binds!Bind, Level
        <2> QED
            BY <2>1, <2>3, <2>4 DEF Level
    <1> QED
        BY <1>1, <1>2

LEMMA EachStaysLevel ==
    ASSUME NEW x, BuildOK(x), NEW y, BuildOK(y), Level(x, y), NEW groups, GroupsOK(groups), NEW asked
    PROVE  Level(Binds!Each(x, groups, asked, "number"), Binds!Each(y, groups, asked, "bind"))
    <1>1. Len(groups) \in Nat
        BY DEF GroupsOK
    <1>2. PICK f : /\ Run(x, groups, asked, "number", Len(groups), f)
                   /\ Binds!Each(x, groups, asked, "number") = f[Len(groups)]
        BY <1>1, EachRuns
    <1>3. PICK h : /\ Run(y, groups, asked, "bind", Len(groups), h)
                   /\ Binds!Each(y, groups, asked, "bind") = h[Len(groups)]
        BY <1>1, EachRuns
    <1> DEFINE T == {i \in 0..Len(groups) : ~Level(f[i], h[i])}
    <1>4. T = {}
        <2> SUFFICES ASSUME T # {} PROVE FALSE
            OBVIOUS
        <2>1. PICK m \in T : \A k \in T : m =< k
            <3>1. T \subseteq Nat
                BY <1>1
            <3> HIDE DEF T
            <3> QED
                BY <3>1, LeastExists
        <2>2. f[0] = x /\ h[0] = y
            BY <1>1, <1>2, <1>3 DEF Run
        <2>3. m \in 1..Len(groups) /\ m - 1 \in 0..Len(groups) /\ Level(f[m - 1], h[m - 1])
            BY <1>1, <2>1, <2>2
        <2>4. f[m] = Through(f[m - 1], groups[m], asked, "number") /\ h[m] = Through(h[m - 1], groups[m], asked, "bind")
            BY <1>1, <1>2, <1>3, <2>3 DEF Run
        <2>5. BuildOK(f[m - 1]) /\ BuildOK(h[m - 1]) /\ groups[m].n \in Nat
            BY <1>2, <1>3, <2>3, AfterAll DEF After, GroupsOK, Hows
        <2>6. Level(f[m], h[m])
            BY <2>3, <2>4, <2>5, LevelStays
        <2> QED
            BY <2>1, <2>6
    <1> QED
        BY <1>1, <1>2, <1>3, <1>4

NamesOf(keys) == {Binds!Filter(k) : k \in keys}

PlacesOf(conditions) == {Binds!Cond(i) : i \in DOMAIN conditions}

Among(keys, order) ==
    /\ Len(order) \in Nat /\ DOMAIN order = 1..Len(order)
    /\ \A k \in keys : \E i \in 1..Len(order) : order[i] = k

FiltersTaken(b, order, keys, how, new) ==
    /\ BuildOK(new)
    /\ how = "both" /\ Agree(b) => Agree(new)
    /\ how = "number" => new.bound = b.bound /\ new.binds = b.binds
    /\ how = "bind" => new.next = b.next /\ new.clauses = b.clauses
    /\ how # "bind" => KeysOf(new.clauses) = KeysOf(b.clauses) \cup NamesOf(keys)
    /\ new.bound =< b.bound + Len(order) * 4

LEMMA FiltersOf ==
    ASSUME NEW b, BuildOK(b), NEW order, NEW keys, Among(keys, order), NEW how \in Hows
    PROVE  FiltersTaken(b, order, keys, how, Binds!Filters(b, order, keys, how))
    <1> DEFINE groups == [i \in DOMAIN order |-> [key |-> Binds!Filter(order[i]), n |-> Binds!Width(order[i])]]
               asked == NamesOf(keys)
               new == Binds!Filters(b, order, keys, how)
    <1>1. Len(groups) = Len(order) /\ \A i \in 1..Len(groups) :
              groups[i].key = Binds!Filter(order[i]) /\ groups[i].n \in Nat /\ groups[i].n =< 4
        BY DEF Binds!Width, Among
    <1>2. GroupsOK(groups) /\ Len(order) \in Nat
        BY <1>1 DEF GroupsOK, Among
    <1>3. new = Binds!Each(b, groups, asked, how)
        BY DEF Binds!Filters, NamesOf
    <1> HIDE DEF groups, asked, new
    <1>4. After(b, groups, asked, how, Len(order), new)
        BY <1>1, <1>2, <1>3, EachOf
    <1>5. KeysUpTo(groups, Len(order)) \cap asked = asked
        BY <1>1 DEF KeysUpTo, asked, NamesOf, Among
    <1>6. new.bound =< b.bound + Len(order) * 4
        BY <1>1, <1>2, <1>4 DEF After
    <1>7. how # "bind" => KeysOf(new.clauses) = KeysOf(b.clauses) \cup asked
        BY <1>4, <1>5 DEF After
    <1> QED
        BY <1>4, <1>6, <1>7 DEF After, FiltersTaken, new, asked

LEMMA FiltersStayLevel ==
    ASSUME NEW x, BuildOK(x), NEW y, BuildOK(y), Level(x, y), NEW keys,
           NEW order, Len(order) \in Nat, DOMAIN order = 1..Len(order)
    PROVE  Level(Binds!Filters(x, order, keys, "number"), Binds!Filters(y, order, keys, "bind"))
    <1> DEFINE groups == [i \in DOMAIN order |-> [key |-> Binds!Filter(order[i]), n |-> Binds!Width(order[i])]]
    <1>1. Len(groups) = Len(order) /\ \A i \in 1..Len(groups) : groups[i].n \in Nat
        BY DEF Binds!Width
    <1>2. GroupsOK(groups)
        BY <1>1 DEF GroupsOK
    <1> HIDE DEF groups
    <1>3. Level(Binds!Each(x, groups, {Binds!Filter(k) : k \in keys}, "number"),
                Binds!Each(y, groups, {Binds!Filter(k) : k \in keys}, "bind"))
        BY <1>2, EachStaysLevel
    <1> QED
        BY <1>3 DEF Binds!Filters, groups

\* What is sent as conditions is a sequence, and each says how many values it has.
SentOK(conditions) ==
    /\ Len(conditions) \in Nat /\ DOMAIN conditions = 1..Len(conditions)
    /\ \A i \in 1..Len(conditions) :
          conditions[i].values \in Nat /\ (conditions[i].op = "in" \/ conditions[i].values = 1)

LEMMA SentIsOK ==
    ASSUME NEW conditions \in Binds!Sent
    PROVE  SentOK(conditions)
    <1>1. PICK count \in ConditionCounts, n \in InSizes :
              \/ conditions = [i \in 1..count |-> [op |-> "in", values |-> n]]
              \/ conditions = [i \in 1..count |-> IF i = 1 THEN [op |-> "eq", values |-> 1]
                                                  ELSE [op |-> "in", values |-> n]]
        BY DEF Binds!Sent
    <1>2. count \in Nat /\ n \in Nat
        BY CapsAreSound DEF Binds!BindsAssumption
    <1>3. CASE conditions = [i \in 1..count |-> [op |-> "in", values |-> n]]
        BY <1>2, <1>3 DEF SentOK
    <1>4. CASE conditions = [i \in 1..count |-> IF i = 1 THEN [op |-> "eq", values |-> 1]
                                                ELSE [op |-> "in", values |-> n]]
        <2>1. Len(conditions) = count /\ DOMAIN conditions = 1..count
            BY <1>2, <1>4
        <2>2. \A i \in 1..count : conditions[i] = IF i = 1 THEN [op |-> "eq", values |-> 1] ELSE [op |-> "in", values |-> n]
            BY <1>4
        <2>3. \A i \in 1..count :
                  conditions[i].values \in Nat /\ (conditions[i].op = "in" \/ conditions[i].values = 1)
            BY <1>2, <2>2
        <2> QED
            BY <1>2, <2>1, <2>3 DEF SentOK
    <1> QED
        BY <1>1, <1>3, <1>4

LEMMA ConditionsOf ==
    ASSUME NEW b, BuildOK(b), NEW conditions, SentOK(conditions), NEW how \in Hows
    PROVE  LET new == Binds!Conditions(b, conditions, how) IN
           /\ BuildOK(new)
           /\ how = "both" /\ Agree(b) => Agree(new)
           /\ how = "number" => new.bound = b.bound /\ new.binds = b.binds
           /\ how = "bind" => new.next = b.next /\ new.clauses = b.clauses
           /\ how # "bind" => KeysOf(new.clauses) = KeysOf(b.clauses) \cup PlacesOf(conditions)
           /\ Binds!WithinCaps(conditions) => new.bound =< b.bound + ConditionsAtMost * ElementsAtMost
    <1> DEFINE groups == [i \in DOMAIN conditions |-> [key |-> Binds!Cond(i), n |-> conditions[i].values]]
               asked == PlacesOf(conditions)
               new == Binds!Conditions(b, conditions, how)
    <1>1. Len(groups) = Len(conditions) /\ Len(conditions) \in Nat /\ DOMAIN conditions = 1..Len(conditions)
          /\ \A i \in 1..Len(groups) :
              groups[i].key = Binds!Cond(i) /\ groups[i].n \in Nat /\ groups[i].n = conditions[i].values
        BY DEF SentOK
    <1>2. GroupsOK(groups)
        BY <1>1 DEF GroupsOK
    <1>3. new = Binds!Each(b, groups, asked, how)
        BY DEF Binds!Conditions, PlacesOf
    <1> HIDE DEF groups, asked, new
    <1>4. After(b, groups, asked, how, Len(conditions), new)
        BY <1>1, <1>2, <1>3, EachOf
    <1>5. KeysUpTo(groups, Len(conditions)) \cap asked = asked
        BY <1>1 DEF KeysUpTo, asked, NamesOf, PlacesOf
    <1>6. ASSUME Binds!WithinCaps(conditions)
          PROVE  new.bound =< b.bound + ConditionsAtMost * ElementsAtMost
        <2>1. /\ ConditionsAtMost \in Nat /\ ElementsAtMost \in Nat /\ 1 =< ElementsAtMost
              /\ Len(conditions) =< ConditionsAtMost
            BY <1>6, CapsAreSound DEF Binds!BindsAssumption, Binds!WithinCaps
        <2>2. \A i \in 1..Len(groups) : groups[i].n =< ElementsAtMost
            BY <1>1, <1>6, <2>1 DEF Binds!WithinCaps, SentOK
        <2>3. new.bound =< b.bound + Len(conditions) * ElementsAtMost
            BY <1>4, <2>1, <2>2 DEF After
        <2>4. Len(conditions) * ElementsAtMost =< ConditionsAtMost * ElementsAtMost
            <3>1. (ConditionsAtMost - Len(conditions)) * ElementsAtMost >= 0
                BY <1>1, <2>1
            <3>2. (ConditionsAtMost - Len(conditions)) * ElementsAtMost
                    = ConditionsAtMost * ElementsAtMost - Len(conditions) * ElementsAtMost
                BY <1>1, <2>1
            <3> QED
                BY <1>1, <2>1, <3>1, <3>2
        <2>5. new.bound \in Nat /\ b.bound \in Nat
            BY <1>4 DEF After, BuildOK
        <2>6. Len(conditions) * ElementsAtMost \in Int /\ ConditionsAtMost * ElementsAtMost \in Int
            BY <1>1, <2>1
        <2> QED
            BY <2>3, <2>4, <2>5, <2>6
    <1>7. how # "bind" => KeysOf(new.clauses) = KeysOf(b.clauses) \cup asked
        BY <1>4, <1>5 DEF After
    <1> QED
        BY <1>4, <1>6, <1>7 DEF After, new, asked

LEMMA ConditionsStayLevel ==
    ASSUME NEW x, BuildOK(x), NEW y, BuildOK(y), Level(x, y), NEW conditions, SentOK(conditions)
    PROVE  Level(Binds!Conditions(x, conditions, "number"), Binds!Conditions(y, conditions, "bind"))
    <1> DEFINE groups == [i \in DOMAIN conditions |-> [key |-> Binds!Cond(i), n |-> conditions[i].values]]
    <1>1. Len(groups) = Len(conditions) /\ Len(conditions) \in Nat /\ \A i \in 1..Len(groups) : groups[i].n \in Nat
        BY DEF SentOK
    <1>2. GroupsOK(groups)
        BY <1>1 DEF GroupsOK
    <1> HIDE DEF groups
    <1>3. Level(Binds!Each(x, groups, {Binds!Cond(i) : i \in DOMAIN conditions}, "number"),
                Binds!Each(y, groups, {Binds!Cond(i) : i \in DOMAIN conditions}, "bind"))
        BY <1>2, EachStaysLevel
    <1> QED
        BY <1>3 DEF Binds!Conditions, groups

LEMMA EmptyIsOK ==
    /\ BuildOK(Binds!Empty) /\ Agree(Binds!Empty) /\ KeysOf(Binds!Empty.clauses) = {}
    /\ Binds!Empty.bound = 0
    <1>1. Binds!Empty = [next |-> 1, clauses |-> <<>>, bound |-> 0, binds |-> <<>>]
        BY DEF Binds!Empty
    <1>2. \A S : <<>> \in Seq(S)
        OBVIOUS
    <1> QED
        BY <1>1, <1>2 DEF BuildOK, Agree, KeysOf

\* A statement whose text and driver agree, and what its clauses are.
Composed(built, keys) == built.clauses = built.binds /\ KeysOf(built.clauses) = keys /\ built.bound \in Nat

Asked(keys, conditions) == NamesOf(keys) \cup PlacesOf(conditions)

LEMMA PagedIsRight ==
    ASSUME NEW b, BuildOK(b), b.clauses = b.binds, NEW at, at = b.bound + 1
    PROVE  /\ Composed(Binds!Paged(b, at), KeysOf(b.clauses) \cup {Binds!Filter("limit"), Binds!Filter("offset")})
           /\ Binds!Paged(b, at).bound =< b.bound + 8
    <1> DEFINE from == [next |-> at, clauses |-> b.clauses, bound |-> b.bound, binds |-> b.binds]
               order == <<"limit", "offset">>
               new == Binds!Filters(from, order, {"limit", "offset"}, "both")
    <1>1. from.next = at /\ from.clauses = b.clauses /\ from.bound = b.bound /\ from.binds = b.binds
        OBVIOUS
    <1> HIDE DEF from
    <1>2. BuildOK(from) /\ Agree(from)
        BY <1>1 DEF BuildOK, Agree
    <1>3. Among({"limit", "offset"}, order) /\ Len(order) = 2
        BY DEF Among
    <1> HIDE DEF order
    <1>4. /\ BuildOK(new) /\ Agree(new)
          /\ KeysOf(new.clauses) = KeysOf(b.clauses) \cup NamesOf({"limit", "offset"})
          /\ new.bound =< b.bound + 2 * 4
        <2>1. FiltersTaken(from, order, {"limit", "offset"}, "both", new)
            BY <1>2, <1>3, FiltersOf DEF Hows
        <2> QED
            BY <1>1, <1>2, <1>3, <2>1 DEF FiltersTaken
    <1>5. Binds!Paged(b, at) = new
        BY DEF Binds!Paged, from, order
    <1>6. NamesOf({"limit", "offset"}) = {Binds!Filter("limit"), Binds!Filter("offset")}
        BY DEF NamesOf
    <1> QED
        BY <1>4, <1>5, <1>6 DEF Composed, Agree, BuildOK

\* The WHERE of an emission list.
LEMMA EmissionWhereOf ==
    ASSUME NEW keys, keys \subseteq {Binds!EmissionKeys[i] : i \in DOMAIN Binds!EmissionKeys},
           NEW conditions, SentOK(conditions)
    PROVE  LET b == Binds!EmissionWhere(keys, conditions) IN
           /\ BuildOK(b) /\ Agree(b) /\ KeysOf(b.clauses) = Asked(keys, conditions)
           /\ Binds!WithinCaps(conditions) => b.bound =< 52 + ConditionsAtMost * ElementsAtMost
    <1> DEFINE order == Binds!EmissionKeys
               mid == Binds!Filters(Binds!Empty, order, keys, "both")
               b == Binds!Conditions(mid, conditions, "both")
    <1>1. Len(order) = 13 /\ DOMAIN order = 1..13
        BY DEF Binds!EmissionKeys
    <1> HIDE DEF order
    <1>2. Among(keys, order)
        BY <1>1 DEF order, Among
    <1>3. /\ BuildOK(mid) /\ Agree(mid) /\ KeysOf(mid.clauses) = NamesOf(keys)
          /\ mid.bound =< 0 + 13 * 4
        <2>1. FiltersTaken(Binds!Empty, order, keys, "both", mid)
            BY <1>2, EmptyIsOK, FiltersOf DEF Hows
        <2> QED
            BY <1>1, EmptyIsOK, <2>1 DEF FiltersTaken
    <1> HIDE DEF mid
    <1>4. /\ BuildOK(b) /\ Agree(b)
          /\ KeysOf(b.clauses) = KeysOf(mid.clauses) \cup PlacesOf(conditions)
          /\ Binds!WithinCaps(conditions) => b.bound =< mid.bound + ConditionsAtMost * ElementsAtMost
        BY <1>3, ConditionsOf DEF Hows
    <1>5. Binds!EmissionWhere(keys, conditions) = b
        BY DEF Binds!EmissionWhere, mid, order
    <1>6. Binds!WithinCaps(conditions) => b.bound =< 52 + ConditionsAtMost * ElementsAtMost
        <2>1. ConditionsAtMost * ElementsAtMost \in Int /\ b.bound \in Nat /\ mid.bound \in Nat
            BY <1>3, <1>4, CapsAreSound DEF Binds!BindsAssumption, BuildOK
        <2> QED
            BY <1>3, <1>4, <2>1
    <1> QED
        BY <1>3, <1>4, <1>5, <1>6 DEF Asked

\* The page of an emitter list: numbered in one place, bound in another.
LEMMA EmitterPageOf ==
    ASSUME NEW keys, keys \subseteq {Binds!EmitterKeys[i] : i \in DOMAIN Binds!EmitterKeys},
           NEW conditions, SentOK(conditions)
    PROVE  /\ Composed(Binds!EmitterPage(keys, conditions),
                    Asked(keys, conditions) \cup {Binds!Filter("limit"), Binds!Filter("offset")})
           /\ Binds!WithinCaps(conditions) =>
                  Binds!EmitterPage(keys, conditions).bound =< 60 + ConditionsAtMost * ElementsAtMost
    <1> DEFINE order == Binds!EmitterKeys
               b1 == Binds!Filters(Binds!Empty, order, keys, "number")
               b2 == Binds!Conditions(b1, conditions, "number")
               b3 == Binds!Filters(b2, order, keys, "bind")
               b4 == Binds!Conditions(b3, conditions, "bind")
    <1>1. Len(order) = 4 /\ DOMAIN order = 1..4
        BY DEF Binds!EmitterKeys
    <1> HIDE DEF order
    <1>2. Among(keys, order)
        BY <1>1 DEF order, Among
    <1>3. /\ BuildOK(b1) /\ b1.bound = 0 /\ b1.binds = Binds!Empty.binds
          /\ KeysOf(b1.clauses) = NamesOf(keys)
        <2>1. FiltersTaken(Binds!Empty, order, keys, "number", b1)
            BY <1>2, EmptyIsOK, FiltersOf DEF Hows
        <2> QED
            BY EmptyIsOK, <2>1 DEF FiltersTaken
    <1>4. /\ BuildOK(b2) /\ b2.bound = 0 /\ b2.binds = Binds!Empty.binds
          /\ KeysOf(b2.clauses) = Asked(keys, conditions)
        <2> HIDE DEF b1
        <2> QED
            BY <1>3, ConditionsOf DEF Hows, Asked
    <1>5. /\ BuildOK(b3) /\ b3.next = b2.next /\ b3.clauses = b2.clauses /\ b3.bound =< 0 + 4 * 4
        <2> HIDE DEF b2
        <2> QED
            <3>1. FiltersTaken(b2, order, keys, "bind", b3)
                BY <1>2, <1>4, FiltersOf DEF Hows
            <3> QED
                BY <1>1, <1>4, <3>1 DEF FiltersTaken
    <1>6. /\ BuildOK(b4) /\ b4.next = b2.next /\ b4.clauses = b2.clauses
          /\ Binds!WithinCaps(conditions) => b4.bound =< b3.bound + ConditionsAtMost * ElementsAtMost
        <2> HIDE DEF b3
        <2> QED
            BY <1>5, ConditionsOf DEF Hows
    <1>7. Level(Binds!Empty, b2)
        BY <1>4, EmptyIsOK DEF Level, Agree
    <1>8. Level(b1, b3)
        <2> HIDE DEF b2
        <2> QED
            BY <1>1, <1>4, <1>7, EmptyIsOK, FiltersStayLevel
    <1>9. Level(b2, b4)
        <2> HIDE DEF b1, b3
        <2> QED
            BY <1>3, <1>5, <1>8, ConditionsStayLevel
    <1>10. Binds!EmitterPage(keys, conditions) = Binds!Paged(b4, b2.next)
        BY DEF Binds!EmitterPage, Binds!BindAll, order, Binds!EmitterKeys
    <1> HIDE DEF b2, b3, b4
    <1>11. b4.clauses = b4.binds /\ b2.next = b4.bound + 1
        BY <1>6, <1>9 DEF Level
    <1>12. /\ Composed(Binds!Paged(b4, b2.next), KeysOf(b4.clauses) \cup {Binds!Filter("limit"), Binds!Filter("offset")})
           /\ Binds!Paged(b4, b2.next).bound =< b4.bound + 8
        BY <1>6, <1>11, PagedIsRight
    <1>13. Binds!WithinCaps(conditions) =>
               Binds!Paged(b4, b2.next).bound =< 60 + ConditionsAtMost * ElementsAtMost
        <2>1. ConditionsAtMost * ElementsAtMost \in Int /\ b3.bound \in Nat /\ b4.bound \in Nat
              /\ Binds!Paged(b4, b2.next).bound \in Nat
            BY <1>5, <1>6, <1>12, CapsAreSound DEF Binds!BindsAssumption, BuildOK, Composed
        <2> QED
            BY <1>5, <1>6, <1>12, <2>1
    <1> QED
        BY <1>4, <1>6, <1>10, <1>12, <1>13

LEMMA EntityPageOf ==
    ASSUME NEW keys, keys \subseteq {"search"}
    PROVE  /\ Composed(Binds!EntityPage(keys),
                    NamesOf(keys) \cup {Binds!Filter("limit"), Binds!Filter("offset")})
           /\ Binds!EntityPage(keys).bound =< 60
    <1> DEFINE order == <<"search">>
               b == Binds!Filters(Binds!Empty, order, keys, "both")
               at == IF "search" \in keys THEN 2 ELSE 1
    <1>1. Len(order) = 1 /\ Among(keys, order)
        BY DEF Among
    <1>2. /\ BuildOK(b) /\ Agree(b) /\ KeysOf(b.clauses) = NamesOf(keys)
          /\ b.bound =< 0 + 1 * 4
        <2> HIDE DEF order
        <2> QED
            <3>1. FiltersTaken(Binds!Empty, order, keys, "both", b)
                BY <1>1, EmptyIsOK, FiltersOf DEF Hows
            <3> QED
                BY <1>1, EmptyIsOK, <3>1 DEF FiltersTaken
    <1>3. at = b.bound + 1
        <2>1. b = Through(Binds!Empty, [key |-> Binds!Filter("search"), n |-> 1], NamesOf(keys), "both")
            <3> DEFINE groups == [i \in DOMAIN order |-> [key |-> Binds!Filter(order[i]), n |-> Binds!Width(order[i])]]
            <3>1. Len(groups) = 1 /\ groups[1] = [key |-> Binds!Filter("search"), n |-> 1]
                BY DEF Binds!Width
            <3>2. b = Binds!Each(Binds!Empty, groups, NamesOf(keys), "both")
                BY DEF Binds!Filters, NamesOf
            <3> HIDE DEF groups, b
            <3>3. PICK f : /\ Run(Binds!Empty, groups, NamesOf(keys), "both", 1, f)
                           /\ b = f[1]
                <4>1. Len(groups) \in Nat
                    BY <3>1
                <4>2. \E f : Run(Binds!Empty, groups, NamesOf(keys), "both", Len(groups), f)
                             /\ Binds!Each(Binds!Empty, groups, NamesOf(keys), "both") = f[Len(groups)]
                    BY <4>1, EachRuns, Zenon
                <4> QED
                    BY <3>1, <3>2, <4>2
            <3>4. f[0] = Binds!Empty
                BY <3>3 DEF Run
            <3>5. f[1] = Through(f[0], groups[1], NamesOf(keys), "both")
                BY <3>3 DEF Run
            <3> QED
                BY <3>1, <3>3, <3>4, <3>5
        <2>2. Binds!Filter("search") \in NamesOf(keys) <=> "search" \in keys
            BY DEF Binds!Filter, NamesOf
        <2> HIDE DEF b
        <2>3. CASE "search" \in keys
            BY <2>1, <2>2, <2>3 DEF Through, Binds!Take, Binds!Bind, Binds!Number, Binds!Empty
        <2>4. CASE "search" \notin keys
            BY <2>1, <2>2, <2>4 DEF Through, Binds!Empty
        <2> QED
            BY <2>3, <2>4
    <1>4. Binds!EntityPage(keys) = Binds!Paged(b, at)
        BY DEF Binds!EntityPage
    <1> HIDE DEF b, at
    <1>5. /\ Composed(Binds!Paged(b, at), KeysOf(b.clauses) \cup {Binds!Filter("limit"), Binds!Filter("offset")})
          /\ Binds!Paged(b, at).bound =< b.bound + 8
        BY <1>2, <1>3, PagedIsRight DEF Agree
    <1> QED
        BY <1>2, <1>4, <1>5 DEF Composed, BuildOK

\* The statements of a rule: fixed positions first.
LEMMA RuleStatementOf ==
    ASSUME NEW fixed \in {<<"kind">>, <<"emitter_id", "kind">>}, NEW conditions, SentOK(conditions)
    PROVE  Composed(Binds!RuleStatement(fixed, conditions), Asked({fixed[i] : i \in DOMAIN fixed}, conditions))
    <1> DEFINE first == [i \in DOMAIN fixed |-> [key |-> Binds!Filter(fixed[i]), at |-> i, n |-> 1]]
               b == [next |-> Len(fixed) + 1, clauses |-> first, bound |-> Len(fixed), binds |-> first]
               new == Binds!Conditions(b, conditions, "both")
    <1>1. Len(fixed) \in Nat /\ DOMAIN fixed = 1..Len(fixed)
        OBVIOUS
    <1>2. first \in Seq({first[i] : i \in DOMAIN fixed}) /\ DOMAIN first = DOMAIN fixed
        BY <1>1
    <1>3. \A i \in DOMAIN first : first[i].key = Binds!Filter(fixed[i])
        OBVIOUS
    <1> HIDE DEF first
    <1>4. b.next = Len(fixed) + 1 /\ b.clauses = first /\ b.bound = Len(fixed) /\ b.binds = first
        OBVIOUS
    <1> HIDE DEF b
    <1>5. BuildOK(b) /\ Agree(b)
        BY <1>1, <1>2, <1>4 DEF BuildOK, Agree
    <1>6. KeysOf(b.clauses) = NamesOf({fixed[i] : i \in DOMAIN fixed})
        <2>1. KeysOf(b.clauses) = {first[i].key : i \in DOMAIN fixed}
            BY <1>2, <1>4, SMTT(30) DEF KeysOf
        <2>2. {first[i].key : i \in DOMAIN fixed} = {Binds!Filter(fixed[i]) : i \in DOMAIN fixed}
            BY <1>2, <1>3, SMTT(30)
        <2>3. {Binds!Filter(fixed[i]) : i \in DOMAIN fixed} = NamesOf({fixed[i] : i \in DOMAIN fixed})
            BY SMTT(30) DEF NamesOf
        <2> QED
            BY <2>1, <2>2, <2>3
    <1>7. /\ BuildOK(new) /\ Agree(new)
          /\ KeysOf(new.clauses) = KeysOf(b.clauses) \cup PlacesOf(conditions)
        BY <1>5, ConditionsOf DEF Hows
    <1>8. Binds!RuleStatement(fixed, conditions) = new
        BY DEF Binds!RuleStatement, b, first
    <1> QED
        BY <1>6, <1>7, <1>8 DEF Composed, Agree, Asked, BuildOK

StatementOK == Binds!PlaceholdersAgree /\ Binds!WithinLimit

LEMMA AnswerIsRight ==
    ASSUME NEW keys, NEW conditions, NEW built, NEW capped,
           Composed(built, Asked(keys, conditions)), capped => built.bound =< ParametersAtMost,
           Binds!Answer(keys, conditions, built, capped)
    PROVE  StatementOK'
    <1>1. /\ statement'.clauses = built.clauses /\ statement'.binds = built.binds
          /\ statement'.bound = built.bound /\ statement'.keys = Asked(keys, conditions)
        BY DEF Binds!Answer, Asked, NamesOf, PlacesOf
    <1>2. statement'.capped = capped
        BY Zenon DEF Binds!Answer
    <1>3. statement'.clauses = statement'.binds /\ KeysOf(statement'.clauses) = statement'.keys
        BY <1>1 DEF Composed
    <1>4. Binds!PlaceholdersAgree'
        BY <1>3, Zenon DEF Binds!PlaceholdersAgree, KeysOf
    <1>5. Binds!WithinLimit'
        BY <1>1, <1>2, Zenon DEF Binds!WithinLimit
    <1> QED
        BY <1>4, <1>5 DEF StatementOK

LEMMA NoStatementIsRight ==
    ASSUME statement' = NoValue
    PROVE  StatementOK'
    BY DEF StatementOK, Binds!PlaceholdersAgree, Binds!WithinLimit

LEMMA CapsSuffice ==
    /\ ConditionsAtMost * ElementsAtMost \in Nat /\ ParametersAtMost \in Nat
    /\ 60 + ConditionsAtMost * ElementsAtMost =< ParametersAtMost
    BY CapsAreSound DEF Binds!BindsAssumption

PageKeys == NamesOf({"limit", "offset"})

LEMMA AskedWithPage ==
    ASSUME NEW keys, NEW conditions
    PROVE  Asked(keys \cup {"limit", "offset"}, conditions)
               = Asked(keys, conditions) \cup {Binds!Filter("limit"), Binds!Filter("offset")}
    BY DEF Asked, NamesOf

LEMMA ListEmissionsStep ==
    ASSUME Binds!ListEmissions
    PROVE  StatementOK'
    <1>1. PICK keys \in Binds!Combined(Binds!EmissionKeys), conditions \in Binds!Sent :
              \/ Binds!Refuse
              \/ /\ Binds!WithinCaps(conditions)
                 /\ Binds!Answer(keys \cup {"limit", "offset"}, conditions, Binds!EmissionPage(keys, conditions), TRUE)
              \/ /\ Binds!WithinCaps(conditions)
                 /\ Binds!Answer(keys, conditions, Binds!EmissionWhere(keys, conditions), TRUE)
        BY Zenon DEF Binds!ListEmissions
    <1>2. keys \subseteq {Binds!EmissionKeys[i] : i \in DOMAIN Binds!EmissionKeys} /\ SentOK(conditions)
        BY SentIsOK DEF Binds!Combined
    <1> DEFINE b == Binds!EmissionWhere(keys, conditions)
               page == Binds!EmissionPage(keys, conditions)
    <1>3. /\ BuildOK(b) /\ Agree(b) /\ KeysOf(b.clauses) = Asked(keys, conditions)
          /\ Binds!WithinCaps(conditions) => b.bound =< 52 + ConditionsAtMost * ElementsAtMost
        BY <1>2, EmissionWhereOf
    <1>4. page = Binds!Paged(b, b.bound + 1)
        BY DEF Binds!EmissionPage
    <1> HIDE DEF b, page
    <1>5. /\ Composed(page, Asked(keys \cup {"limit", "offset"}, conditions)) /\ page.bound =< b.bound + 8
        BY <1>3, <1>4, PagedIsRight, AskedWithPage DEF Agree
    <1>6. Composed(b, Asked(keys, conditions))
        BY <1>3 DEF Composed, Agree, BuildOK
    <1>7. CASE Binds!Refuse
        BY <1>7, NoStatementIsRight DEF Binds!Refuse
    <1>8. CASE /\ Binds!WithinCaps(conditions)
               /\ Binds!Answer(keys \cup {"limit", "offset"}, conditions, Binds!EmissionPage(keys, conditions), TRUE)
        <2>1. page.bound =< ParametersAtMost
            BY <1>3, <1>5, <1>6, <1>8, CapsSuffice DEF Composed
        <2> QED
            BY <1>5, <1>8, <2>1, AnswerIsRight DEF page
    <1>9. CASE /\ Binds!WithinCaps(conditions)
               /\ Binds!Answer(keys, conditions, Binds!EmissionWhere(keys, conditions), TRUE)
        <2>1. b.bound =< ParametersAtMost
            BY <1>3, <1>6, <1>9, CapsSuffice DEF Composed
        <2> QED
            BY <1>6, <1>9, <2>1, AnswerIsRight DEF b
    <1> QED
        BY <1>1, <1>7, <1>8, <1>9

LEMMA ListEmittersStep ==
    ASSUME Binds!ListEmitters
    PROVE  StatementOK'
    <1>1. PICK keys \in Binds!Combined(Binds!EmitterKeys), conditions \in Binds!Sent :
              \/ Binds!Refuse
              \/ /\ Binds!WithinCaps(conditions)
                 /\ Binds!Answer(keys \cup {"limit", "offset"}, conditions, Binds!EmitterPage(keys, conditions), TRUE)
        BY Zenon DEF Binds!ListEmitters
    <1>2. keys \subseteq {Binds!EmitterKeys[i] : i \in DOMAIN Binds!EmitterKeys} /\ SentOK(conditions)
        BY SentIsOK DEF Binds!Combined
    <1> DEFINE page == Binds!EmitterPage(keys, conditions)
    <1>3. /\ Composed(page, Asked(keys \cup {"limit", "offset"}, conditions))
          /\ Binds!WithinCaps(conditions) => page.bound =< 60 + ConditionsAtMost * ElementsAtMost
        BY <1>2, EmitterPageOf, AskedWithPage
    <1> HIDE DEF page
    <1>4. CASE Binds!Refuse
        BY <1>4, NoStatementIsRight DEF Binds!Refuse
    <1>5. CASE /\ Binds!WithinCaps(conditions)
               /\ Binds!Answer(keys \cup {"limit", "offset"}, conditions, Binds!EmitterPage(keys, conditions), TRUE)
        <2>1. page.bound =< ParametersAtMost
            BY <1>3, <1>5, CapsSuffice DEF Composed
        <2> QED
            BY <1>3, <1>5, <2>1, AnswerIsRight DEF page
    <1> QED
        BY <1>1, <1>4, <1>5

LEMMA ListEntitiesStep ==
    ASSUME Binds!ListEntities
    PROVE  StatementOK'
    <1>1. PICK keys \in SUBSET {"search"} :
              Binds!Answer(keys \cup {"limit", "offset"}, <<>>, Binds!EntityPage(keys), TRUE)
        BY DEF Binds!ListEntities
    <1> DEFINE page == Binds!EntityPage(keys)
    <1>2. PlacesOf(<<>>) = {}
        BY DEF PlacesOf
    <1>3. Composed(page, Asked(keys \cup {"limit", "offset"}, <<>>)) /\ page.bound =< 60
        BY <1>2, EntityPageOf, AskedWithPage DEF Asked, NamesOf
    <1> HIDE DEF page
    <1>4. page.bound =< ParametersAtMost
        BY <1>3, CapsSuffice DEF Composed
    <1> QED
        BY <1>1, <1>3, <1>4, AnswerIsRight DEF page

LEMMA RunRuleStep ==
    ASSUME Binds!RunRule
    PROVE  StatementOK'
    <1>1. PICK conditions \in Binds!Sent, fixed \in {<<"kind">>, <<"emitter_id", "kind">>} :
              Binds!Answer({fixed[i] : i \in DOMAIN fixed}, conditions, Binds!RuleStatement(fixed, conditions), FALSE)
        BY DEF Binds!RunRule
    <1>2. Composed(Binds!RuleStatement(fixed, conditions), Asked({fixed[i] : i \in DOMAIN fixed}, conditions))
        BY SentIsOK, RuleStatementOf
    <1> QED
        BY <1>1, <1>2, AnswerIsRight

LEMMA StatementsStayRight ==
    ASSUME StatementOK, Binds!Next \/ UNCHANGED bindsVars
    PROVE  StatementOK'
    <1>1. CASE Binds!Again
        BY <1>1, NoStatementIsRight DEF Binds!Again
    <1>2. CASE UNCHANGED bindsVars
        BY <1>2 DEF bindsVars, StatementOK, Binds!PlaceholdersAgree, Binds!WithinLimit
    <1> QED
        BY <1>1, <1>2, ListEmissionsStep, ListEmittersStep, ListEntitiesStep, RunRuleStep DEF Binds!Next

\* What a query says is what its rule says, for every rule that is let through and every
\* emission its conditions read as the catalog has it, and its values are bound where its text
\* has them, whatever filters and conditions are combined, within what Postgres takes.
THEOREM QueriesMeanWhatTheySay == SuiteSpec => []QueriesMeanTheirRules
    <1> DEFINE Inv == LanguageInv /\ StatementOK
    <1>1. SuiteInit => Inv
        <2> SUFFICES ASSUME SuiteInit PROVE Inv
            OBVIOUS
        <2>1. statement = NoValue
            BY DEF SuiteInit, Binds!Init
        <2> QED
            BY <2>1, LanguageInitially DEF StatementOK, Binds!PlaceholdersAgree, Binds!WithinLimit
    <1>2. Inv /\ [SuiteNext]_suiteVars => Inv'
        <2> SUFFICES ASSUME Inv, [SuiteNext]_suiteVars PROVE Inv'
            OBVIOUS
        <2>1. Language!Next \/ UNCHANGED languageVars
            BY DEF SuiteNext, suiteVars
        <2>2. Binds!Next \/ UNCHANGED bindsVars
            BY DEF SuiteNext, suiteVars
        <2> QED
            BY <2>1, <2>2, LanguageStep, LanguageUntouched, StatementsStayRight
    <1>3. Inv => QueriesMeanTheirRules
        BY RulesAgree DEF StatementOK, QueriesMeanTheirRules
    <1> QED
        BY <1>1, <1>2, <1>3, PTL DEF SuiteSpec
=============================================================================
