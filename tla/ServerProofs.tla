---------------------------- MODULE ServerProofs ----------------------------
(***************************************************************************)
(* Proofs about ServerLife and ModelCalls.                                 *)
(*                                                                         *)
(* ServerLife, for any number of processes, releases, inputs and presets,  *)
(* whatever crashes, lost commits and failed statements come between: the  *)
(* versions of one text are one row, a process that is up has found all of *)
(* its own, and a preset never loses its last model list.                  *)
(*                                                                         *)
(* ModelCalls, for every endpoints file, every set of tasks and visitors   *)
(* and every capacity of the caches: keys go home, and clients are open    *)
(* while they are held.                                                    *)
(***************************************************************************)
EXTENDS ModelCalls, ServerLife, SequenceTheorems, FiniteSetTheorems, TLAPS

-----------------------------------------------------------------------------
(* Versions: the inductive invariant *)

InputNames == {Inputs[i] : i \in DOMAIN Inputs}
Texts == {release[name] : release \in Release, name \in InputNames}
Rows == [name : InputNames, text : Texts, time : Nat]

ProcessState ==
    [pc : {"stopped", "syncing", "up"}, release : Release \cup {<<>>}, time : Nat,
     added : SUBSET Rows, found : SUBSET Rows]

ProcessType ==
    /\ process \in [Process -> ProcessState]
    /\ versions \in SUBSET Rows /\ started \in Nat

\* What is committed, or may be.
AllRows == versions \cup UNION {process[p].added : p \in Process}

Unique(rows) == \A row, other \in rows : SameContent(row, other) => row = other

\* A process has found its inputs up to some number, each with its text.
FoundUpTo(s, n) ==
    /\ \A row \in s.found : \E i \in 1 .. n : row.name = Inputs[i]
    /\ \A i \in 1 .. n : \E row \in s.found :
            row.name = Inputs[i] /\ row.text = s.release[Inputs[i]]

\* A process has found what is committed or what it adds; one that has not
\* started has nothing, one that is up adds nothing and has found all.
Synced(s, rows) ==
    /\ s.found \subseteq rows \cup s.added
    /\ IsFiniteSet(s.found) /\ Cardinality(s.found) <= Len(Inputs)
    /\ FoundUpTo(s, Cardinality(s.found))
    /\ s.pc = "stopped" => s.added = {} /\ s.found = {}
    /\ s.pc = "syncing" => s.release \in Release
    /\ s.pc = "up" => s.added = {} /\ Cardinality(s.found) = Len(Inputs)

VersionsInv == ProcessType /\ Unique(AllRows) /\ \A p \in Process : Synced(process[p], versions)

-----------------------------------------------------------------------------

LEMMA InputsLength == Len(Inputs) \in Nat /\ DOMAIN Inputs = 1 .. Len(Inputs)
BY InputsDistinct

LEMMA StoppedState ==
    /\ Stopped \in ProcessState
    /\ \A rows : Synced(Stopped, rows)
<1>1. Stopped \in ProcessState
  BY DEF Stopped, ProcessState
<1>2. IsFiniteSet({}) /\ Cardinality({}) = 0
  BY FS_EmptySet
<1>3. \A rows : Synced(Stopped, rows)
  BY <1>2, InputsLength DEF Stopped, Synced, FoundUpTo
<1> QED
  BY <1>1, <1>3

\* A process that leaves what is written, or takes its own part back, leaves
\* the others as they were.
LEMMA StoppedStep ==
  ASSUME VersionsInv, NEW p \in Process, process' = [process EXCEPT ![p] = Stopped],
         UNCHANGED versions, started' \in Nat
  PROVE  VersionsInv'
<1>1. ProcessType'
  BY StoppedState DEF VersionsInv, ProcessType
<1>2. \A q \in Process : process'[q] \in {process[q], Stopped}
  BY DEF VersionsInv, ProcessType
<1>3. AllRows' \subseteq AllRows
  BY <1>2 DEF AllRows, Stopped
<1>4. Unique(AllRows)'
  BY <1>3 DEF VersionsInv, Unique, SameContent
<1>5. \A q \in Process : Synced(process'[q], versions')
  BY <1>2, StoppedState DEF VersionsInv
<1> QED
  BY <1>1, <1>4, <1>5 DEF VersionsInv, Synced, FoundUpTo

LEMMA StartStep ==
  ASSUME VersionsInv, NEW p \in Process, NEW release \in Release, Start(p, release)
  PROVE  VersionsInv'
<1> DEFINE s == Syncing(release, started + 1)
<1>1. /\ s \in ProcessState
      /\ s.added = {} /\ s.found = {} /\ s.pc = "syncing" /\ s.release = release
  BY DEF Syncing, ProcessState, VersionsInv, ProcessType
<1>2. process' = [process EXCEPT ![p] = s] /\ versions' = versions /\ started' = started + 1
  BY DEF Start
<1> HIDE DEF s
<1>3. ProcessType'
  BY <1>1, <1>2 DEF VersionsInv, ProcessType
<1>4. \A q \in Process : process'[q] \in {process[q], s}
  BY <1>2 DEF VersionsInv, ProcessType
<1>5. AllRows' \subseteq AllRows
  BY <1>1, <1>2, <1>4 DEF AllRows
<1>6. Unique(AllRows)'
  BY <1>5 DEF VersionsInv, Unique, SameContent
<1>7. Synced(s, versions')
  <2>1. IsFiniteSet({}) /\ Cardinality({}) = 0
    BY FS_EmptySet
  <2> QED
    BY <1>1, <2>1, InputsLength DEF Synced, FoundUpTo
<1>8. \A q \in Process : Synced(process'[q], versions')
  BY <1>2, <1>4, <1>7 DEF VersionsInv
<1> QED
  BY <1>3, <1>6, <1>8 DEF VersionsInv, Synced, FoundUpTo

\* Finding the next input counts one more and leaves nothing out.
LEMMA FoundNext ==
  ASSUME NEW s \in ProcessState, NEW row \in Rows,
         IsFiniteSet(s.found), Cardinality(s.found) + 1 \in DOMAIN Inputs,
         FoundUpTo(s, Cardinality(s.found)),
         row.name = Inputs[Cardinality(s.found) + 1],
         row.text = s.release[row.name],
         NEW t \in ProcessState, t.found = s.found \cup {row}, t.release = s.release
  PROVE  /\ IsFiniteSet(t.found)
         /\ Cardinality(t.found) = Cardinality(s.found) + 1
         /\ FoundUpTo(t, Cardinality(t.found))
<1> DEFINE n == Cardinality(s.found)
<1>1. n \in Nat
  BY FS_CardinalityType
<1>2. row \notin s.found
  <2> SUFFICES ASSUME row \in s.found PROVE FALSE
    OBVIOUS
  <2>1. PICK i \in 1 .. n : row.name = Inputs[i]
    BY DEF FoundUpTo
  <2>2. i \in DOMAIN Inputs /\ i # n + 1
    BY <1>1, <2>1, InputsLength
  <2> QED
    BY <2>1, <2>2, InputsDistinct
<1>3. IsFiniteSet(t.found) /\ Cardinality(t.found) = n + 1
  <2>1. /\ IsFiniteSet(s.found \cup {row})
        /\ Cardinality(s.found \cup {row}) =
                IF row \in s.found THEN Cardinality(s.found) ELSE Cardinality(s.found) + 1
    BY FS_AddElement, Zenon
  <2> QED
    BY <1>2, <2>1
<1>4. FoundUpTo(t, n + 1)
  <2> HIDE DEF n
  <2>1. ASSUME NEW found \in t.found PROVE \E i \in 1 .. n + 1 : found.name = Inputs[i]
    <3>1. CASE found = row
      BY <1>1, <3>1 DEF n
    <3>2. CASE found \in s.found
      <4>1. PICK i \in 1 .. n : found.name = Inputs[i]
        BY <3>2 DEF FoundUpTo, n
      <4> QED
        BY <1>1, <4>1
    <3> QED
      BY <2>1, <3>1, <3>2
  <2>2. ASSUME NEW i \in 1 .. n + 1
        PROVE  \E found \in t.found :
                    found.name = Inputs[i] /\ found.text = t.release[Inputs[i]]
    <3>1. CASE i = n + 1
      BY <3>1 DEF n
    <3>2. CASE i \in 1 .. n
      <4>1. PICK found \in s.found :
                    found.name = Inputs[i] /\ found.text = s.release[Inputs[i]]
        BY <3>2 DEF FoundUpTo, n
      <4> QED
        BY <4>1
    <3> QED
      BY <1>1, <2>2, <3>1, <3>2
  <2> QED
    BY <2>1, <2>2 DEF FoundUpTo
<1> QED
  BY <1>3, <1>4

\* What a process may add to what is written is one of a kind.
LEMMA InsertedUnique ==
  ASSUME VersionsInv, NEW p \in Process, NEW row \in Rows, ~Waits(p, row)
  PROVE  Unique(AllRows \cup Inserted(p, row))
<1>1. CASE Inserted(p, row) = process[p].added
  <2>1. AllRows \cup Inserted(p, row) = AllRows
    BY <1>1 DEF AllRows
  <2> QED
    BY <2>1 DEF VersionsInv
<1>2. CASE /\ Inserted(p, row) = process[p].added \cup {row}
           /\ \A other \in versions \cup process[p].added : ~SameContent(row, other)
  <2>1. \A other \in AllRows : ~SameContent(row, other)
    BY <1>2 DEF AllRows, Waits
  <2>2. AllRows \cup Inserted(p, row) = AllRows \cup {row}
    BY <1>2 DEF AllRows
  <2>3. \A other \in AllRows : ~SameContent(other, row)
    BY <2>1 DEF SameContent
  <2> QED
    BY <2>1, <2>2, <2>3 DEF VersionsInv, Unique
<1> QED
  BY <1>1, <1>2 DEF Inserted

LEMMA SyncStep ==
  ASSUME VersionsInv, NEW p \in Process, Sync(p)
  PROVE  VersionsInv'
<1> DEFINE s == process[p]
           n == Cardinality(s.found)
           row == RowOf(p, NextInput(p))
           added == Inserted(p, row)
<1>1. s \in ProcessState /\ s.pc = "syncing" /\ n # Len(Inputs) /\ Synced(s, versions)
  BY DEF Sync, AllFound, VersionsInv, ProcessType
<1>2. n \in Nat /\ n + 1 \in DOMAIN Inputs
  <2>1. n \in Nat /\ n <= Len(Inputs)
    BY <1>1, FS_CardinalityType DEF Synced
  <2> QED
    BY <1>1, <2>1, InputsLength
<1>3. row.name = Inputs[n + 1] /\ row.text = s.release[row.name] /\ row \in Rows
  <2>1. /\ row.name = Inputs[n + 1]
        /\ row.text = s.release[row.name]
        /\ row = [name |-> Inputs[n + 1], text |-> s.release[Inputs[n + 1]], time |-> s.time]
    BY DEF RowOf, NextInput
  <2>2. Inputs[n + 1] \in InputNames /\ s.release[Inputs[n + 1]] \in Texts /\ s.time \in Nat
    BY <1>1, <1>2 DEF InputNames, Texts, Synced, ProcessState
  <2> QED
    BY <2>1, <2>2 DEF Rows
<1>4. PICK found \in versions \cup added :
        /\ SameContent(found, row)
        /\ ~Waits(p, row)
        /\ process' = [process EXCEPT ![p].added = added, ![p].found = s.found \cup {found}]
        /\ versions' = versions /\ started' = started
  BY DEF Sync
<1> DEFINE t == [s EXCEPT !.added = added, !.found = s.found \cup {found}]
<1> HIDE DEF row
<1>5. Unique(AllRows \cup added)
  BY <1>3, <1>4, InsertedUnique
<1>6. /\ added \subseteq process[p].added \cup {row}
      /\ process[p].added \subseteq added
  BY DEF Inserted
<1> HIDE DEF added
<1>7. found \in Rows /\ found.name = row.name /\ found.text = row.text
  <2>1. found.name = row.name /\ found.text = row.text
    BY <1>4 DEF SameContent
  <2>2. found \in versions \cup process[p].added \cup {row}
    BY <1>4, <1>6
  <2> QED
    BY <1>1, <1>3, <2>1, <2>2 DEF VersionsInv, ProcessType, ProcessState
<1>8. /\ t \in ProcessState
      /\ t.added = added /\ t.found = s.found \cup {found}
      /\ t.release = s.release /\ t.pc = "syncing"
  <2>2. added \in SUBSET Rows /\ s.found \cup {found} \in SUBSET Rows
    BY <1>1, <1>3, <1>6, <1>7 DEF ProcessState
  <2> QED
    BY <1>1, <2>2 DEF ProcessState
<1>9. process' = [process EXCEPT ![p] = t]
  BY <1>4
<1> HIDE DEF t
<1>10. ProcessType'
  BY <1>4, <1>8, <1>9 DEF VersionsInv, ProcessType
<1>11. \A q \in Process : process'[q] = IF q = p THEN t ELSE process[q]
  BY <1>9 DEF VersionsInv, ProcessType
<1>12. Unique(AllRows)'
  <2>1. AllRows' \subseteq AllRows \cup added
    <3>1. \A q \in Process : process'[q].added \subseteq process[q].added \cup added
      BY <1>8, <1>11
    <3> QED BY <1>4, <3>1 DEF AllRows
  <2> QED BY <1>5, <2>1, Zenon DEF Unique, SameContent
<1>13. Synced(t, versions')
  <2>1. /\ IsFiniteSet(t.found)
        /\ Cardinality(t.found) = n + 1
        /\ FoundUpTo(t, Cardinality(t.found))
    BY <1>1, <1>2, <1>3, <1>7, <1>8, FoundNext DEF Synced
  <2>2. t.found \subseteq versions \cup t.added
    BY <1>1, <1>4, <1>6, <1>8 DEF Synced
  <2>3. n + 1 <= Len(Inputs)
    BY <1>2, InputsLength
  <2> QED
    BY <1>1, <1>4, <1>8, <2>1, <2>2, <2>3 DEF Synced
<1>14. \A q \in Process : Synced(process'[q], versions')
  BY <1>4, <1>11, <1>13 DEF VersionsInv
<1> QED
  BY <1>10, <1>12, <1>14 DEF VersionsInv, Synced, FoundUpTo

LEMMA CommitStep ==
  ASSUME VersionsInv, NEW p \in Process, Commit(p)
  PROVE  VersionsInv'
<1> DEFINE s == process[p]
           t == [s EXCEPT !.pc = "up", !.added = {}]
<1>1. s \in ProcessState /\ s.pc = "syncing" /\ Synced(s, versions) /\ Cardinality(s.found) = Len(Inputs)
  BY DEF Commit, AllFound, VersionsInv, ProcessType
<1>2. /\ process' \in {[process EXCEPT ![p] = t], [process EXCEPT ![p] = Stopped]}
      /\ versions' = versions \cup s.added /\ started' = started
  BY DEF Commit
<1>3. /\ t \in ProcessState
      /\ t.added = {} /\ t.found = s.found /\ t.release = s.release /\ t.pc = "up"
  BY <1>1 DEF ProcessState
<1> HIDE DEF t
<1>4. ProcessType'
  <2>1. s.added \in SUBSET Rows
    BY <1>1 DEF ProcessState
  <2> QED
    BY <1>2, <1>3, <2>1, StoppedState DEF VersionsInv, ProcessType
<1>5. /\ \A q \in Process \ {p} : process'[q] = process[q]
      /\ process'[p] \in {t, Stopped}
  BY <1>2 DEF VersionsInv, ProcessType
<1>6. Unique(AllRows)'
  <2>1. \A q \in Process : process'[q].added \subseteq process[q].added
    BY <1>3, <1>5 DEF Stopped
  <2>2. AllRows' \subseteq AllRows
    BY <1>2, <2>1 DEF AllRows
  <2> QED
    BY <2>2 DEF VersionsInv, Unique, SameContent
<1>7. Synced(t, versions')
  <2>1. FoundUpTo(t, Cardinality(t.found))
    BY <1>1, <1>3 DEF Synced, FoundUpTo
  <2>2. IsFiniteSet(t.found) /\ Cardinality(t.found) <= Len(Inputs)
    BY <1>1, <1>3 DEF Synced
  <2>3. t.found \subseteq versions' \cup t.added
    BY <1>1, <1>2, <1>3 DEF Synced
  <2> QED
    BY <1>1, <1>3, <2>1, <2>2, <2>3 DEF Synced
<1>8. \A q \in Process : Synced(process'[q], versions')
  <2>1. ASSUME NEW q \in Process \ {p} PROVE Synced(process'[q], versions')
    BY <1>2, <1>5 DEF VersionsInv, Synced
  <2> QED
    BY <2>1, <1>5, <1>7, StoppedState
<1> QED
  BY <1>4, <1>6, <1>8 DEF VersionsInv, Synced, FoundUpTo

-----------------------------------------------------------------------------
(* Versions: the theorem *)

LEMMA VersionsInit == LifeInit => VersionsInv
<1> SUFFICES ASSUME LifeInit PROVE VersionsInv
  OBVIOUS
<1>1. \A p \in Process : process[p] = Stopped
  BY DEF LifeInit
<1>2. ProcessType
  BY StoppedState DEF LifeInit, ProcessType
<1>3. Unique(AllRows)
  BY <1>1 DEF LifeInit, AllRows, Unique, Stopped
<1> QED
  BY <1>1, <1>2, <1>3, StoppedState DEF VersionsInv

LEMMA VersionsStep == VersionsInv /\ [LifeNext]_lifeVars => VersionsInv'
<1> SUFFICES ASSUME VersionsInv, [LifeNext]_lifeVars PROVE VersionsInv'
  OBVIOUS
<1>1. ASSUME UNCHANGED <<process, versions, started>> PROVE VersionsInv'
  BY <1>1 DEF VersionsInv, ProcessType, Unique, AllRows, Synced, FoundUpTo
<1>2. ASSUME NEW p \in Process, NEW release \in Release, Start(p, release) PROVE VersionsInv'
  BY <1>2, StartStep
<1>3. ASSUME NEW p \in Process, Sync(p) PROVE VersionsInv'
  BY <1>3, SyncStep
<1>4. ASSUME NEW p \in Process, Commit(p) PROVE VersionsInv'
  BY <1>4, CommitStep
<1>5. ASSUME NEW p \in Process, Stop(p) PROVE VersionsInv'
  BY <1>5, StoppedStep DEF Stop, VersionsInv, ProcessType
<1>6. \/ UNCHANGED <<process, versions, started>>
      \/ \E p \in Process : (\E release \in Release : Start(p, release)) \/ Sync(p) \/ Commit(p) \/ Stop(p)
  BY DEF LifeNext, lifeVars, AskRefresh, Wake, TryDiscovery, SeeRows, LockRows, InsertRows,
     ReadDate, Replace, StoreFails
<1> QED
  BY <1>1, <1>2, <1>3, <1>4, <1>5, <1>6

LEMMA VersionsFollow == VersionsInv => VersionsAgree
<1> SUFFICES ASSUME VersionsInv PROVE VersionsAgree
  OBVIOUS
<1>1. ASSUME NEW p \in Process, process[p].pc = "up"
      PROVE  /\ process[p].found \subseteq versions
             /\ \A i \in DOMAIN Inputs : \E row \in process[p].found :
                    row.name = Inputs[i] /\ row.text = process[p].release[Inputs[i]]
  BY <1>1, InputsLength DEF VersionsInv, Synced, FoundUpTo
<1>2. versions \cup UNION {process[p].found : p \in Process} \subseteq AllRows
  BY DEF VersionsInv, Synced, AllRows
<1> QED
  BY <1>1, <1>2 DEF VersionsInv, VersionsAgree, Unique

\* However starts, crashes and lost commits interleave, a process that is up
\* serves with committed versions of its own texts, and no text has two.
THEOREM VersionsHold == LifeSpec => []VersionsAgree
BY VersionsInit, VersionsStep, VersionsFollow, PTL DEF LifeSpec

-----------------------------------------------------------------------------
(* Model lists *)

Writing == {"delete", "lock", "insert", "date", "commit"}

\* A refresh that writes has a list to write.
Sound(x) ==
    /\ x = [pc |-> x.pc, at |-> x.at, victims |-> x.victims, list |-> x.list, dated |-> x.dated]
    /\ x.pc \in Writing => x.list # {}

Dated == \A n \in Configured : catalog[n].dated <=> catalog[n].rows # {}

CatalogInv ==
    /\ refresh = [r \in Refreshers |-> refresh[r]]
    /\ \A r \in Refreshers : Sound(refresh[r])
    /\ catalog = [n \in Configured |-> catalog[n]]
    /\ Dated

LEMMA StageSound ==
  ASSUME NEW pc, NEW i, NEW list, pc \in Writing => list # {} PROVE Sound(Stage(pc, i, list))
<1>1. Stage(pc, i, list).pc = pc /\ Stage(pc, i, list).list = list
  BY DEF Stage
<1>2. Stage(pc, i, list) =
        [pc |-> Stage(pc, i, list).pc, at |-> Stage(pc, i, list).at, victims |-> Stage(pc, i, list).victims,
         list |-> Stage(pc, i, list).list, dated |-> Stage(pc, i, list).dated]
  BY DEF Stage
<1> QED
  BY <1>1, <1>2 DEF Sound

LEMMA RestingSound ==
  /\ Sound(Resting)
  /\ \A i : Sound(Stage("discover", i, {})) /\ Sound(Stage("asleep", i, {})) /\ Sound(Stage("dead", i, {}))
<1>1. /\ "idle" \notin Writing /\ "discover" \notin Writing
      /\ "asleep" \notin Writing /\ "dead" \notin Writing
  BY DEF Writing
<1>2. Sound(Resting)
  BY <1>1, StageSound DEF Resting
<1>3. ASSUME NEW i PROVE Sound(Stage("discover", i, {})) /\ Sound(Stage("asleep", i, {})) /\ Sound(Stage("dead", i, {}))
  BY <1>1, StageSound, Zenon
<1> QED
  BY <1>2, <1>3

LEMMA LessSound == ASSUME NEW x, Sound(x), NEW v PROVE Sound([x EXCEPT !.victims = v])
BY DEF Sound

LEMMA EndsSound == ASSUME NEW r PROVE Sound(Done(r)) /\ Sound(Raised(r))
BY RestingSound DEF Done, Raised

\* A step of one refresh that leaves the catalog alone.
LEMMA RefreshStep ==
  ASSUME CatalogInv, NEW r \in Refreshers, NEW x, Sound(x),
         refresh' = [refresh EXCEPT ![r] = x], UNCHANGED catalog
  PROVE  CatalogInv'
<1>1. \A o \in Refreshers : refresh'[o] \in {refresh[o], x}
  BY DEF CatalogInv
<1>2. \A o \in Refreshers : Sound(refresh'[o])
  BY <1>1 DEF CatalogInv
<1>3. refresh' = [o \in Refreshers |-> refresh'[o]]
  BY DEF CatalogInv
<1>4. (catalog = [n \in Configured |-> catalog[n]])' /\ Dated'
  BY DEF CatalogInv, Dated
<1> QED
  BY <1>2, <1>3, <1>4 DEF CatalogInv, Sound

\* A refresh that moves on with the list it has.
LEMMA MoveStep ==
  ASSUME CatalogInv, NEW r \in Refreshers, refresh[r].pc \in Writing,
         NEW x \in {[refresh[r] EXCEPT !.pc = pc] : pc \in Writing}
                   \cup {[refresh[r] EXCEPT !.pc = pc, !.victims = catalog[Preset(r)].rows] : pc \in Writing}
                   \cup {[refresh[r] EXCEPT !.pc = pc, !.dated = catalog[Preset(r)].dated] : pc \in Writing}
  PROVE  Sound(x)
BY DEF CatalogInv, Sound

LEMMA ReplaceStep ==
  ASSUME CatalogInv, NEW r \in Refreshers, Replace(r)
  PROVE  /\ CatalogInv'
         /\ \A n \in Configured : catalog[n].rows # {} => catalog'[n].rows # {}
<1>1. CASE refresh' = [refresh EXCEPT ![r] = Raised(r)] /\ UNCHANGED catalog
  BY <1>1, EndsSound, RefreshStep
<1>2. CASE /\ catalog' = [catalog EXCEPT ![Preset(r)] = Replaced(@, r)]
           /\ \E last \in {Done(r), Raised(r)} : refresh' = [o \in Refreshers |->
                    IF o = r THEN last
                    ELSE IF o \in Rivals(r, {"lock"})
                         THEN [refresh[o] EXCEPT !.victims = @ \ refresh[r].victims]
                         ELSE refresh[o]]
  <2>1. refresh[r].list # {}
    BY DEF Replace, CatalogInv, Sound, Writing
  <2>2. PICK last \in {Done(r), Raised(r)} : refresh' = [o \in Refreshers |->
                    IF o = r THEN last
                    ELSE IF o \in Rivals(r, {"lock"})
                         THEN [refresh[o] EXCEPT !.victims = @ \ refresh[r].victims]
                         ELSE refresh[o]]
    BY <1>2
  <2>3. ASSUME NEW o \in Refreshers
        PROVE  Sound([refresh[o] EXCEPT !.victims = @ \ refresh[r].victims])
    BY LessSound DEF CatalogInv
  <2>4. \A o \in Refreshers : Sound(refresh'[o])
    BY <2>2, <2>3, EndsSound DEF CatalogInv
  <2>5. refresh' = [o \in Refreshers |-> refresh'[o]]
    BY <2>2
  <2>6. catalog' = [n \in Configured |-> catalog'[n]]
    BY <1>2 DEF CatalogInv
  <2>7. \A n \in Configured :
            \/ catalog'[n] = catalog[n]
            \/ catalog'[n].rows # {} /\ catalog'[n].dated
    BY <1>2, <2>1 DEF CatalogInv, Replaced
  <2>8. Dated'
    BY <2>7 DEF CatalogInv, Dated
  <2> QED
    BY <2>4, <2>5, <2>6, <2>7, <2>8 DEF CatalogInv, Sound
<1> QED
  BY <1>1, <1>2 DEF Replace

LEMMA CatalogInit == LifeInit => CatalogInv
BY RestingSound DEF LifeInit, CatalogInv, Dated

LEMMA CatalogStep ==
  ASSUME CatalogInv, [LifeNext]_lifeVars
  PROVE  /\ CatalogInv'
         /\ [\A n \in Configured : catalog[n].rows # {} => catalog'[n].rows # {}]_lifeVars
<1> USE EndsSound, RestingSound
<1>1. ASSUME UNCHANGED <<refresh, catalog>> PROVE CatalogInv'
  BY <1>1 DEF CatalogInv, Dated, Sound
<1>2. ASSUME NEW p \in Process, Commit(p) PROVE CatalogInv' /\ UNCHANGED catalog
  <2>1. CASE refresh' = [refresh EXCEPT ![<<p, "task">>] = Stage("discover", 1, {})]
    <3>1. <<p, "task">> \in Refreshers
      BY DEF Refreshers
    <3> QED
      BY <1>2, <2>1, <3>1, RefreshStep DEF Commit
  <2> QED
    BY <1>1, <1>2, <2>1 DEF Commit
<1>3. ASSUME NEW p \in Process, Stop(p) PROVE CatalogInv' /\ UNCHANGED catalog
  <2>1. refresh' = [r \in Refreshers |-> IF r[1] = p THEN Resting ELSE refresh[r]] /\ UNCHANGED catalog
    BY <1>3 DEF Stop
  <2>2. \A r \in Refreshers : Sound(refresh'[r])
    BY <2>1 DEF CatalogInv
  <2>3. refresh' = [r \in Refreshers |-> refresh'[r]]
    BY <2>1
  <2> QED
    BY <2>1, <2>2, <2>3 DEF CatalogInv, Dated, Sound
<1>4. ASSUME NEW r \in Refreshers,
             \/ \E i \in DOMAIN Profiles : AskRefresh(r, i)
             \/ Wake(r) \/ TryDiscovery(r) \/ SeeRows(r) \/ LockRows(r) \/ InsertRows(r)
             \/ ReadDate(r) \/ StoreFails(r)
      PROVE  CatalogInv' /\ UNCHANGED catalog
  <2>1. UNCHANGED catalog
    BY <1>4 DEF AskRefresh, Wake, TryDiscovery, SeeRows, LockRows, InsertRows, ReadDate, StoreFails
  <2>2. \E x : Sound(x) /\ refresh' = [refresh EXCEPT ![r] = x]
    <3>1. CASE \E i \in DOMAIN Profiles : AskRefresh(r, i)
      BY <3>1 DEF AskRefresh
    <3>2. CASE Wake(r)
      BY <3>2 DEF Wake
    <3>3. CASE TryDiscovery(r)
      <4>1. PICK answer \in Answers : refresh' = [refresh EXCEPT ![r] =
                IF Usable(Discovery(answer))
                THEN Stage("delete", refresh[r].at, Discovery(answer).models)
                ELSE Done(r)]
        BY <3>3 DEF TryDiscovery
      <4>2. ASSUME Usable(Discovery(answer))
            PROVE  Sound(Stage("delete", refresh[r].at, Discovery(answer).models))
        BY <4>2, StageSound DEF Usable
      <4> QED
        BY <4>1, <4>2
    <3>4. CASE SeeRows(r) \/ LockRows(r) \/ InsertRows(r) \/ ReadDate(r)
      <4>1. refresh[r].pc \in Writing
        BY <3>4 DEF SeeRows, LockRows, InsertRows, ReadDate, Writing
      <4>2. \/ refresh' = [refresh EXCEPT ![r] = Raised(r)]
            \/ \E pc \in Writing : refresh' = [refresh EXCEPT ![r] = [refresh[r] EXCEPT !.pc = pc]]
            \/ \E pc \in Writing : refresh' = [refresh EXCEPT ![r] =
                    [refresh[r] EXCEPT !.pc = pc, !.victims = catalog[Preset(r)].rows]]
            \/ \E pc \in Writing : refresh' = [refresh EXCEPT ![r] =
                    [refresh[r] EXCEPT !.pc = pc, !.dated = catalog[Preset(r)].dated]]
        BY <3>4 DEF SeeRows, LockRows, InsertRows, ReadDate, Goes, Writing
      <4> QED
        BY <4>1, <4>2, MoveStep
    <3>5. CASE StoreFails(r)
      BY <3>5 DEF StoreFails
    <3> QED
      BY <1>4, <3>1, <3>2, <3>3, <3>4, <3>5
  <2> QED
    BY <2>1, <2>2, RefreshStep
<1>5. ASSUME NEW r \in Refreshers, Replace(r)
      PROVE  CatalogInv' /\ \A n \in Configured : catalog[n].rows # {} => catalog'[n].rows # {}
  BY <1>5, ReplaceStep
<1>6. \/ UNCHANGED <<refresh, catalog>>
      \/ \E p \in Process : Commit(p) \/ Stop(p)
      \/ \E r \in Refreshers :
            \/ \E i \in DOMAIN Profiles : AskRefresh(r, i)
            \/ Wake(r) \/ TryDiscovery(r) \/ SeeRows(r) \/ LockRows(r) \/ InsertRows(r)
            \/ ReadDate(r) \/ StoreFails(r) \/ Replace(r)
  BY DEF LifeNext, lifeVars, Start, Sync
<1> QED
  BY <1>1, <1>2, <1>3, <1>4, <1>5, <1>6

\* No refresh, however many run at once and wherever they are cut off, leaves a
\* preset without the list it had.
THEOREM ListsKept == LifeSpec => LastGoodKept
<1>1. CatalogInv /\ [LifeNext]_lifeVars => CatalogInv'
  BY CatalogStep
<1>2. CatalogInv /\ [LifeNext]_lifeVars =>
        [\A n \in Configured : catalog[n].rows # {} => catalog'[n].rows # {}]_lifeVars
  BY CatalogStep
<1>3. CatalogInv => \A n \in Configured : catalog[n].dated <=> catalog[n].rows # {}
  BY DEF CatalogInv, Dated
<1> QED
  BY CatalogInit, <1>1, <1>2, <1>3, PTL DEF LifeSpec, LastGoodKept

-----------------------------------------------------------------------------
(* Calls: the inductive invariant *)

\* What a body that is accepted is resolved to.
ResolvedEndpoints == {Resolve(o) : o \in {x \in Overrides : Accepts(x) /\ Resolve(x) # Null}}

Bases(l) == {Definitions[p].base : p \in {x \in Presets : Library(Definitions[x].protocol) = l}}

Entry(l) == [base : Bases(l), client : ClientIds]

TaskSet == [pc : {"idle", "resolved", "port", "discovered"}, endpoint : ResolvedEndpoints \cup {Null},
            client : ClientIds \cup {0}]

InPort(t) == task[t].pc = "port"

CallTypes ==
    /\ task \in [Task -> TaskSet]
    /\ request = [t \in Task |-> request[t]]
    /\ clients = [c \in ClientIds |-> clients[c]]
    /\ DOMAIN cache = Libraries
    /\ \A l \in Libraries : cache[l] \in Seq(Entry(l))

\* The client of a task: shared ones send what the library makes, the others
\* are routed as their own endpoint needs it.
Serves(client, endpoint) ==
    /\ client.open /\ client.keeps
    /\ client.route = IF endpoint.shared THEN Null ELSE Route(endpoint.profile)

TasksFit ==
    \A t \in Task :
       /\ task[t].pc # "idle" => task[t].endpoint \in ResolvedEndpoints
       /\ InPort(t) =>
             /\ task[t].client \in ClientIds
             /\ Serves(clients[task[t].client], task[t].endpoint)
             /\ ~task[t].endpoint.shared =>
                   /\ task[t].client \notin Cached
                   /\ \A u \in Task \ {t} : InPort(u) => task[u].client # task[t].client

CachesFit ==
    \A l \in Libraries :
       /\ Len(cache[l]) <= Capacity
       /\ \A i, j \in 1 .. Len(cache[l]) : cache[l][i].base = cache[l][j].base => i = j
       /\ \A i \in 1 .. Len(cache[l]) :
             LET client == clients[cache[l][i].client]
             IN client.open /\ client.keeps /\ client.route = Null

\* The request of a task with this endpoint carries one key, and carries it home.
Home(r, profile) ==
    /\ DOMAIN r.headers = {profile.auth}
    /\ LET key == r.headers[profile.auth]
       IN IF \E p \in Presets : Definitions[p].secret = key
          THEN \E p \in Presets : /\ Definitions[p].secret = key
                                  /\ Definitions[p].base = profile.base
                                  /\ Written(Definitions[p].base.origin) = r.url.origin
          ELSE /\ \E o \in Overrides : o.key = key /\ o.base = profile.base
               /\ r.url.origin = Written(profile.base.origin)

RequestsFit ==
    \A t \in Task : request[t].url # Null =>
       task[t].pc \in {"port", "discovered"} /\ Home(request[t], task[t].endpoint.profile)

CallsInv == CallTypes /\ TasksFit /\ CachesFit /\ RequestsFit

-----------------------------------------------------------------------------
(* Requests go home *)

\* An endpoint is a preset or what a visitor sent.
LEMMA ProfileOf ==
    ASSUME NEW e \in ResolvedEndpoints
    PROVE  /\ e.shared => \E p \in Presets : e.profile = PresetProfile(p)
           /\ ~e.shared => \E o \in Overrides : IsCustom(o) /\ e.profile = CustomProfile(o)
<1>1. PICK o \in Overrides : e = Resolve(o) /\ Resolve(o) # Null
    BY DEF ResolvedEndpoints
<1>2. CASE IsCustom(o)
    <2>1. e.profile = CustomProfile(o) /\ e.shared = FALSE
        BY <1>1, <1>2 DEF Resolve
    <2> QED  BY <1>2, <2>1
<1>3. CASE ~IsCustom(o)
    <2>1. Chosen(o) \in Available
        BY <1>1, <1>3 DEF Resolve
    <2>2. e.profile = PresetProfile(Chosen(o)) /\ e.shared = TRUE
        BY <1>1, <1>3, <2>1 DEF Resolve
    <2>3. Chosen(o) \in Presets
        BY <2>1 DEF Available
    <2> QED  BY <2>2, <2>3
<1> QED  BY <1>2, <1>3

\* However an address is read, its origin stays.
LEMMA OriginStays ==
    \A base, protocol, mode :
        LET read == ResolveAddress(base, protocol, mode)
        IN /\ read.sdk.origin = base.origin
           /\ read.generation.origin = base.origin
           /\ read.discovery # Null => read.discovery.origin = base.origin
<1> SUFFICES ASSUME NEW base, NEW protocol, NEW mode
             PROVE  LET read == ResolveAddress(base, protocol, mode)
                    IN /\ read.sdk.origin = base.origin
                       /\ read.generation.origin = base.origin
                       /\ read.discovery # Null => read.discovery.origin = base.origin
    OBVIOUS
<1>1. CASE mode = "full"
    BY <1>1 DEF ResolveAddress
<1>2. CASE mode # "full"
    BY <1>2 DEF ResolveAddress
<1> QED  BY <1>1, <1>2

\* A route leads from one reading of an address to another.
LEMMA RouteStays ==
    \A profile : Route(profile) # Null => Route(profile).to.origin = profile.base.origin
    BY OriginStays DEF Route

LEMMA WireStays ==
    \A client, profile :
        client.route \in {Null, Route(profile)} =>
            OnTheWire(client, profile).url.origin = Written(profile.base.origin)
<1> SUFFICES ASSUME NEW client, NEW profile, client.route \in {Null, Route(profile)}
             PROVE  OnTheWire(client, profile).url.origin = Written(profile.base.origin)
    OBVIOUS
<1>1. PICK read, sdk :
        /\ read = ResolveAddress(profile.base, profile.protocol, profile.mode)
        /\ sdk = ResolveAddress(read.sdk, profile.protocol, "sdk_native").generation
    OBVIOUS
<1>2. read.sdk.origin = profile.base.origin
    BY <1>1, OriginStays
<1>3. sdk.origin = profile.base.origin
    BY <1>1, <1>2, OriginStays
<1>4. PICK url : url = IF client.route # Null /\ client.route.from = AsSent(sdk)
                       THEN client.route.to ELSE sdk
    OBVIOUS
<1>5. url.origin = profile.base.origin
    BY <1>3, <1>4, RouteStays
<1>6. OnTheWire(client, profile).url = AsSent(url)
    BY <1>1, <1>4 DEF OnTheWire
<1> QED  BY <1>5, <1>6 DEF AsSent

\* The marker among the headers is the marker, whatever the other one holds,
\* and the hook leaves the selected header alone.
LEMMA SelectedKept ==
    ASSUME NEW profile, profile.key \notin {Markers[1], Markers[2]}
    PROVE  LET kept == KeepSelected(Headers(profile))
           IN DOMAIN kept = {profile.auth} /\ kept[profile.auth] = profile.key
<1> DEFINE native == IF profile.protocol = "anthropic_messages" THEN "x-api-key"
                     ELSE "authorization"
           marker == IF profile.auth = Markers[1] THEN Markers[2] ELSE Markers[1]
           h == Headers(profile)
<1>1. DOMAIN h = {native, profile.auth, marker} /\ h[marker] = profile.auth
    BY DEF Headers
<1>2. h[profile.auth] = profile.key
    BY DEF Headers, Markers
<1>3. Markers[1] # Markers[2] /\ native \notin {Markers[1], Markers[2]}
    BY DEF Markers
<1>4. MarkerOf(h) = marker
    BY <1>1, <1>2, <1>3 DEF MarkerOf
<1>5. KeepSelected(h) = Without(h, {marker} \cup ({"authorization", "x-api-key"} \ {profile.auth}))
    BY <1>1, <1>4 DEF KeepSelected
<1>6. native \in {"authorization", "x-api-key"}
    OBVIOUS
<1>7. profile.auth # marker
    BY <1>3
<1>8. DOMAIN h \ ({marker} \cup ({"authorization", "x-api-key"} \ {profile.auth})) = {profile.auth}
    BY <1>1, <1>6, <1>7
<1> QED  BY <1>2, <1>5, <1>8 DEF Without

\* One header, one key, the origin of the profile's address.
LEMMA OneKeyIsHome ==
    ASSUME NEW e \in ResolvedEndpoints, NEW r,
           DOMAIN r.headers = {e.profile.auth},
           r.headers[e.profile.auth] = e.profile.key,
           r.url.origin = Written(e.profile.base.origin)
    PROVE  Home(r, e.profile)
<1>1. CASE e.shared
    <2>1. PICK p \in Presets : e.profile = PresetProfile(p)
        BY <1>1, ProfileOf
    <2>2. e.profile.key = Definitions[p].secret /\ e.profile.base = Definitions[p].base
        BY <2>1 DEF PresetProfile
    <2> QED  BY <2>2 DEF Home
<1>2. CASE ~e.shared
    <2>1. PICK o \in Overrides : e.profile = CustomProfile(o)
        BY <1>2, ProfileOf
    <2>2. e.profile.key = o.key /\ e.profile.base = o.base
        BY <2>1 DEF CustomProfile
    <2>3. \A p \in Presets : Definitions[p].secret # o.key
        BY KeysApart
    <2> QED  BY <2>2, <2>3 DEF Home
<1> QED  BY <1>1, <1>2

LEMMA KeyIsNoMarker ==
    ASSUME NEW e \in ResolvedEndpoints
    PROVE  e.profile.key \notin {Markers[1], Markers[2]}
<1>1. CASE e.shared
    <2>1. PICK p \in Presets : e.profile = PresetProfile(p)
        BY <1>1, ProfileOf
    <2>2. e.profile.key = Definitions[p].secret
        BY <2>1 DEF PresetProfile
    <2> QED  BY <2>2, KeysApart
<1>2. CASE ~e.shared
    <2>1. PICK o \in Overrides : e.profile = CustomProfile(o)
        BY <1>2, ProfileOf
    <2>2. e.profile.key = o.key
        BY <2>1 DEF CustomProfile
    <2> QED  BY <2>2, KeysApart
<1> QED  BY <1>1, <1>2

\* What a task's own client sends is at home.
LEMMA WireIsHome ==
    ASSUME NEW e \in ResolvedEndpoints, NEW client, Serves(client, e)
    PROVE  Home(OnTheWire(client, e.profile), e.profile)
<1> DEFINE r == OnTheWire(client, e.profile)
<1>1. client.keeps /\ client.route \in {Null, Route(e.profile)}
    BY DEF Serves
<1>2. r.url.origin = Written(e.profile.base.origin)
    BY <1>1, WireStays
<1>3. r.headers = KeepSelected(Headers(e.profile))
    BY <1>1 DEF OnTheWire
<1>4. PICK profile : profile = e.profile
    OBVIOUS
<1>5. DOMAIN r.headers = {profile.auth} /\ r.headers[profile.auth] = profile.key
    BY <1>3, <1>4, KeyIsNoMarker, SelectedKept
<1>6. Home(r, e.profile)
    <2> HIDE DEF r
    <2> QED  BY <1>2, <1>4, <1>5, OneKeyIsHome
<1> QED  BY <1>6

-----------------------------------------------------------------------------
(* There is always a client left *)

LEMMA ImageBound ==
    ASSUME NEW S, NEW f, IsFiniteSet(S)
    PROVE  LET image == {f[x] : x \in S}
           IN IsFiniteSet(image) /\ Cardinality(image) \in Nat
              /\ Cardinality(S) \in Nat /\ Cardinality(image) <= Cardinality(S)
<1> DEFINE image == {f[x] : x \in S}
           g == [x \in S |-> f[x]]
<1>1. g \in Surjection(S, image)
    BY DEF Surjection
<1>2. IsFiniteSet(image) /\ Cardinality(image) <= Cardinality(S)
    <2> HIDE DEF g, image
    <2> QED  BY <1>1, FS_Surjection
<1> HIDE DEF image
<1> QED  BY <1>2, FS_CardinalityType DEF image

LEMMA SomeFree ==
    ASSUME NEW A, NEW B, NEW C, IsFiniteSet(A), IsFiniteSet(B), IsFiniteSet(C), NEW n \in Nat,
           Cardinality(A) + Cardinality(B) + Cardinality(C) < n
    PROVE  \E c \in 1 .. n : c \notin A \cup B \cup C
<1>1. /\ Cardinality(A) \in Nat /\ Cardinality(B) \in Nat /\ Cardinality(C) \in Nat
      /\ IsFiniteSet(A \cup B) /\ Cardinality(A \cup B) \in Nat
      /\ Cardinality(A \cap B) \in Nat
    BY FS_CardinalityType, FS_Union, FS_Intersection
<1>2. Cardinality(A \cup B) <= Cardinality(A) + Cardinality(B)
    <2>1. Cardinality(A \cup B) = Cardinality(A) + Cardinality(B) - Cardinality(A \cap B)
        BY FS_Union, Zenon
    <2> QED  BY <1>1, <2>1
<1>3. /\ IsFiniteSet((A \cup B) \cup C) /\ Cardinality((A \cup B) \cup C) \in Nat
      /\ Cardinality((A \cup B) \cap C) \in Nat
    BY <1>1, FS_CardinalityType, FS_Union, FS_Intersection
<1>4. Cardinality((A \cup B) \cup C) <= Cardinality(A \cup B) + Cardinality(C)
    <2>1. Cardinality((A \cup B) \cup C)
            = Cardinality(A \cup B) + Cardinality(C) - Cardinality((A \cup B) \cap C)
        BY <1>1, FS_Union, Zenon
    <2> QED  BY <1>1, <1>3, <2>1
<1>5. Cardinality((A \cup B) \cup C) < n
    BY <1>1, <1>2, <1>3, <1>4
<1>6. Cardinality(1 .. n) = n
    BY FS_Interval
<1>7. ~(1 .. n \subseteq (A \cup B) \cup C)
    <2>1. SUFFICES ASSUME 1 .. n \subseteq (A \cup B) \cup C
                   PROVE  FALSE
        OBVIOUS
    <2>2. Cardinality(1 .. n) <= Cardinality((A \cup B) \cup C)
        BY <2>1, <1>3, FS_Subset
    <2> QED  BY <2>2, <1>3, <1>5, <1>6
<1> QED  BY <1>7

\* A sequence of at most n entries names at most n clients.
LEMMA EntriesBound ==
    ASSUME NEW E, NEW s \in Seq(E), NEW n \in Nat, Len(s) <= n
    PROVE  LET held == {s[i].client : i \in DOMAIN s}
           IN IsFiniteSet(held) /\ Cardinality(held) \in Nat /\ Cardinality(held) <= n
<1> DEFINE held == {s[i].client : i \in DOMAIN s}
           f == [i \in 1 .. Len(s) |-> s[i].client]
<1>1. Len(s) \in Nat /\ DOMAIN s = 1 .. Len(s)
    BY LenProperties
<1>2. IsFiniteSet(1 .. Len(s)) /\ Cardinality(1 .. Len(s)) = Len(s)
    <2>1. PICK n0 \in Nat : n0 = Len(s)
        BY <1>1
    <2>2. IsFiniteSet(1 .. n0) /\ Cardinality(1 .. n0) = IF 1 > n0 THEN 0 ELSE n0 - 1 + 1
        BY FS_Interval
    <2> QED  BY <2>1, <2>2
<1>3. held = {f[x] : x \in 1 .. Len(s)}
    BY <1>1
<1>4. IsFiniteSet(held) /\ Cardinality(held) \in Nat /\ Cardinality(held) <= Cardinality(1 .. Len(s))
    <2> HIDE DEF f, held
    <2> QED  BY <1>2, <1>3, ImageBound
<1> QED  BY <1>1, <1>2, <1>4

\* A task that does not hold a client finds one.
LEMMA FreshIsFree ==
    ASSUME CallTypes, CachesFit, NEW t \in Task, ~InPort(t)
    PROVE  Fresh \in ClientIds /\ Fresh \notin InUse /\ Fresh \notin Cached
<1> DEFINE S == {x \in Task : task[x].pc = "port"}
<1>1. /\ IsFiniteSet(Task \ {t}) /\ Cardinality(Task \ {t}) = Cardinality(Task) - 1
      /\ Cardinality(Task) \in Nat
    BY TasksFinite, FS_RemoveElement, FS_CardinalityType
<1>2. S \subseteq Task \ {t}
    BY DEF InPort
<1>3. PICK T, f : T = S /\ f = [x \in T |-> task[x].client]
    OBVIOUS
<1>4. IsFiniteSet(T) /\ Cardinality(T) <= Cardinality(Task) - 1 /\ Cardinality(T) \in Nat
    BY <1>1, <1>2, <1>3, FS_Subset, FS_CardinalityType
<1>5. InUse = {f[x] : x \in T}
    BY <1>3 DEF InUse
<1>6. PICK A : A = InUse
    OBVIOUS
<1>7. IsFiniteSet(A) /\ Cardinality(A) \in Nat /\ Cardinality(A) <= Cardinality(Task) - 1
    <2>1. IsFiniteSet(A) /\ Cardinality(A) \in Nat /\ Cardinality(A) <= Cardinality(T)
        BY <1>4, <1>5, <1>6, ImageBound
    <2> QED  BY <1>1, <1>4, <2>1
<1>8. PICK s1, s2 : s1 = cache["httpx"] /\ s2 = cache["httpx2"]
    OBVIOUS
<1>9. /\ s1 \in Seq(Entry("httpx")) /\ Len(s1) <= Capacity
      /\ s2 \in Seq(Entry("httpx2")) /\ Len(s2) <= Capacity
    BY <1>8 DEF CallTypes, CachesFit, Libraries
<1> DEFINE held(s) == {s[i].client : i \in DOMAIN s}
<1>10. Capacity \in Nat
    BY CapacityPositive
<1>11. /\ IsFiniteSet(held(s1)) /\ Cardinality(held(s1)) \in Nat /\ Cardinality(held(s1)) <= Capacity
       /\ IsFiniteSet(held(s2)) /\ Cardinality(held(s2)) \in Nat /\ Cardinality(held(s2)) <= Capacity
    BY <1>9, <1>10, EntriesBound
<1>12. Cached = held(s1) \cup held(s2)
    BY <1>8 DEF Cached, Libraries
<1>13. PICK B, C : B = held(s1) /\ C = held(s2)
    OBVIOUS
<1>14. PICK n : n = Cardinality(Task) + 2 * Capacity
    OBVIOUS
<1>15. n \in Nat /\ Cardinality(A) + Cardinality(B) + Cardinality(C) < n
    <2>1. /\ IsFiniteSet(B) /\ Cardinality(B) \in Nat /\ Cardinality(B) <= Capacity
          /\ IsFiniteSet(C) /\ Cardinality(C) \in Nat /\ Cardinality(C) <= Capacity
        BY <1>11, <1>13
    <2> QED  BY <2>1, <1>1, <1>7, <1>10, <1>14
<1>16. \E c \in 1 .. n : c \notin A \cup B \cup C
    BY <1>7, <1>11, <1>13, <1>15, SomeFree
<1>17. \E c \in ClientIds : c \notin InUse \cup Cached
    BY <1>6, <1>12, <1>13, <1>14, <1>16 DEF ClientIds
<1> QED  BY <1>17 DEF Fresh

-----------------------------------------------------------------------------
(* The caches *)

\* The entries of s, in another order.
Permutes(n, s) ==
    \E p \in [1 .. Len(s) -> 1 .. Len(s)] :
        /\ \A j \in 1 .. Len(s) : n[j] = s[p[j]]
        /\ \A j, k \in 1 .. Len(s) : p[j] = p[k] => j = k

\* A hit permutes the entries.
LEMMA HitPermutes ==
    ASSUME NEW E, NEW s \in Seq(E), NEW i \in 1 .. Len(s)
    PROVE  LET moved == Append(RemoveAt(s, i), s[i])
           IN moved \in Seq(E) /\ Len(moved) = Len(s) /\ Permutes(moved, s)
<1>1. PICK n \in Nat : n = Len(s) /\ i \in 1 .. n
    BY LenProperties
<1>2. \A j \in 1 .. n : s[j] \in E
    BY <1>1, ElementOfSeq
<1> DEFINE a == SubSeq(s, 1, i - 1)
           b == SubSeq(s, i + 1, n)
           r == a \o b
           moved == Append(r, s[i])
           p == [j \in 1 .. n |-> IF j < i THEN j ELSE IF j < n THEN j + 1 ELSE i]
<1>3. a \in Seq(E) /\ Len(a) = i - 1 /\ \A j \in 1 .. i - 1 : a[j] = s[j]
    <2>1. i \in Int /\ i - 1 \in Int /\ 1 \in Int /\ \A j \in 1 .. i - 1 : s[j] \in E
        BY <1>1, <1>2
    <2>2. /\ a \in Seq(E)
          /\ Len(a) = IF 1 <= i - 1 THEN i - 1 - 1 + 1 ELSE 0
          /\ \A j \in 1 .. i - 1 - 1 + 1 : a[j] = s[1 + j - 1]
        BY <2>1, SubSeqProperties
    <2> HIDE DEF a
    <2> QED  BY <1>1, <2>2
<1>4. b \in Seq(E) /\ Len(b) = n - i /\ \A j \in 1 .. n - i : b[j] = s[i + j]
    <2>1. i + 1 \in Int /\ n \in Int /\ \A j \in i + 1 .. n : s[j] \in E
        BY <1>1, <1>2
    <2>2. /\ b \in Seq(E)
          /\ Len(b) = IF i + 1 <= n THEN n - (i + 1) + 1 ELSE 0
          /\ \A j \in 1 .. n - (i + 1) + 1 : b[j] = s[i + 1 + j - 1]
        BY <2>1, SubSeqProperties
    <2> HIDE DEF b
    <2> QED  BY <1>1, <2>2
<1>5. /\ r \in Seq(E) /\ Len(r) = n - 1
      /\ \A j \in 1 .. n - 1 : r[j] = IF j < i THEN s[j] ELSE s[j + 1]
    <2> HIDE DEF a, b
    <2>1. /\ r \in Seq(E) /\ Len(r) = Len(a) + Len(b)
          /\ \A j \in 1 .. Len(a) + Len(b) : r[j] = IF j <= Len(a) THEN a[j] ELSE b[j - Len(a)]
        BY <1>3, <1>4, ConcatProperties
    <2>2. Len(r) = n - 1
        BY <1>1, <1>3, <1>4, <2>1
    <2>3. \A j \in 1 .. n - 1 : r[j] = IF j <= i - 1 THEN a[j] ELSE b[j - (i - 1)]
        <3> HIDE DEF r
        <3>1. Len(a) = i - 1 /\ Len(a) + Len(b) = n - 1
            BY <1>1, <1>3, <1>4
        <3> QED  BY <2>1, <3>1
    <2>4. ASSUME NEW j \in 1 .. n - 1  PROVE r[j] = IF j < i THEN s[j] ELSE s[j + 1]
        <3> HIDE DEF r
        <3>1. CASE j < i
            <4>1. j <= i - 1 /\ j \in 1 .. i - 1
                BY <1>1, <3>1
            <4>2. r[j] = a[j] /\ a[j] = s[j]
                BY <1>3, <2>3, <4>1
            <4> QED  BY <3>1, <4>2
        <3>2. CASE ~(j < i)
            <4>1. /\ j - (i - 1) \in 1 .. n - i /\ i + (j - (i - 1)) = j + 1
                  /\ ~(j <= i - 1)
                BY <1>1, <3>2
            <4>2. r[j] = b[j - (i - 1)] /\ b[j - (i - 1)] = s[i + (j - (i - 1))]
                BY <1>4, <2>3, <4>1
            <4> QED  BY <3>2, <4>1, <4>2
        <3> QED  BY <3>1, <3>2
    <2> HIDE DEF r
    <2> QED  BY <2>1, <2>2, <2>4
<1>6. r = RemoveAt(s, i)
    BY <1>1 DEF RemoveAt
<1>7. /\ moved \in Seq(E) /\ Len(moved) = n
      /\ \A j \in 1 .. n - 1 : moved[j] = r[j]
      /\ moved[n] = s[i]
    <2> HIDE DEF r
    <2>1. s[i] \in E
        BY <1>1, <1>2
    <2>2. /\ moved \in Seq(E) /\ Len(moved) = Len(r) + 1
          /\ \A j \in 1 .. Len(r) : moved[j] = r[j]
          /\ moved[Len(r) + 1] = s[i]
        BY <1>5, <2>1, AppendProperties
    <2>3. Len(r) + 1 = n
        BY <1>1, <1>5
    <2> QED  BY <1>5, <2>2, <2>3
<1>8. p \in [1 .. n -> 1 .. n] /\ \A j, k \in 1 .. n : p[j] = p[k] => j = k
    BY <1>1
<1>9. \A j \in 1 .. n : moved[j] = s[p[j]]
    <2> HIDE DEF r, moved
    <2> QED  BY <1>1, <1>5, <1>7
<1> HIDE DEF moved, p
<1>10. moved = Append(RemoveAt(s, i), s[i])
    BY <1>6 DEF moved
<1>11. PICK m, q : m = moved /\ q = p
    OBVIOUS
<1>12. /\ m \in Seq(E) /\ Len(m) = Len(s)
       /\ q \in [1 .. Len(s) -> 1 .. Len(s)]
       /\ \A j \in 1 .. Len(s) : m[j] = s[q[j]]
       /\ \A j, k \in 1 .. Len(s) : q[j] = q[k] => j = k
    BY <1>1, <1>7, <1>8, <1>9, <1>11
<1>13. m = Append(RemoveAt(s, i), s[i])
    BY <1>10, <1>11
<1>14. Permutes(m, s)
    BY <1>12 DEF Permutes
<1> QED  BY <1>12, <1>13, <1>14

\* The entries of s, without the first or with it, and then e.
Appends(n, s, e) ==
    \E d \in {0, 1} :
        /\ Len(n) = Len(s) + 1 - d
        /\ \A j \in 1 .. Len(n) : n[j] = IF j + d <= Len(s) THEN s[j + d] ELSE e

\* A miss adds an entry at the end, and may drop the first.
LEMMA MissAppends ==
    ASSUME NEW E, NEW s \in Seq(E), NEW e \in E, NEW cap \in Nat \ {0}, Len(s) <= cap
    PROVE  LET grown == Append(s, e)
               kept == IF Len(grown) > cap THEN Tail(grown) ELSE grown
           IN kept \in Seq(E) /\ Len(kept) <= cap /\ Appends(kept, s, e)
<1> DEFINE grown == Append(s, e)
           kept == IF Len(grown) > cap THEN Tail(grown) ELSE grown
<1>1. PICK n \in Nat : n = Len(s)
    BY LenProperties
<1>2. /\ grown \in Seq(E) /\ Len(grown) = n + 1 /\ grown # <<>>
      /\ \A j \in 1 .. n : grown[j] = s[j]
      /\ grown[n + 1] = e
    BY <1>1, AppendProperties
<1>3. \A j \in 1 .. n + 1 : grown[j] = IF j <= n THEN s[j] ELSE e
    <2> HIDE DEF grown
    <2> QED  BY <1>2
<1>4. CASE n + 1 > cap
    <2> HIDE DEF grown
    <2>1. kept = Tail(grown)
        BY <1>2, <1>4
    <2>2. kept \in Seq(E) /\ Len(kept) = Len(grown) - 1 /\ \A j \in 1 .. Len(kept) : kept[j] = grown[j + 1]
        BY <1>2, <2>1, HeadTailProperties
    <2>3. Len(kept) = n
        BY <1>2, <2>2
    <2>4. \A j \in 1 .. n : kept[j] = IF j + 1 <= n THEN s[j + 1] ELSE e
        <3> HIDE DEF kept, grown
        <3>1. ASSUME NEW j \in 1 .. n PROVE kept[j] = IF j + 1 <= n THEN s[j + 1] ELSE e
            <4>1. kept[j] = grown[j + 1] /\ j + 1 \in 1 .. n + 1
                BY <2>2, <2>3
            <4> QED  BY <1>3, <4>1
        <3> QED  BY <3>1
    <2> HIDE DEF kept
    <2>5. kept \in Seq(E) /\ Len(kept) <= cap /\ Len(kept) = n + 1 - 1
        BY <1>1, <2>2, <2>3
    <2>6. \A j \in 1 .. Len(kept) : kept[j] = IF j + 1 <= Len(s) THEN s[j + 1] ELSE e
        BY <1>1, <2>3, <2>4
    <2>7. Appends(kept, s, e)
        BY <1>1, <2>5, <2>6 DEF Appends
    <2> QED  BY <2>5, <2>7 DEF kept, grown
<1>5. CASE ~(n + 1 > cap)
    <2> HIDE DEF grown
    <2>1. kept = grown
        BY <1>2, <1>5
    <2> HIDE DEF kept
    <2>2. kept \in Seq(E) /\ Len(kept) <= cap /\ Len(kept) = n + 1 - 0
        BY <1>2, <1>5, <2>1
    <2>3. \A j \in 1 .. Len(kept) : kept[j] = IF j + 0 <= Len(s) THEN s[j + 0] ELSE e
        BY <1>1, <1>2, <1>3, <2>1
    <2>4. Appends(kept, s, e)
        BY <1>1, <2>2, <2>3 DEF Appends
    <2> QED  BY <2>2, <2>4 DEF kept, grown
<1> QED  BY <1>1, <1>4, <1>5

-----------------------------------------------------------------------------
(* A step of one task *)

LEMMA RequestsKeep ==
    ASSUME RequestsFit, NEW t \in Task,
           \A u \in Task \ {t} : task'[u] = task[u] /\ request'[u] = request[u],
           request'[t].url # Null =>
               /\ task'[t].pc \in {"port", "discovered"}
               /\ Home(request'[t], task'[t].endpoint.profile)
    PROVE  RequestsFit'
    BY DEF RequestsFit

LEMMA TasksKeep ==
    ASSUME TasksFit, NEW t \in Task,
           \A u \in Task \ {t} : task'[u] = task[u],
           \A u \in Task \ {t} : InPort(u) =>
               /\ clients'[task[u].client] = clients[task[u].client]
               /\ task[u].client \in Cached' => task[u].client \in Cached,
           task'[t].pc # "idle" => task'[t].endpoint \in ResolvedEndpoints,
           task'[t].pc = "port" =>
               /\ task'[t].client \in ClientIds
               /\ Serves(clients'[task'[t].client], task'[t].endpoint)
               /\ ~task'[t].endpoint.shared =>
                     /\ task'[t].client \notin Cached'
                     /\ \A u \in Task \ {t} : InPort(u) => task[u].client # task'[t].client
               /\ \A u \in Task \ {t} : InPort(u) /\ ~task[u].endpoint.shared =>
                     task[u].client # task'[t].client
    PROVE  TasksFit'
<1> SUFFICES ASSUME NEW u \in Task
             PROVE  /\ task'[u].pc # "idle" => task'[u].endpoint \in ResolvedEndpoints
                    /\ task'[u].pc = "port" =>
                         /\ task'[u].client \in ClientIds
                         /\ Serves(clients'[task'[u].client], task'[u].endpoint)
                         /\ ~task'[u].endpoint.shared =>
                              /\ task'[u].client \notin Cached'
                              /\ \A v \in Task \ {u} : task'[v].pc = "port" =>
                                    task'[v].client # task'[u].client
    BY DEF TasksFit, InPort
<1>1. CASE u = t
    BY <1>1 DEF InPort
<1>2. CASE u # t
    <2>1. task'[u] = task[u]
        BY <1>2
    <2>2. task[u].pc # "idle" => task[u].endpoint \in ResolvedEndpoints
        BY DEF TasksFit
    <2>3. ASSUME task[u].pc = "port"
          PROVE  /\ task[u].client \in ClientIds
                 /\ Serves(clients'[task[u].client], task[u].endpoint)
                 /\ ~task[u].endpoint.shared =>
                      /\ task[u].client \notin Cached'
                      /\ \A v \in Task \ {u} : task'[v].pc = "port" =>
                            task'[v].client # task[u].client
        <3>1. /\ task[u].client \in ClientIds
              /\ Serves(clients[task[u].client], task[u].endpoint)
              /\ clients'[task[u].client] = clients[task[u].client]
            BY <1>2, <2>3 DEF TasksFit, InPort
        <3>2. ASSUME ~task[u].endpoint.shared
              PROVE  /\ task[u].client \notin Cached'
                     /\ \A v \in Task \ {u} : task'[v].pc = "port" => task'[v].client # task[u].client
            <4>1. task[u].client \notin Cached'
                BY <1>2, <2>3, <3>2 DEF TasksFit, InPort
            <4>2. ASSUME NEW v \in Task \ {u}, task'[v].pc = "port"
                  PROVE  task'[v].client # task[u].client
                <5>1. CASE v = t
                    BY <1>2, <2>3, <3>2, <4>2, <5>1 DEF InPort
                <5>2. CASE v # t
                    BY <1>2, <2>3, <3>2, <4>2, <5>2 DEF TasksFit, InPort
                <5> QED  BY <5>1, <5>2
            <4> QED  BY <4>1, <4>2
        <3> QED  BY <3>1, <3>2
    <2> QED  BY <2>1, <2>2, <2>3
<1> QED  BY <1>1, <1>2

LEMMA Held ==
    ASSUME CallTypes, TasksFit, NEW t \in Task, InPort(t)
    PROVE  task[t].client \in InUse
    BY DEF InUse, InPort

LEMMA HeldNext ==
    ASSUME NEW t \in Task, task'[t].pc = "port"
    PROVE  task'[t].client \in InUse'
    BY DEF InUse

LEMMA InCache ==
    ASSUME CallTypes, NEW l \in Libraries
    PROVE  /\ DOMAIN cache[l] = 1 .. Len(cache[l]) /\ Len(cache[l]) \in Nat
           /\ \A i \in 1 .. Len(cache[l]) :
                /\ cache[l][i].client \in Cached /\ cache[l][i].client \in ClientIds
                /\ cache[l][i].base \in Bases(l)
<1>1. PICK s : s = cache[l]
    OBVIOUS
<1>2. s \in Seq(Entry(l))
    BY <1>1 DEF CallTypes
<1>3. DOMAIN s = 1 .. Len(s) /\ Len(s) \in Nat /\ \A i \in 1 .. Len(s) : s[i] \in Entry(l)
    BY <1>2, LenProperties, ElementOfSeq
<1>4. ASSUME NEW i \in 1 .. Len(s)
      PROVE  s[i].client \in Cached /\ s[i].client \in ClientIds /\ s[i].base \in Bases(l)
    <2>1. s[i] \in Entry(l)
        BY <1>3
    <2>2. s[i].client \in ClientIds /\ s[i].base \in Bases(l)
        BY <2>1 DEF Entry
    <2>3. s[i].client \in Cached
        BY <1>1, <1>3 DEF Cached
    <2> QED  BY <2>2, <2>3
<1> QED  BY <1>1, <1>3, <1>4

\* What the caches hold afterwards, if they are the old ones or one of them
\* has changed.
LEMMA CachedNext ==
    ASSUME NEW c, c \in Cached', DOMAIN cache' = Libraries,
           NEW l \in Libraries, \A k \in Libraries \ {l} : cache'[k] = cache[k]
    PROVE  c \in Cached \/ \E j \in DOMAIN cache'[l] : c = cache'[l][j].client
    BY DEF Cached

LEMMA AcceptStep ==
    ASSUME CallsInv, NEW t \in Task, Accept(t)
    PROVE  CallsInv'
<1> USE DEF CallsInv
<1>1. PICK o \in Overrides :
        /\ Accepts(o) /\ Resolve(o) # Null
        /\ task' = [task EXCEPT ![t].pc = "resolved", ![t].endpoint = Resolve(o)]
    BY DEF Accept
<1>2. Resolve(o) \in ResolvedEndpoints
    BY <1>1 DEF ResolvedEndpoints
<1>3. task \in [Task -> TaskSet]
    BY DEF CallTypes
<1>4. PICK e : e = Resolve(o)
    OBVIOUS
<1>5. /\ task' \in [Task -> TaskSet]
      /\ \A u \in Task \ {t} : task'[u] = task[u]
      /\ task'[t].pc = "resolved" /\ task'[t].endpoint = e
    BY <1>1, <1>2, <1>3, <1>4 DEF TaskSet
<1>6. /\ request' = [u \in Task |-> request'[u]] /\ request'[t].url = Null
      /\ \A u \in Task \ {t} : request'[u] = request[u]
    BY DEF Accept, CallTypes, NoRequest
<1>7. UNCHANGED <<clients, cache>>
    BY DEF Accept
<1>8. CallTypes'
    BY <1>5, <1>6, <1>7 DEF CallTypes
<1>9. Cached' = Cached
    BY <1>7 DEF Cached
<1>10. TasksFit'
    BY <1>2, <1>4, <1>5, <1>7, <1>9, TasksKeep
<1>11. CachesFit'
    BY <1>7 DEF CachesFit
<1>12. RequestsFit'
    BY <1>5, <1>6, RequestsKeep
<1> QED  BY <1>8, <1>10, <1>11, <1>12

LEMMA CallKeeps ==
    ASSUME CallsInv, NEW t \in Task, Call(t)
    PROVE  CallsInv'
<1> USE DEF CallsInv
<1>1. PICK e, client : e = task[t].endpoint /\ client = clients[task[t].client]
    OBVIOUS
<1>2. UNCHANGED <<task, clients, cache>> /\ InPort(t)
    BY DEF Call, InPort
<1>3. e \in ResolvedEndpoints /\ Serves(client, e)
    BY <1>1, <1>2 DEF TasksFit, InPort
<1>4. /\ request' = [u \in Task |-> request'[u]]
      /\ request'[t] = OnTheWire(client, e.profile)
      /\ \A u \in Task \ {t} : request'[u] = request[u]
    BY <1>1 DEF Call, CallTypes
<1>5. CallTypes'
    BY <1>2, <1>4 DEF CallTypes
<1>6. TasksFit' /\ CachesFit'
    BY <1>2 DEF TasksFit, CachesFit, InPort, Cached
<1>7. Home(request'[t], e.profile)
    BY <1>3, <1>4, WireIsHome
<1>8. RequestsFit'
    BY <1>1, <1>2, <1>4, <1>7, RequestsKeep DEF InPort
<1> QED  BY <1>5, <1>6, <1>8

LEMMA DiscoverStep ==
    ASSUME CallsInv, NEW t \in Task, Discover(t)
    PROVE  CallsInv'
<1> USE DEF CallsInv
<1>1. PICK e, read : /\ e = task[t].endpoint
                     /\ read = ResolveAddress(e.profile.base, e.profile.protocol, e.profile.mode)
    OBVIOUS
<1>2. /\ UNCHANGED <<clients, cache>> /\ task[t].pc = "resolved"
      /\ task' = [task EXCEPT ![t].pc = "discovered"]
    BY DEF Discover
<1>3. e \in ResolvedEndpoints
    BY <1>1, <1>2 DEF TasksFit
<1>4. read.discovery # Null
    BY <1>1 DEF Discover
<1>5. request' = [request EXCEPT ![t] = [url |-> AsSent(read.discovery),
                                        headers |-> [h \in {e.profile.auth} |-> e.profile.key]]]
    BY <1>1 DEF Discover
<1>6. /\ request' = [u \in Task |-> request'[u]]
      /\ request'[t] = [url |-> AsSent(read.discovery),
                        headers |-> [h \in {e.profile.auth} |-> e.profile.key]]
      /\ \A u \in Task \ {t} : request'[u] = request[u]
    BY <1>5 DEF CallTypes
<1>7. AsSent(read.discovery).origin = Written(e.profile.base.origin)
    BY <1>1, <1>4, OriginStays DEF AsSent
<1>8. Home(request'[t], e.profile)
    BY <1>3, <1>6, <1>7, OneKeyIsHome
<1>9. task \in [Task -> TaskSet]
    BY DEF CallTypes
<1>10. /\ task' \in [Task -> TaskSet]
       /\ \A u \in Task \ {t} : task'[u] = task[u]
       /\ task'[t].pc = "discovered" /\ task'[t].endpoint = e
    BY <1>1, <1>2, <1>9 DEF TaskSet
<1>11. CallTypes'
    BY <1>2, <1>6, <1>10 DEF CallTypes
<1>12. Cached' = Cached
    BY <1>2 DEF Cached
<1>13. TasksFit'
    BY <1>2, <1>3, <1>10, <1>12, TasksKeep
<1>14. CachesFit'
    BY <1>2 DEF CachesFit
<1>15. RequestsFit'
    BY <1>6, <1>8, <1>10, RequestsKeep
<1> QED  BY <1>11, <1>13, <1>14, <1>15

\* A task that becomes idle has no request.
LEMMA BecomesIdle ==
    ASSUME CallTypes, RequestsFit, NEW t \in Task,
           task' = [task EXCEPT ![t] = Idle], request' = [request EXCEPT ![t] = NoRequest]
    PROVE  /\ task' \in [Task -> TaskSet]
           /\ request' = [u \in Task |-> request'[u]]
           /\ \A u \in Task \ {t} : task'[u] = task[u]
           /\ task'[t].pc = "idle"
           /\ RequestsFit'
<1>1. task \in [Task -> TaskSet]
    BY DEF CallTypes
<1>2. Idle \in TaskSet
    BY DEF Idle, TaskSet
<1>3. /\ task' \in [Task -> TaskSet]
      /\ \A u \in Task \ {t} : task'[u] = task[u]
      /\ task'[t].pc = "idle"
    BY <1>1, <1>2 DEF Idle
<1>4. /\ request' = [u \in Task |-> request'[u]] /\ request'[t].url = Null
      /\ \A u \in Task \ {t} : request'[u] = request[u]
    BY DEF CallTypes, NoRequest
<1>5. RequestsFit'
    BY <1>3, <1>4, RequestsKeep
<1> QED  BY <1>3, <1>4, <1>5

LEMMA DiscoveredStep ==
    ASSUME CallsInv, NEW t \in Task, Discovered(t)
    PROVE  CallsInv'
<1> USE DEF CallsInv
<1>1. /\ UNCHANGED <<clients, cache>>
      /\ task' = [task EXCEPT ![t] = Idle] /\ request' = [request EXCEPT ![t] = NoRequest]
    BY DEF Discovered
<1>2. /\ task' \in [Task -> TaskSet]
      /\ request' = [u \in Task |-> request'[u]]
      /\ \A u \in Task \ {t} : task'[u] = task[u]
      /\ task'[t].pc = "idle"
      /\ RequestsFit'
    BY <1>1, BecomesIdle
<1>3. CallTypes'
    BY <1>1, <1>2 DEF CallTypes
<1>4. Cached' = Cached
    BY <1>1 DEF Cached
<1>5. TasksFit'
    BY <1>1, <1>2, <1>4, TasksKeep
<1>6. CachesFit'
    BY <1>1 DEF CachesFit
<1> QED  BY <1>2, <1>3, <1>5, <1>6

\* Letting go of a client closes it only if nobody else can have it.
LEMMA ExitStep ==
    ASSUME CallsInv, NEW t \in Task, Exit(t)
    PROVE  CallsInv'
<1> USE DEF CallsInv
<1>1. /\ UNCHANGED cache /\ InPort(t)
      /\ task' = [task EXCEPT ![t] = Idle] /\ request' = [request EXCEPT ![t] = NoRequest]
    BY DEF Exit, InPort
<1>2. /\ task' \in [Task -> TaskSet]
      /\ request' = [u \in Task |-> request'[u]]
      /\ \A u \in Task \ {t} : task'[u] = task[u]
      /\ task'[t].pc = "idle"
      /\ RequestsFit'
    BY <1>1, BecomesIdle
<1>3. PICK all : /\ all = IF task[t].endpoint.shared THEN clients
                          ELSE [clients EXCEPT ![task[t].client].open = FALSE]
                 /\ clients' = Referred(all)
    BY DEF Exit
<1>4. clients' = [c \in ClientIds |-> clients'[c]]
    BY <1>3 DEF Referred
<1>5. CallTypes'
    BY <1>1, <1>2, <1>4 DEF CallTypes
<1>6. Cached' = Cached
    BY <1>1 DEF Cached
<1>7. ASSUME NEW c \in ClientIds, c \in InUse' \/ c \in Cached',
             task[t].endpoint.shared \/ c # task[t].client
      PROVE  clients'[c] = clients[c]
    <2>1. clients'[c] = all[c]
        BY <1>3, <1>7 DEF Referred
    <2>2. clients = [d \in ClientIds |-> clients[d]]
        BY DEF CallTypes
    <2>3. all[c] = clients[c]
        BY <1>3, <1>7, <2>2
    <2> QED  BY <2>1, <2>3
<1>8. ASSUME NEW u \in Task \ {t}, InPort(u)
      PROVE  clients'[task[u].client] = clients[task[u].client]
    <2>1. task'[u].pc = "port" /\ task'[u] = task[u]
        BY <1>2, <1>8 DEF InPort
    <2>2. task[u].client \in InUse'
        BY <2>1, HeldNext
    <2>3. task[u].client \in ClientIds
        BY <1>8 DEF TasksFit
    <2>4. task[t].endpoint.shared \/ task[u].client # task[t].client
        BY <1>1, <1>8 DEF TasksFit
    <2> QED  BY <1>7, <2>2, <2>3, <2>4
<1>9. TasksFit'
    BY <1>2, <1>6, <1>8, TasksKeep
<1>10. CachesFit'
    <2>1. SUFFICES ASSUME NEW l \in Libraries, NEW i \in 1 .. Len(cache[l])
                   PROVE  clients'[cache[l][i].client] = clients[cache[l][i].client]
        BY <1>1 DEF CachesFit
    <2>2. cache[l][i].client \in Cached /\ cache[l][i].client \in ClientIds
        BY InCache
    <2>3. task[t].endpoint.shared \/ cache[l][i].client # task[t].client
        BY <1>1, <2>2 DEF TasksFit
    <2> QED  BY <1>6, <1>7, <2>2, <2>3
<1> QED  BY <1>2, <1>5, <1>9, <1>10

\* A task that enters holds a client, and has not sent anything.
LEMMA Enters ==
    ASSUME CallTypes, TasksFit, RequestsFit, NEW t \in Task, NEW c \in ClientIds,
           task[t].pc = "resolved", UNCHANGED request, Holds(t, c)
    PROVE  /\ task' \in [Task -> TaskSet]
           /\ \A u \in Task \ {t} : task'[u] = task[u]
           /\ task'[t].pc = "port" /\ task'[t].client = c
           /\ task'[t].endpoint = task[t].endpoint
           /\ task[t].endpoint \in ResolvedEndpoints
           /\ RequestsFit'
<1>1. task \in [Task -> TaskSet] /\ task' = [task EXCEPT ![t].pc = "port", ![t].client = c]
    BY DEF CallTypes, Holds
<1>2. /\ task' \in [Task -> TaskSet]
      /\ \A u \in Task \ {t} : task'[u] = task[u]
      /\ task'[t].pc = "port" /\ task'[t].client = c /\ task'[t].endpoint = task[t].endpoint
    BY <1>1 DEF TaskSet
<1>3. task[t].endpoint \in ResolvedEndpoints
    BY DEF TasksFit
<1>4. request'[t].url = Null
    BY DEF RequestsFit
<1>5. RequestsFit'
    BY <1>2, <1>4, RequestsKeep
<1> QED  BY <1>2, <1>3, <1>5

LEMMA OwnStep ==
    ASSUME CallsInv, NEW t \in Task, task[t].pc = "resolved", UNCHANGED request,
           ~task[t].endpoint.shared, Own(t)
    PROVE  CallsInv'
<1> USE DEF CallsInv
<1>1. PICK c, e : c = Fresh /\ e = task[t].endpoint
    OBVIOUS
<1>2. c \in ClientIds /\ c \notin InUse /\ c \notin Cached
    BY <1>1, FreshIsFree DEF InPort
<1>3. /\ Holds(t, c) /\ UNCHANGED cache
      /\ clients' = [clients EXCEPT ![c] = Client(Route(e.profile))]
    BY <1>1 DEF Own
<1>4. /\ task' \in [Task -> TaskSet]
      /\ \A u \in Task \ {t} : task'[u] = task[u]
      /\ task'[t].pc = "port" /\ task'[t].client = c
      /\ task'[t].endpoint = e /\ e \in ResolvedEndpoints
      /\ RequestsFit'
    BY <1>1, <1>2, <1>3, Enters
<1>5. /\ clients' = [d \in ClientIds |-> clients'[d]]
      /\ clients'[c] = Client(Route(e.profile))
      /\ \A d \in ClientIds \ {c} : clients'[d] = clients[d]
    BY <1>2, <1>3 DEF CallTypes
<1>6. CallTypes'
    BY <1>3, <1>4, <1>5 DEF CallTypes
<1>7. Cached' = Cached
    BY <1>3 DEF Cached
<1>8. Serves(clients'[c], e)
    BY <1>1, <1>5 DEF Serves, Client
<1>9. ASSUME NEW u \in Task \ {t}, InPort(u)
      PROVE  task[u].client # c /\ clients'[task[u].client] = clients[task[u].client]
    <2>1. task[u].client \in InUse
        BY <1>9, Held
    <2>2. task[u].client \in ClientIds
        BY <1>9 DEF TasksFit
    <2> QED  BY <1>2, <1>5, <2>1, <2>2
<1>10. TasksFit'
    BY <1>2, <1>4, <1>7, <1>8, <1>9, TasksKeep
<1>11. CachesFit'
    <2>1. SUFFICES ASSUME NEW l \in Libraries, NEW i \in 1 .. Len(cache[l])
                   PROVE  clients'[cache[l][i].client] = clients[cache[l][i].client]
        BY <1>3 DEF CachesFit
    <2>2. cache[l][i].client \in Cached /\ cache[l][i].client \in ClientIds
        BY InCache
    <2> QED  BY <1>2, <1>5, <2>2
<1> QED  BY <1>4, <1>6, <1>10, <1>11

\* The library and the address of a task's preset.
LEMMA PresetBase ==
    ASSUME NEW e \in ResolvedEndpoints, e.shared
    PROVE  /\ Library(e.profile.protocol) \in Libraries
           /\ e.profile.base \in Bases(Library(e.profile.protocol))
<1>1. PICK p \in Presets : e.profile = PresetProfile(p)
    BY ProfileOf
<1>2. e.profile.protocol = Definitions[p].protocol /\ e.profile.base = Definitions[p].base
    BY <1>1 DEF PresetProfile
<1> QED  BY <1>2 DEF Library, Libraries, Bases

LEMMA SharedHitStep ==
    ASSUME CallsInv, NEW t \in Task, task[t].pc = "resolved", UNCHANGED request,
           task[t].endpoint.shared, SharedHit(t)
    PROVE  CallsInv'
<1> USE DEF CallsInv
<1>1. PICK e, l : e = task[t].endpoint /\ l = Library(e.profile.protocol)
    OBVIOUS
<1>2. e \in ResolvedEndpoints /\ e.shared /\ l \in Libraries
    BY <1>1, PresetBase DEF TasksFit
<1>3. PICK i \in IndexOf(l, e.profile.base) :
        /\ Holds(t, cache[l][i].client)
        /\ cache' = [cache EXCEPT ![l] = Append(RemoveAt(@, i), cache[l][i])]
        /\ UNCHANGED clients
    BY <1>1 DEF SharedHit
<1>4. i \in 1 .. Len(cache[l])
    BY <1>2, <1>3, InCache DEF IndexOf
<1>5. PICK s, n, c : s = cache[l] /\ n = cache'[l] /\ c = s[i].client
    OBVIOUS
<1>6. s \in Seq(Entry(l)) /\ i \in 1 .. Len(s)
    BY <1>2, <1>4, <1>5 DEF CallTypes
<1>7. n = Append(RemoveAt(s, i), s[i]) /\ DOMAIN cache' = Libraries
      /\ \A k \in Libraries \ {l} : cache'[k] = cache[k]
    BY <1>2, <1>3, <1>5 DEF CallTypes
<1>8. n \in Seq(Entry(l)) /\ Len(n) = Len(s)
    BY <1>6, <1>7, HitPermutes
<1>9. PICK p \in [1 .. Len(s) -> 1 .. Len(s)] :
        /\ \A j \in 1 .. Len(s) : n[j] = s[p[j]]
        /\ \A j, k \in 1 .. Len(s) : p[j] = p[k] => j = k
    <2>1. Permutes(n, s)
        BY <1>6, <1>7, HitPermutes
    <2> QED  BY <2>1 DEF Permutes
<1>10. c \in Cached /\ c \in ClientIds
    BY <1>2, <1>4, <1>5, InCache
<1>11. /\ task' \in [Task -> TaskSet]
       /\ \A u \in Task \ {t} : task'[u] = task[u]
       /\ task'[t].pc = "port" /\ task'[t].client = c
       /\ task'[t].endpoint = e
       /\ RequestsFit'
    BY <1>1, <1>3, <1>5, <1>10, Enters
<1>12. CallTypes'
    BY <1>3, <1>5, <1>7, <1>8, <1>11 DEF CallTypes
<1>13. ASSUME NEW d, d \in Cached'  PROVE d \in Cached
    <2>1. CASE \E j \in DOMAIN cache'[l] : d = cache'[l][j].client
        <3>1. PICK j \in 1 .. Len(s) : d = n[j].client
            BY <1>5, <1>8, <2>1, LenProperties
        <3>2. p[j] \in 1 .. Len(s) /\ d = s[p[j]].client
            BY <1>9, <3>1
        <3> QED  BY <1>2, <1>5, <3>2, InCache
    <2> QED  BY <1>2, <1>7, <1>13, <2>1, CachedNext
<1>14. Serves(clients'[c], e)
    <2>1. /\ clients[c].open /\ clients[c].keeps /\ clients[c].route = Null
        BY <1>2, <1>4, <1>5 DEF CachesFit
    <2> QED  BY <1>2, <1>3, <2>1 DEF Serves
<1>15. \A u \in Task \ {t} : InPort(u) /\ ~task[u].endpoint.shared => task[u].client # c
    BY <1>10 DEF TasksFit
<1>16. TasksFit'
    BY <1>2, <1>3, <1>10, <1>11, <1>13, <1>14, <1>15, TasksKeep
<1>17. CachesFit'
    <2>1. SUFFICES ASSUME NEW k \in Libraries
                   PROVE  /\ Len(cache'[k]) <= Capacity
                          /\ \A j, m \in 1 .. Len(cache'[k]) :
                                cache'[k][j].base = cache'[k][m].base => j = m
                          /\ \A j \in 1 .. Len(cache'[k]) :
                                LET client == clients[cache'[k][j].client]
                                IN client.open /\ client.keeps /\ client.route = Null
        BY <1>3 DEF CachesFit
    <2>2. CASE k # l
        BY <1>7, <2>2 DEF CachesFit
    <2>3. CASE k = l
        <3>1. /\ Len(s) <= Capacity
              /\ \A j, m \in 1 .. Len(s) : s[j].base = s[m].base => j = m
              /\ \A j \in 1 .. Len(s) :
                    LET client == clients[s[j].client]
                    IN client.open /\ client.keeps /\ client.route = Null
            BY <1>2, <1>5 DEF CachesFit
        <3>2. \A j \in 1 .. Len(s) : p[j] \in 1 .. Len(s)
            BY <1>9
        <3>3. \A j, m \in 1 .. Len(n) : n[j].base = n[m].base => j = m
            BY <1>8, <1>9, <3>1, <3>2
        <3>4. \A j \in 1 .. Len(n) :
                 LET client == clients[n[j].client]
                 IN client.open /\ client.keeps /\ client.route = Null
            BY <1>8, <1>9, <3>1, <3>2
        <3> QED  BY <1>5, <1>8, <2>3, <3>1, <3>3, <3>4
    <2> QED  BY <2>2, <2>3
<1> QED  BY <1>11, <1>12, <1>16, <1>17

LEMMA SharedMissStep ==
    ASSUME CallsInv, NEW t \in Task, task[t].pc = "resolved", UNCHANGED request,
           task[t].endpoint.shared, SharedMiss(t)
    PROVE  CallsInv'
<1> USE DEF CallsInv
<1>1. PICK e, l, c, s : /\ e = task[t].endpoint /\ l = Library(e.profile.protocol)
                        /\ c = Fresh /\ s = cache[l]
    OBVIOUS
<1>2. /\ e \in ResolvedEndpoints /\ e.shared /\ l \in Libraries
      /\ e.profile.base \in Bases(l)
    BY <1>1, PresetBase DEF TasksFit
<1>3. c \in ClientIds /\ c \notin InUse /\ c \notin Cached
    BY <1>1, FreshIsFree DEF InPort
<1>4. PICK x, n, all :
        /\ x = [base |-> e.profile.base, client |-> c]
        /\ n = (LET grown == Append(s, x)
                IN IF Len(grown) > Capacity THEN Tail(grown) ELSE grown)
        /\ all = [clients EXCEPT ![c] = Client(Null)]
    OBVIOUS
<1>5. /\ IndexOf(l, e.profile.base) = {}
      /\ Holds(t, c)
      /\ cache' = [cache EXCEPT ![l] = n]
      /\ clients' = Referred(all)
    BY <1>1, <1>4 DEF SharedMiss, Evicted
<1>6. s \in Seq(Entry(l)) /\ Len(s) <= Capacity /\ x \in Entry(l)
    BY <1>1, <1>2, <1>3, <1>4 DEF CallTypes, CachesFit, Entry
<1>7. n \in Seq(Entry(l)) /\ Len(n) <= Capacity /\ Appends(n, s, x)
    BY <1>4, <1>6, CapacityPositive, MissAppends
<1>8. /\ DOMAIN cache' = Libraries /\ cache'[l] = n
      /\ \A k \in Libraries \ {l} : cache'[k] = cache[k]
    BY <1>2, <1>5 DEF CallTypes
<1>9. \A j \in 1 .. Len(n) : n[j] = x \/ \E i \in 1 .. Len(s) : n[j] = s[i]
    <2>1. PICK d \in {0, 1} :
            /\ Len(n) = Len(s) + 1 - d
            /\ \A j \in 1 .. Len(n) : n[j] = IF j + d <= Len(s) THEN s[j + d] ELSE x
        BY <1>7 DEF Appends
    <2>2. PICK m \in Nat : m = Len(s) /\ Len(n) = m + 1 - d
        BY <1>6, <2>1, LenProperties
    <2>3. \A j \in 1 .. m + 1 - d : j + d <= m => j + d \in 1 .. m
        BY <2>2
    <2> QED  BY <2>1, <2>2, <2>3
<1>10. /\ task' \in [Task -> TaskSet]
       /\ \A u \in Task \ {t} : task'[u] = task[u]
       /\ task'[t].pc = "port" /\ task'[t].client = c
       /\ task'[t].endpoint = e
       /\ RequestsFit'
    BY <1>1, <1>3, <1>5, Enters
<1>11. clients' = [d \in ClientIds |-> clients'[d]]
    BY <1>5 DEF Referred
<1>12. CallTypes'
    BY <1>1, <1>7, <1>8, <1>10, <1>11 DEF CallTypes
<1>13. ASSUME NEW d, d \in Cached'  PROVE d \in Cached \/ d = c
    <2>1. CASE \E j \in DOMAIN cache'[l] : d = cache'[l][j].client
        <3>1. PICK j \in 1 .. Len(n) : d = n[j].client
            BY <1>7, <1>8, <2>1, LenProperties
        <3>2. CASE n[j] = x
            BY <1>4, <3>1, <3>2
        <3>3. CASE \E i \in 1 .. Len(s) : n[j] = s[i]
            BY <1>1, <1>2, <3>1, <3>3, InCache
        <3> QED  BY <1>9, <3>2, <3>3
    <2> QED  BY <1>2, <1>8, <1>13, <2>1, CachedNext
<1>14. clients'[c] = Client(Null)
    <2>1. c \in InUse'
        BY <1>10, HeldNext
    <2>2. all[c] = Client(Null)
        BY <1>3, <1>4 DEF CallTypes
    <2> QED  BY <1>3, <1>5, <2>1, <2>2 DEF Referred
<1>15. ASSUME NEW d \in ClientIds, d # c, d \in InUse' \/ d \in Cached'
       PROVE  clients'[d] = clients[d]
    <2>1. clients'[d] = all[d]
        BY <1>5, <1>15 DEF Referred
    <2>2. all[d] = clients[d]
        BY <1>4, <1>15 DEF CallTypes
    <2> QED  BY <2>1, <2>2
<1>16. ASSUME NEW u \in Task \ {t}, InPort(u)
       PROVE  /\ task[u].client # c
              /\ clients'[task[u].client] = clients[task[u].client]
              /\ task[u].client \in Cached' => task[u].client \in Cached
    <2>1. task[u].client \in InUse /\ task[u].client \in ClientIds
        BY <1>16, Held DEF TasksFit
    <2>2. task[u].client # c
        BY <1>3, <2>1
    <2>3. task'[u].pc = "port" /\ task'[u] = task[u]
        BY <1>10, <1>16 DEF InPort
    <2>4. task[u].client \in InUse'
        BY <2>3, HeldNext
    <2> QED  BY <1>13, <1>15, <2>1, <2>2, <2>4
<1>17. Serves(clients'[c], e)
    BY <1>2, <1>14 DEF Serves, Client
<1>18. TasksFit'
    BY <1>2, <1>3, <1>10, <1>16, <1>17, TasksKeep
<1>19. ASSUME NEW k \in Libraries, NEW j \in 1 .. Len(cache'[k])
       PROVE  LET client == clients'[cache'[k][j].client]
              IN client.open /\ client.keeps /\ client.route = Null
    <2>1. CASE cache'[k][j].client = c
        BY <1>14, <2>1 DEF Client
    <2>2. CASE cache'[k][j].client # c
        <3>1. PICK d : d = cache'[k][j].client
            OBVIOUS
        <3>2. cache'[k] \in Seq(Entry(k))
            BY <1>12 DEF CallTypes
        <3>3. DOMAIN cache'[k] = 1 .. Len(cache'[k])
            BY <3>2, LenProperties
        <3>4. d \in Cached'
            BY <3>1, <3>3 DEF Cached
        <3>5. \E m \in Libraries : \E i \in 1 .. Len(cache[m]) : d = cache[m][i].client
            <4>1. CASE k = l
                <5>1. PICK i \in 1 .. Len(s) : n[j] = s[i]
                    <6>1. j \in 1 .. Len(n) /\ n[j].client # c
                        BY <1>8, <2>2, <4>1
                    <6>2. x.client = c
                        BY <1>4
                    <6> QED  BY <1>9, <6>1, <6>2
                <5> QED  BY <1>1, <1>2, <1>8, <3>1, <4>1, <5>1
            <4>2. CASE k # l
                BY <1>8, <3>1, <4>2
            <4> QED  BY <4>1, <4>2
        <3>6. PICK m \in Libraries : \E i \in 1 .. Len(cache[m]) : d = cache[m][i].client
            BY <3>5
        <3>7. PICK i \in 1 .. Len(cache[m]) : d = cache[m][i].client
            BY <3>6
        <3>8. d \in ClientIds /\ clients[d].open /\ clients[d].keeps /\ clients[d].route = Null
            BY <3>7, InCache DEF CachesFit
        <3>9. clients'[d] = clients[d]
            BY <1>15, <2>2, <3>1, <3>4, <3>8
        <3> QED  BY <3>1, <3>8, <3>9
    <2> QED  BY <2>1, <2>2
<1>20. ASSUME NEW k \in Libraries
       PROVE  /\ Len(cache'[k]) <= Capacity
              /\ \A j, m \in 1 .. Len(cache'[k]) : cache'[k][j].base = cache'[k][m].base => j = m
    <2>1. CASE k # l
        BY <1>8, <2>1 DEF CachesFit
    <2>2. CASE k = l
        <3>1. \A j, m \in 1 .. Len(s) : s[j].base = s[m].base => j = m
            <4>1. \A i, j \in 1 .. Len(cache[l]) : cache[l][i].base = cache[l][j].base => i = j
                BY <1>1, <1>2 DEF CachesFit
            <4> QED  BY <1>1, <1>2, <4>1
        <3>2. \A j \in 1 .. Len(s) : s[j].base # e.profile.base
            BY <1>1, <1>2, <1>5, InCache DEF IndexOf
        <3>3. PICK d \in {0, 1} :
                /\ Len(n) = Len(s) + 1 - d
                /\ \A j \in 1 .. Len(n) : n[j] = IF j + d <= Len(s) THEN s[j + d] ELSE x
            BY <1>7 DEF Appends
        <3>4. PICK z \in Nat : z = Len(s) /\ Len(n) = z + 1 - d
            BY <1>6, <3>3, LenProperties
        <3>5. ASSUME NEW j \in 1 .. z + 1 - d, NEW m \in 1 .. z + 1 - d, n[j].base = n[m].base
              PROVE  j = m
            <4>1. x.base = e.profile.base
                BY <1>4
            <4>2. j + d \in 1 .. z \/ j + d = z + 1
                BY <3>4
            <4>3. m + d \in 1 .. z \/ m + d = z + 1
                BY <3>4
            <4>4. /\ j + d \in 1 .. z => n[j] = s[j + d]
                  /\ j + d = z + 1 => n[j] = x
                BY <3>3, <3>4
            <4>5. /\ m + d \in 1 .. z => n[m] = s[m + d]
                  /\ m + d = z + 1 => n[m] = x
                BY <3>3, <3>4
            <4>6. j + d = m + d
                BY <3>1, <3>2, <3>4, <3>5, <4>1, <4>2, <4>3, <4>4, <4>5
            <4> QED  BY <4>6
        <3> QED  BY <1>7, <1>8, <2>2, <3>4, <3>5
    <2> QED  BY <2>1, <2>2
<1>21. CachesFit'
    BY <1>19, <1>20 DEF CachesFit
<1> QED  BY <1>10, <1>12, <1>18, <1>21

-----------------------------------------------------------------------------
(* Calls: the theorems *)

LEMMA CallsBegin == CallInit => CallsInv
<1> SUFFICES ASSUME CallInit  PROVE CallsInv
    OBVIOUS
<1>1. CallTypes
    <2>1. task \in [Task -> TaskSet]
        BY DEF CallInit, Idle, TaskSet
    <2>2. request = [t \in Task |-> request[t]] /\ clients = [c \in ClientIds |-> clients[c]]
        BY DEF CallInit
    <2>3. DOMAIN cache = Libraries
        BY DEF CallInit
    <2>4. ASSUME NEW l \in Libraries  PROVE cache[l] \in Seq(Entry(l))
        <3>1. cache[l] = <<>>
            BY DEF CallInit
        <3> QED  BY <3>1, EmptySeq
    <2> QED  BY <2>1, <2>2, <2>3, <2>4 DEF CallTypes
<1>2. \A t \in Task : task[t].pc = "idle" /\ request[t].url = Null
    BY DEF CallInit, Idle, NoRequest
<1>3. ASSUME NEW l \in Libraries  PROVE Len(cache[l]) = 0
    <2>1. cache[l] = <<>>
        BY DEF CallInit
    <2> QED  BY <2>1, EmptySeq
<1>4. TasksFit /\ RequestsFit
    BY <1>2 DEF TasksFit, RequestsFit, InPort
<1>5. CachesFit
    BY <1>3, CapacityPositive DEF CachesFit
<1> QED  BY <1>1, <1>4, <1>5 DEF CallsInv

LEMMA CallsGoOn == CallsInv /\ [CallStep]_callVars => CallsInv'
<1> SUFFICES ASSUME CallsInv, [CallStep]_callVars  PROVE CallsInv'
    OBVIOUS
<1>1. ASSUME NEW t \in Task, Accept(t)  PROVE CallsInv'
    BY <1>1, AcceptStep
<1>2. ASSUME NEW t \in Task, Enter(t)  PROVE CallsInv'
    <2>1. task[t].pc = "resolved" /\ UNCHANGED request
        BY <1>2 DEF Enter
    <2>2. CASE task[t].endpoint.shared
        BY <1>2, <2>1, <2>2, SharedHitStep, SharedMissStep DEF Enter
    <2>3. CASE ~task[t].endpoint.shared
        BY <1>2, <2>1, <2>3, OwnStep DEF Enter
    <2> QED  BY <2>2, <2>3
<1>3. ASSUME NEW t \in Task, Call(t)  PROVE CallsInv'
    BY <1>3, CallKeeps
<1>4. ASSUME NEW t \in Task, Exit(t)  PROVE CallsInv'
    BY <1>4, ExitStep
<1>5. ASSUME NEW t \in Task, Discover(t)  PROVE CallsInv'
    BY <1>5, DiscoverStep
<1>6. ASSUME NEW t \in Task, Discovered(t)  PROVE CallsInv'
    BY <1>6, DiscoveredStep
<1>7. CASE UNCHANGED callVars
    BY <1>7 DEF callVars, CallsInv, CallTypes, TasksFit, CachesFit, RequestsFit, InPort, Cached
<1> QED  BY <1>1, <1>2, <1>3, <1>4, <1>5, <1>6, <1>7 DEF CallStep

\* The inductive invariant: what is cached, which client each task holds and
\* what is on its way, together.
THEOREM CallsInvariant == CallSpec => []CallsInv
    BY CallsBegin, CallsGoOn, PTL DEF CallSpec

LEMMA RequestsAreHome == CallsInv => KeyStaysHome
    BY DEF CallsInv, RequestsFit, Home, KeyStaysHome

LEMMA ClientsAreHeld == CallsInv => ClientsHeld
<1> SUFFICES ASSUME CallsInv  PROVE ClientsHeld
    OBVIOUS
<1>1. ASSUME NEW t \in Task, task[t].pc = "port"
      PROVE  /\ clients[task[t].client].open
             /\ ~task[t].endpoint.shared =>
                  /\ task[t].client \notin Cached
                  /\ \A u \in Task \ {t} : task[u].pc = "port" => task[u].client # task[t].client
    BY <1>1 DEF CallsInv, TasksFit, Serves, InPort
<1>2. ASSUME NEW l \in Libraries
      PROVE  /\ Len(cache[l]) <= Capacity
             /\ \A i, j \in DOMAIN cache[l] : cache[l][i].base = cache[l][j].base => i = j
             /\ \A i \in DOMAIN cache[l] :
                  /\ clients[cache[l][i].client].open
                  /\ \E p \in Presets : /\ Definitions[p].base = cache[l][i].base
                                        /\ Library(Definitions[p].protocol) = l
    <2>1. DOMAIN cache[l] = 1 .. Len(cache[l])
          /\ \A i \in 1 .. Len(cache[l]) : cache[l][i].base \in Bases(l)
        BY InCache DEF CallsInv
    <2>2. /\ Len(cache[l]) <= Capacity
          /\ \A i, j \in 1 .. Len(cache[l]) : cache[l][i].base = cache[l][j].base => i = j
          /\ \A i \in 1 .. Len(cache[l]) : clients[cache[l][i].client].open
        BY DEF CallsInv, CachesFit
    <2> QED  BY <2>1, <2>2 DEF Bases
<1> QED  BY <1>1, <1>2 DEF ClientsHeld

\* A preset's secret is sent to that preset's address only, and a visitor's
\* key to the address it came with only, one key in one header, whatever is
\* cached or evicted meanwhile.
THEOREM KeysStayHome == CallSpec => []KeyStaysHome
    BY CallsInvariant, RequestsAreHome, PTL

\* Clients stay open while a task holds them or a cache does, a visitor's is
\* nobody else's, and no cache outgrows its capacity.
THEOREM ClientsStayHeld == CallSpec => []ClientsHeld
    BY CallsInvariant, ClientsAreHeld, PTL

-----------------------------------------------------------------------------
(* Suffixes *)

LEMMA Reversed ==
    ASSUME NEW E, NEW s \in Seq(E)
    PROVE  /\ Reverse(s) \in Seq(E) /\ Len(Reverse(s)) = Len(s)
           /\ \A i \in 1 .. Len(s) : Reverse(s)[i] = s[Len(s) - i + 1]
<1>1. PICK n \in Nat : n = Len(s) /\ s \in [1 .. n -> E]
    BY LenProperties
<1>2. \A i \in 1 .. n : n - i + 1 \in 1 .. n
    BY <1>1
<1>3. PICK r : r = [i \in 1 .. n |-> s[n - i + 1]]
    OBVIOUS
<1>4. r = Reverse(s)
    BY <1>1, <1>3 DEF Reverse
<1>5. r \in [1 .. n -> E]
    BY <1>1, <1>2, <1>3
<1>6. r \in Seq(E)
    BY <1>1, <1>5, SeqDef
<1>7. Len(r) \in Nat /\ DOMAIN r = 1 .. Len(r)
    BY <1>6, LenProperties
<1>8. DOMAIN r = 1 .. n
    BY <1>5
<1>9. Len(r) = n
    <2>1. PICK m \in Nat : m = Len(r) /\ 1 .. m = 1 .. n
        BY <1>7, <1>8
    <2>2. ~(m < n)
        <3>1. ASSUME m < n  PROVE FALSE
            <4>1. n \in 1 .. n /\ n \notin 1 .. m
                BY <3>1
            <4> QED  BY <2>1, <4>1
        <3> QED  BY <3>1
    <2>3. ~(n < m)
        <3>1. ASSUME n < m  PROVE FALSE
            <4>1. m \in 1 .. m /\ m \notin 1 .. n
                BY <3>1
            <4> QED  BY <2>1, <4>1
        <3> QED  BY <3>1
    <2> QED  BY <2>1, <2>2, <2>3
<1> QED  BY <1>1, <1>3, <1>4, <1>6, <1>9

\* A sequence that ends with another one is a prefix and that one.
LEMMA SuffixSplits ==
    ASSUME NEW E, NEW s \in Seq(E), NEW t \in Seq(E), IsSuffix(s, t)
    PROVE  /\ Len(s) <= Len(t)
           /\ SubSeq(t, 1, Len(t) - Len(s)) \in Seq(E)
           /\ t = SubSeq(t, 1, Len(t) - Len(s)) \o s
<1>1. PICK m \in Nat, n \in Nat : m = Len(s) /\ n = Len(t)
    BY LenProperties
<1>2. PICK a, b : a = Reverse(s) /\ b = Reverse(t)
    OBVIOUS
<1>3. /\ a \in Seq(E) /\ Len(a) = m /\ \A i \in 1 .. m : a[i] = s[m - i + 1]
      /\ b \in Seq(E) /\ Len(b) = n /\ \A i \in 1 .. n : b[i] = t[n - i + 1]
    BY <1>1, <1>2, Reversed
<1>4. m <= n /\ SubSeq(a, 1, m) = SubSeq(b, 1, m)
    BY <1>2, <1>3 DEF IsSuffix, IsPrefix
<1>5. \A i \in 1 .. m : a[i] = b[i]
    <2>1. 1 \in Int /\ m \in Int /\ \A i \in 1 .. m : a[i] \in E
        BY <1>3, ElementOfSeq
    <2>2. \A i \in 1 .. m - 1 + 1 : SubSeq(a, 1, m)[i] = a[1 + i - 1]
        BY <2>1, SubSeqProperties
    <2>3. \A i \in 1 .. m : i \in 1 .. n
        BY <1>4
    <2>4. \A i \in 1 .. m : b[i] \in E
        BY <1>3, <2>3, ElementOfSeq
    <2>5. \A i \in 1 .. m - 1 + 1 : SubSeq(b, 1, m)[i] = b[1 + i - 1]
        BY <2>1, <2>4, SubSeqProperties
    <2>6. ASSUME NEW i \in 1 .. m  PROVE a[i] = b[i]
        <3>1. i \in 1 .. m - 1 + 1 /\ 1 + i - 1 = i
            OBVIOUS
        <3> QED  BY <1>4, <2>2, <2>5, <3>1
    <2> QED  BY <2>6
<1>6. ASSUME NEW j \in 1 .. m  PROVE t[n - m + j] = s[j]
    <2>1. PICK i \in 1 .. m : i = m - j + 1
        OBVIOUS
    <2>2. m - i + 1 = j /\ n - i + 1 = n - m + j /\ i \in 1 .. n
        BY <1>4, <2>1
    <2> QED  BY <1>3, <1>5, <2>2
<1>7. PICK k \in Nat : k = n - m
    BY <1>4
<1>8. PICK p : p = SubSeq(t, 1, k)
    OBVIOUS
<1>9. p \in Seq(E) /\ Len(p) = k /\ \A i \in 1 .. k : p[i] = t[i]
    <2>1. 1 \in Int /\ k \in Int /\ \A i \in 1 .. k : i \in 1 .. n
        BY <1>7
    <2>2. \A i \in 1 .. k : t[i] \in E
        BY <1>1, <2>1, ElementOfSeq
    <2>3. /\ p \in Seq(E)
          /\ Len(p) = IF 1 <= k THEN k - 1 + 1 ELSE 0
          /\ \A i \in 1 .. k - 1 + 1 : p[i] = t[1 + i - 1]
        BY <1>8, <2>1, <2>2, SubSeqProperties
    <2> QED  BY <2>3
<1>10. PICK w : w = p \o s
    OBVIOUS
<1>11. /\ w \in Seq(E) /\ Len(w) = k + m
       /\ \A i \in 1 .. k + m : w[i] = IF i <= k THEN p[i] ELSE s[i - k]
    <2>1. /\ w \in Seq(E) /\ Len(w) = Len(p) + Len(s)
          /\ \A i \in 1 .. Len(p) + Len(s) : w[i] = IF i <= Len(p) THEN p[i] ELSE s[i - Len(p)]
        BY <1>9, <1>10, ConcatProperties
    <2> QED  BY <1>1, <1>9, <2>1
<1>12. Len(w) = Len(t)
    BY <1>1, <1>7, <1>11
<1>13. ASSUME NEW i \in 1 .. k + m  PROVE t[i] = w[i]
    <2>1. CASE i <= k
        <3>1. i \in 1 .. k
            BY <2>1
        <3> QED  BY <1>9, <1>11, <2>1, <3>1
    <2>2. CASE ~(i <= k)
        <3>1. i - k \in 1 .. m /\ n - m + (i - k) = i
            BY <1>7, <2>2
        <3> QED  BY <1>6, <1>11, <2>2, <3>1
    <2> QED  BY <2>1, <2>2
<1>14. t = w
    <2>1. \A i \in 1 .. Len(t) : t[i] = w[i]
        BY <1>1, <1>7, <1>13
    <2> QED  BY <1>11, <1>12, <2>1, SeqEqual
<1> QED  BY <1>1, <1>4, <1>7, <1>8, <1>9, <1>10, <1>14

\* What comes first in a concatenation is a prefix of it.
LEMMA FirstIsPrefix ==
    ASSUME NEW E, NEW s \in Seq(E), NEW t \in Seq(E)
    PROVE  s \in Prefixes(s \o t)
<1>1. PICK n, w : n \in Nat /\ w = s \o t /\ n = Len(s)
    BY LenProperties
<1>a. n \in Nat
    BY <1>1
<1> USE <1>a
<1>2. PICK k \in Nat : k = Len(w) /\ n <= k
    <2>1. Len(w) = Len(s) + Len(t) /\ Len(s) \in Nat /\ Len(t) \in Nat
        BY <1>1, ConcatProperties, LenProperties
    <2> QED  BY <1>1, <2>1
<1>3. w \in Seq(E) /\ \A i \in 1 .. n : w[i] = s[i]
    <2>1. /\ w \in Seq(E) /\ Len(t) \in Nat
          /\ \A i \in 1 .. n + Len(t) : w[i] = IF i <= n THEN s[i] ELSE t[i - n]
        BY <1>1, ConcatProperties, LenProperties
    <2> QED  BY <2>1
<1>4. PICK p : p = SubSeq(w, 1, n)
    OBVIOUS
<1>5. p \in Seq(E) /\ Len(p) = n /\ \A i \in 1 .. n : p[i] = w[i]
    <2>1. 1 \in Int /\ n \in Int /\ \A i \in 1 .. n : w[i] \in E
        BY <1>1, <1>3, ElementOfSeq
    <2>2. /\ p \in Seq(E)
          /\ Len(p) = IF 1 <= n THEN n - 1 + 1 ELSE 0
          /\ \A i \in 1 .. n - 1 + 1 : p[i] = w[1 + i - 1]
        BY <1>4, <2>1, SubSeqProperties
    <2> QED  BY <2>2
<1>6. p = s
    <2>1. Len(p) = Len(s) /\ \A i \in 1 .. Len(p) : p[i] = s[i]
        BY <1>1, <1>3, <1>5
    <2> QED  BY <1>5, <2>1, SeqEqual
<1>7. n \in 0 .. Len(w)
    BY <1>2
<1> QED  BY <1>1, <1>4, <1>6, <1>7 DEF Prefixes

-----------------------------------------------------------------------------
(* One address *)

\* The segment after a final slash.
Empty == ""

\* Those of an address and those the code adds to it.
Words == {"v1", "responses", "chat", "completions", "messages", "models", Empty}

\* What httpx leaves as it is.
Segments == {x \in STRING \cup Words : Written(x) = x}

Trim(path) == IF Slashed(path) THEN Front(path) ELSE path

LEMMA SlashedIs ==
    \A path : Slashed(path) <=> path # <<>> /\ Last(path) = Empty
    BY Zenon DEF Slashed, Empty

LEMMA StripIs ==
    \A path, operation :
        StripOperation(path, operation) =
            IF IsSuffix(operation, Trim(path))
            THEN SubSeq(Trim(path), 1, Len(Trim(path)) - Len(operation)) \o <<Empty>>
            ELSE Null
    BY Zenon DEF StripOperation, Trim, Empty

LEMMA FullReading ==
    \A base, protocol :
        LET whole == IF base.path = <<>> THEN <<Empty>> ELSE base.path
            before == StripOperation(whole, Operation(protocol))
            read == ResolveAddress(base, protocol, "full")
        IN /\ read.generation = [origin |-> base.origin, path |-> whole]
           /\ read.discovery = IF before = Null THEN Null
                               ELSE [origin |-> base.origin, path |-> Join(before, <<"models">>)]
    BY Zenon DEF ResolveAddress, Empty

LEMMA OtherReading ==
    \A base, protocol, mode : mode # "full" =>
        LET prefix == IF mode = "auto"
                      THEN IF base.path \in {<<>>, <<Empty>>} THEN <<"v1">> ELSE base.path
                      ELSE IF protocol = "anthropic_messages"
                           THEN Join(base.path, <<"v1">>) ELSE base.path
            read == ResolveAddress(base, protocol, mode)
        IN /\ read.generation = [origin |-> base.origin, path |-> Join(prefix, Operation(protocol))]
           /\ read.discovery = [origin |-> base.origin, path |-> Join(prefix, <<"models">>)]
    BY DEF ResolveAddress, Empty

LEMMA OneIsSeq ==
    ASSUME NEW E, NEW x \in E
    PROVE  <<x>> \in Seq(E)
    OBVIOUS

LEMMA TwoIsSeq ==
    ASSUME NEW E, NEW x \in E, NEW y \in E
    PROVE  <<x, y>> \in Seq(E)
    OBVIOUS

LEMMA AreSegments ==
    /\ \A x \in Words : x \in Segments
    /\ \A x \in {"v1", "responses", "messages", "models", Empty} : <<x>> \in Seq(Segments)
    /\ <<"chat", "completions">> \in Seq(Segments)
<1>1. \A x \in Words : x \in Segments
    <2>1. \A x \in Words : x \notin DOMAIN Normal
        BY WordsNormal, Zenon DEF Words, Empty
    <2> QED  BY <2>1, Zenon DEF Segments, Written
<1>2. \A x \in {"v1", "responses", "messages", "models", Empty} : <<x>> \in Seq(Segments)
    BY <1>1, OneIsSeq DEF Words
<1>3. PICK x, y : x = "chat" /\ y = "completions"
    OBVIOUS
<1>4. x \in Segments /\ y \in Segments
    BY <1>1, <1>3 DEF Words
<1>5. <<x, y>> \in Seq(Segments)
    BY <1>4, TwoIsSeq
<1> QED  BY <1>1, <1>2, <1>3, <1>5

LEMMA TrimIsSeq ==
    ASSUME NEW path \in Seq(Segments)
    PROVE  Trim(path) \in Seq(Segments)
<1>1. PICK n \in Nat : n = Len(path) /\ \A i \in 1 .. n : path[i] \in Segments
    BY LenProperties, ElementOfSeq
<1>2. \A i \in 1 .. n - 1 : path[i] \in Segments
    BY <1>1
<1>3. SubSeq(path, 1, n - 1) \in Seq(Segments)
    <2>1. 1 \in Int /\ n - 1 \in Int
        OBVIOUS
    <2> QED  BY <1>2, <2>1, SubSeqProperties
<1> QED  BY <1>1, <1>3 DEF Trim, Front

LEMMA TrimSlash ==
    ASSUME NEW path \in Seq(Segments)
    PROVE  Trim(path \o <<Empty>>) = path
<1>1. PICK n, w, e : n \in Nat /\ n = Len(path) /\ w = path \o <<Empty>> /\ e = <<Empty>>
    BY LenProperties
<1>a. n \in Nat
    BY <1>1
<1> USE <1>a
<1>2. e \in Seq(Segments) /\ Len(e) = 1 /\ e[1] = Empty
    BY <1>1, AreSegments
<1>3. /\ w \in Seq(Segments) /\ Len(w) = n + 1
      /\ \A i \in 1 .. n : w[i] = path[i]
      /\ w[n + 1] = Empty
    <2>1. /\ w \in Seq(Segments) /\ Len(w) = n + 1
          /\ \A i \in 1 .. n + 1 : w[i] = IF i <= n THEN path[i] ELSE e[i - n]
        <3>1. w = path \o e
            BY <1>1
        <3> QED  BY <1>1, <1>2, <3>1, ConcatProperties
    <2>2. n + 1 \in 1 .. n + 1 /\ ~(n + 1 <= n) /\ n + 1 - n = 1
        OBVIOUS
    <2>3. w[n + 1] = Empty
        BY <1>2, <2>1, <2>2
    <2>4. \A i \in 1 .. n : i \in 1 .. n + 1 /\ i <= n
        OBVIOUS
    <2> QED  BY <2>1, <2>3, <2>4
<1>4. Slashed(w)
    <2>1. w # <<>>
        BY <1>3
    <2> QED  BY <1>3, <2>1, SlashedIs DEF Last
<1>5. PICK p : p = SubSeq(w, 1, n)
    OBVIOUS
<1>6. p \in Seq(Segments) /\ Len(p) = n /\ \A i \in 1 .. n : p[i] = w[i]
    <2>1. 1 \in Int /\ n \in Int /\ \A i \in 1 .. n : i \in 1 .. Len(w)
        BY <1>3
    <2>2. \A i \in 1 .. n : w[i] \in Segments
        BY <1>3, <2>1, ElementOfSeq
    <2>3. /\ p \in Seq(Segments)
          /\ Len(p) = IF 1 <= n THEN n - 1 + 1 ELSE 0
          /\ \A i \in 1 .. n - 1 + 1 : p[i] = w[1 + i - 1]
        BY <1>5, <2>1, <2>2, SubSeqProperties
    <2> QED  BY <2>3
<1>7. p = path
    <2>1. Len(p) = Len(path) /\ \A i \in 1 .. Len(p) : p[i] = path[i]
        BY <1>1, <1>3, <1>6
    <2> QED  BY <1>6, <2>1, SeqEqual
<1>8. Front(w) = p
    <2>1. Len(w) - 1 = n
        BY <1>3
    <2> QED  BY <1>5, <2>1 DEF Front
<1> QED  BY <1>1, <1>4, <1>7, <1>8 DEF Trim

LEMMA OperationIsSeq ==
    ASSUME NEW protocol \in Protocols
    PROVE  Operation(protocol) \in Seq(Segments)
<1>1. CASE protocol = "openai_responses"
    <2>1. Operation(protocol) = <<"responses">>
        BY <1>1 DEF Operation
    <2> QED  BY <2>1, AreSegments
<1>2. CASE protocol = "openai_chat_completions"
    <2>1. Operation(protocol) = <<"chat", "completions">>
        BY <1>2 DEF Operation
    <2> QED  BY <2>1, AreSegments
<1>3. CASE protocol = "anthropic_messages"
    <2>1. Operation(protocol) = <<"messages">>
        BY <1>3 DEF Operation
    <2> QED  BY <2>1, AreSegments
<1> QED  BY <1>1, <1>2, <1>3 DEF Protocols

\* The prefix that calls and discovery have in common.
Neighbours(url, discovery, path, operation) ==
    \E prefix \in Prefixes(path) :
        /\ path = prefix \o operation
        /\ discovery = [url EXCEPT !.path = prefix \o <<"models">>]

LEMMA AreNeighbours ==
    ASSUME NEW o, NEW prefix \in Seq(Segments), NEW operation \in Seq(Segments), NEW p, NEW path,
           path = prefix \o operation
    PROVE  Neighbours([origin |-> o, path |-> p], [origin |-> o, path |-> prefix \o <<"models">>],
                      path, operation)
<1>1. prefix \in Prefixes(path)
    BY FirstIsPrefix
<1>2. PICK x : x = prefix \o <<"models">>
    OBVIOUS
<1>3. [origin |-> o, path |-> x] = [[origin |-> o, path |-> p] EXCEPT !.path = x]
    OBVIOUS
<1> QED  BY <1>1, <1>2, <1>3 DEF Neighbours

\* An address on the origin of this base, with segments that stay as they are.
Placed(address, base) ==
    \E p \in Seq(Segments) : address = [origin |-> base.origin, path |-> p]

LEMMA ReadingsAgree ==
    ASSUME NEW base, base.path \in Seq(Segments), NEW protocol \in Protocols, NEW mode
    PROVE  LET read == ResolveAddress(base, protocol, mode)
               url == read.generation
               path == IF Slashed(url.path) /\ mode = "full" THEN Front(url.path) ELSE url.path
           IN /\ mode = "full" => url.path \in {base.path, <<Empty>>}
              /\ Placed(url, base)
              /\ read.discovery # Null =>
                    /\ Neighbours(url, read.discovery, path, Operation(protocol))
                    /\ Placed(read.discovery, base)
<1>1. PICK operation : operation = Operation(protocol) /\ operation \in Seq(Segments)
    BY OperationIsSeq
<1>2. PICK read : read = ResolveAddress(base, protocol, mode)
    OBVIOUS
<1>3. \A path, suffix : Join(path, suffix) = Trim(path) \o suffix
    BY DEF Join, Trim
<1>4. CASE mode # "full"
    <2>1. PICK prefix : prefix = IF mode = "auto"
                                 THEN IF base.path \in {<<>>, <<Empty>>} THEN <<"v1">> ELSE base.path
                                 ELSE IF protocol = "anthropic_messages"
                                      THEN Join(base.path, <<"v1">>) ELSE base.path
        OBVIOUS
    <2>2. prefix \in Seq(Segments)
        <3>1. <<"v1">> \in Seq(Segments)
            BY AreSegments
        <3>2. PICK v, b : v = <<"v1">> /\ b = Trim(base.path)
            OBVIOUS
        <3>3. b \in Seq(Segments)
            BY <3>2, TrimIsSeq
        <3>4. Join(base.path, v) = b \o v
            BY <1>3, <3>2
        <3>5. b \o v \in Seq(Segments)
            BY <3>1, <3>2, <3>3, ConcatProperties
        <3> QED  BY <2>1, <3>1, <3>2, <3>4, <3>5
    <2>3. /\ read.generation = [origin |-> base.origin, path |-> Join(prefix, operation)]
          /\ read.discovery = [origin |-> base.origin, path |-> Join(prefix, <<"models">>)]
        BY <1>1, <1>2, <1>4, <2>1, OtherReading
    <2>4. PICK q, path : q = Trim(prefix) /\ path = q \o operation
        OBVIOUS
    <2>5. q \in Seq(Segments)
        BY <2>2, <2>4, TrimIsSeq
    <2>6. /\ read.generation = [origin |-> base.origin, path |-> path]
          /\ read.discovery = [origin |-> base.origin, path |-> q \o <<"models">>]
        BY <1>3, <2>3, <2>4
    <2>7. Neighbours(read.generation, read.discovery, path, operation)
        BY <1>1, <2>4, <2>5, <2>6, AreNeighbours
    <2>8. Placed(read.generation, base) /\ Placed(read.discovery, base)
        <3>1. PICK m : m = <<"models">>
            OBVIOUS
        <3>2. q \o operation \in Seq(Segments) /\ q \o m \in Seq(Segments)
            BY <1>1, <2>5, <3>1, AreSegments, ConcatProperties
        <3> QED  BY <2>4, <2>6, <3>1, <3>2 DEF Placed
    <2> QED  BY <1>1, <1>2, <1>4, <2>6, <2>7, <2>8
<1>5. CASE mode = "full"
    <2>1. PICK whole : whole = IF base.path = <<>> THEN <<Empty>> ELSE base.path
        OBVIOUS
    <2>2. whole \in Seq(Segments) /\ whole \in {base.path, <<Empty>>}
        BY <2>1, AreSegments
    <2>3. PICK before, path : before = StripOperation(whole, operation) /\ path = Trim(whole)
        OBVIOUS
    <2>4. /\ read.generation = [origin |-> base.origin, path |-> whole]
          /\ read.discovery = IF before = Null THEN Null
                              ELSE [origin |-> base.origin, path |-> Join(before, <<"models">>)]
        BY <1>1, <1>2, <1>5, <2>1, <2>3, FullReading
    <2>5. path = IF Slashed(read.generation.path) THEN Front(read.generation.path)
                 ELSE read.generation.path
        BY <2>3, <2>4 DEF Trim
    <2>6. ASSUME read.discovery # Null
          PROVE  /\ Neighbours(read.generation, read.discovery, path, operation)
                 /\ Placed(read.discovery, base)
        <3>1. path \in Seq(Segments)
            BY <2>2, <2>3, TrimIsSeq
        <3>2. PICK q : q = SubSeq(path, 1, Len(path) - Len(operation))
            OBVIOUS
        <3>3. before = IF IsSuffix(operation, path) THEN q \o <<Empty>> ELSE Null
            BY <2>3, <3>2, StripIs
        <3>4. IsSuffix(operation, path)
            BY <2>4, <2>6, <3>3
        <3>5. q \in Seq(Segments) /\ path = q \o operation
            BY <1>1, <3>1, <3>2, <3>4, SuffixSplits
        <3>6. Trim(before) = q
            BY <3>3, <3>4, <3>5, TrimSlash
        <3>7. read.discovery = [origin |-> base.origin, path |-> q \o <<"models">>]
            BY <1>3, <2>4, <2>6, <3>6
        <3>8. PICK m : m = <<"models">>
            OBVIOUS
        <3>9. q \o m \in Seq(Segments)
            BY <3>5, <3>8, AreSegments, ConcatProperties
        <3>10. Placed(read.discovery, base)
            BY <3>7, <3>8, <3>9 DEF Placed
        <3> QED  BY <1>1, <2>4, <3>5, <3>7, <3>10, AreNeighbours
    <2>7. Placed(read.generation, base)
        BY <2>2, <2>4 DEF Placed
    <2> QED  BY <1>1, <1>2, <1>5, <2>2, <2>4, <2>5, <2>6, <2>7
<1> QED  BY <1>4, <1>5

\* Null is not a record.
NullIsNoRoute == \A from, to : Null # [from |-> from, to |-> to]

Address(profile) == ResolveAddress(profile.base, profile.protocol, profile.mode)

\* A base that httpx sends as it was written.
Plain(base) == AsSent(base) = base

\* What a task has sent on its client went to the generation address.
AddressFits ==
    \A t \in Task : InPort(t) /\ request[t].url # Null /\ Plain(task[t].endpoint.profile.base) =>
        request[t].url = Address(task[t].endpoint.profile).generation

LEMMA PlacedIsPlain ==
    ASSUME NEW base, Written(base.origin) = base.origin, NEW address, Placed(address, base)
    PROVE  AsSent(address) = address
<1>1. PICK p \in Seq(Segments) : address = [origin |-> base.origin, path |-> p]
    BY DEF Placed
<1>2. \A i \in DOMAIN p : Written(p[i]) = p[i]
    <2>1. \A i \in DOMAIN p : p[i] \in Segments
        BY <1>1
    <2> QED  BY <2>1 DEF Segments
<1>3. p = [i \in DOMAIN p |-> p[i]]
    BY <1>1
<1>4. [i \in DOMAIN p |-> Written(p[i])] = p
    BY <1>2, <1>3
<1>5. address.origin = base.origin /\ address.path = p
    BY <1>1
<1> QED  BY <1>1, <1>4, <1>5 DEF AsSent

\* The segments of such a base are left as they are.
LEMMA PlainBase ==
    ASSUME NEW base, base.path \in Seq(STRING), Plain(base)
    PROVE  base.path \in Seq(Segments) /\ Written(base.origin) = base.origin
<1>1. PICK p \in Seq(STRING) : p = base.path
    OBVIOUS
<1>2. base = [origin |-> Written(base.origin), path |-> [i \in DOMAIN p |-> Written(p[i])]]
    BY <1>1 DEF Plain, AsSent
<1>3. base.origin = Written(base.origin) /\ p = [i \in DOMAIN p |-> Written(p[i])]
    BY <1>1, <1>2
<1>4. \A i \in DOMAIN p : p[i] = Written(p[i])
    BY <1>3
<1>5. \A i \in 1 .. Len(p) : p[i] \in Segments
    <2>1. \A i \in 1 .. Len(p) : i \in DOMAIN p /\ p[i] \in STRING
        BY <1>1
    <2> QED  BY <1>4, <2>1 DEF Segments
<1>6. Len(p) \in Nat /\ p = [i \in 1 .. Len(p) |-> p[i]]
    BY <1>1
<1> QED  BY <1>1, <1>3, <1>5, <1>6

\* The protocol and the path of a profile are what the file or the visitor said.
LEMMA ProfileTyped ==
    ASSUME NEW e \in ResolvedEndpoints
    PROVE  e.profile.base.path \in Seq(STRING) /\ e.profile.protocol \in Protocols
<1>2. CASE e.shared
    <2>1. PICK p \in Presets : e.profile = PresetProfile(p)
        BY <1>2, ProfileOf
    <2>2. e.profile.base = Definitions[p].base /\ e.profile.protocol = Definitions[p].protocol
        BY <2>1 DEF PresetProfile
    <2> QED  BY <2>2, EndpointsTyped
<1>3. CASE ~e.shared
    <2>1. PICK o \in Overrides : IsCustom(o) /\ e.profile = CustomProfile(o)
        BY <1>3, ProfileOf
    <2>2. /\ e.profile.base = o.base
          /\ e.profile.protocol = IF o.protocol = Null THEN "openai_responses" ELSE o.protocol
        BY <2>1 DEF CustomProfile, Or
    <2>3. o.base.path \in Seq(STRING) /\ o.protocol \in Protocols \cup {Null}
        BY <2>1, EndpointsTyped
    <2>4. e.profile.protocol \in Protocols
        BY <2>2, <2>3 DEF Protocols
    <2> QED  BY <2>2, <2>3, <2>4
<1> QED  BY <1>2, <1>3

\* What leaves the process goes to the one reading of the address: the
\* library goes there by itself or is routed there.
LEMMA WireIsResolved ==
    ASSUME NullIsNoRoute, NEW e \in ResolvedEndpoints, NEW client, Serves(client, e),
           Plain(e.profile.base)
    PROVE  OnTheWire(client, e.profile).url = Address(e.profile).generation
<1> DEFINE sdk == ResolveAddress(Address(e.profile).sdk, e.profile.protocol, "sdk_native").generation
<1>1. PICK route, own, to : /\ route = client.route /\ own = sdk
                            /\ to = Address(e.profile).generation
    OBVIOUS
<1>5. AsSent(own) = own /\ AsSent(to) = to
    <2>1. PICK base, protocol, mode :
             base = e.profile.base /\ protocol = e.profile.protocol /\ mode = e.profile.mode
        OBVIOUS
    <2>2. base.path \in Seq(Segments) /\ Written(base.origin) = base.origin /\ protocol \in Protocols
        BY <2>1, ProfileTyped, PlainBase
    <2>3. PICK read : read = ResolveAddress(base, protocol, mode) /\ to = read.generation
        BY <1>1, <2>1 DEF Address
    <2>4. Placed(read.generation, base)
        BY <2>2, <2>3, ReadingsAgree
    <2>5. PICK from : from = read.sdk
        OBVIOUS
    <2>6. from.origin = base.origin /\ from.path \in {base.path, <<>>}
        BY <2>3, <2>5 DEF ResolveAddress
    <2>7. from.path \in Seq(Segments)
        <3>1. CASE from.path = <<>>
            BY <3>1, EmptySeq
        <3>2. CASE from.path = base.path
            BY <2>2, <3>2, Zenon
        <3> QED  BY <2>6, <3>1, <3>2
    <2>8. own = ResolveAddress(from, protocol, "sdk_native").generation
        BY <1>1, <2>1, <2>3, <2>5 DEF Address
    <2>9. Placed(own, from)
        BY <2>2, <2>7, <2>8, ReadingsAgree
    <2>10. AsSent(to) = to
        BY <2>2, <2>3, <2>4, PlacedIsPlain
    <2>11. Written(from.origin) = from.origin
        BY <2>2, <2>6
    <2>12. AsSent(own) = own
        BY <2>9, <2>11, PlacedIsPlain
    <2> QED  BY <2>10, <2>12
<1>2. OnTheWire(client, e.profile).url =
          AsSent(IF route # Null /\ route.from = own THEN route.to ELSE own)
    BY <1>1, <1>5 DEF OnTheWire, Address
<1>3. CASE e.shared
    <2>1. PICK p \in Presets : e.profile = PresetProfile(p)
        BY <1>3, ProfileOf
    <2>2. e.profile.mode = "sdk_native"
        BY <2>1 DEF PresetProfile
    <2>3. Address(e.profile).sdk = e.profile.base
        BY <2>2 DEF Address, ResolveAddress
    <2>4. own = to
        BY <1>1, <2>2, <2>3 DEF Address
    <2>5. route = Null
        BY <1>1, <1>3 DEF Serves
    <2> QED  BY <1>1, <1>2, <1>5, <2>4, <2>5
<1>4. CASE ~e.shared
    <2>1. route = Route(e.profile)
        BY <1>1, <1>4 DEF Serves
    <2>2. Route(e.profile) = IF own = to THEN Null ELSE [from |-> own, to |-> to]
        BY <1>1 DEF Route, Address
    <2>3. CASE own = to
        BY <1>1, <1>2, <1>5, <2>1, <2>2, <2>3
    <2>4. CASE own # to
        <3>1. route # Null /\ route.from = own /\ route.to = to
            BY <2>1, <2>2, <2>4 DEF NullIsNoRoute
        <3> QED  BY <1>1, <1>2, <1>5, <3>1
    <2> QED  BY <2>3, <2>4
<1> QED  BY <1>3, <1>4

LEMMA AddressStays ==
    ASSUME NullIsNoRoute, CallsInv, AddressFits, [CallStep]_callVars
    PROVE  AddressFits'
<1> USE DEF AddressFits, InPort
<1>1. ASSUME NEW t \in Task,
             \A u \in Task \ {t} : task'[u] = task[u] /\ request'[u] = request[u],
             task'[t].pc # "port" \/ request'[t].url = Null
      PROVE  AddressFits'
    BY <1>1
<1>2. task \in [Task -> TaskSet] /\ request = [t \in Task |-> request[t]]
    BY DEF CallsInv, CallTypes
<1>3. ASSUME NEW t \in Task, Accept(t)  PROVE AddressFits'
    BY <1>1, <1>2, <1>3 DEF Accept, NoRequest
<1>4. ASSUME NEW t \in Task, Enter(t)  PROVE AddressFits'
    <2>1. task[t].pc = "resolved" /\ UNCHANGED request /\ \E c : Holds(t, c)
        BY <1>4 DEF Enter, SharedHit, SharedMiss, Own
    <2>2. request[t].url = Null
        BY <2>1 DEF CallsInv, RequestsFit
    <2>3. \A u \in Task \ {t} : task'[u] = task[u]
        BY <1>2, <2>1 DEF Holds
    <2> QED  BY <1>1, <2>1, <2>2, <2>3
<1>5. ASSUME NEW t \in Task, Call(t)  PROVE AddressFits'
    <2>1. PICK e, client : e = task[t].endpoint /\ client = clients[task[t].client]
        OBVIOUS
    <2>2. e \in ResolvedEndpoints /\ Serves(client, e)
        BY <1>5, <2>1 DEF Call, CallsInv, TasksFit
    <2>3. /\ UNCHANGED task /\ request'[t] = OnTheWire(client, e.profile)
          /\ \A u \in Task \ {t} : request'[u] = request[u]
        BY <1>2, <1>5, <2>1 DEF Call
    <2>4. Plain(e.profile.base) => request'[t].url = Address(e.profile).generation
        BY <2>2, <2>3, WireIsResolved
    <2> QED  BY <2>1, <2>3, <2>4
<1>6. ASSUME NEW t \in Task, Exit(t)  PROVE AddressFits'
    BY <1>1, <1>2, <1>6 DEF Exit, NoRequest
<1>7. ASSUME NEW t \in Task, Discover(t)  PROVE AddressFits'
    <2>1. /\ task' = [task EXCEPT ![t].pc = "discovered"]
          /\ \A u \in Task \ {t} : request'[u] = request[u]
        BY <1>2, <1>7 DEF Discover
    <2>2. task'[t].pc = "discovered" /\ \A u \in Task \ {t} : task'[u] = task[u]
        BY <1>2, <2>1 DEF TaskSet
    <2> QED  BY <1>1, <2>1, <2>2
<1>8. ASSUME NEW t \in Task, Discovered(t)  PROVE AddressFits'
    BY <1>1, <1>2, <1>8 DEF Discovered, NoRequest
<1>9. CASE UNCHANGED callVars
    BY <1>9 DEF callVars
<1> QED  BY <1>3, <1>4, <1>5, <1>6, <1>7, <1>8, <1>9 DEF CallStep

LEMMA AddressIsOne ==
    ASSUME CallsInv, AddressFits
    PROVE  OneAddress
<1> SUFFICES ASSUME NEW t \in Task, task[t].pc = "port", request[t].url # Null,
                    Plain(task[t].endpoint.profile.base)
             PROVE  LET profile == task[t].endpoint.profile
                        url == request[t].url
                        discovery == ResolveAddress(profile.base, profile.protocol,
                                                    profile.mode).discovery
                        path == IF Slashed(url.path) /\ profile.mode = "full"
                                THEN Front(url.path) ELSE url.path
                    IN /\ profile.mode = "full" => url.path \in {profile.base.path, <<"">>}
                       /\ discovery # Null =>
                            \E prefix \in Prefixes(path) :
                                /\ path = prefix \o Operation(profile.protocol)
                                /\ AsSent(discovery) = [url EXCEPT !.path = prefix \o <<"models">>]
    BY Zenon DEF OneAddress, Plain
<1>1. PICK e, url : e = task[t].endpoint /\ url = request[t].url
    OBVIOUS
<1>2. PICK profile : profile = e.profile
    OBVIOUS
<1>3. e \in ResolvedEndpoints
    BY <1>1 DEF CallsInv, TasksFit
<1>4. /\ profile.base.path \in Seq(Segments) /\ profile.protocol \in Protocols
      /\ Written(profile.base.origin) = profile.base.origin
    <2>1. PICK base : base = profile.base
        OBVIOUS
    <2>2. base.path \in Seq(STRING) /\ profile.protocol \in Protocols
        BY <1>2, <1>3, <2>1, ProfileTyped
    <2>3. Plain(base)
        BY <1>1, <1>2, <2>1
    <2>4. base.path \in Seq(Segments) /\ Written(base.origin) = base.origin
        BY <2>2, <2>3, PlainBase
    <2> QED  BY <2>1, <2>2, <2>4
<1>5. PICK discovery, path :
        /\ discovery = Address(profile).discovery
        /\ path = IF Slashed(url.path) /\ profile.mode = "full" THEN Front(url.path) ELSE url.path
    OBVIOUS
<1>6. url = Address(profile).generation
    BY <1>1, <1>2 DEF AddressFits, InPort
<1>7. /\ profile.mode = "full" => url.path \in {profile.base.path, <<Empty>>}
      /\ discovery # Null => /\ Neighbours(url, discovery, path, Operation(profile.protocol))
                             /\ Placed(discovery, profile.base)
    BY <1>4, <1>5, <1>6, ReadingsAgree DEF Address
<1>9. discovery # Null => AsSent(discovery) = discovery
    BY <1>4, <1>7, PlacedIsPlain
<1>10. discovery # Null =>
         \E prefix \in Prefixes(path) :
            /\ path = prefix \o Operation(profile.protocol)
            /\ AsSent(discovery) = [url EXCEPT !.path = prefix \o <<"models">>]
    BY <1>7, <1>9, Zenon DEF Neighbours
<1>11. profile = task[t].endpoint.profile /\ url = request[t].url
    BY <1>1, <1>2
<1> QED  BY <1>5, <1>7, <1>10, <1>11, Zenon DEF Address, Empty

\* Calls and discoveries of one endpoint are neighbours, in whatever mode the
\* address is read and whether or not the call is routed, for every base that httpx
\* sends as it was written, whatever it writes differently.
THEOREM AddressesAgree ==
    ASSUME NullIsNoRoute
    PROVE  CallSpec => []OneAddress
<1>1. CallInit => AddressFits
    BY DEF CallInit, AddressFits, InPort, Idle
<1>2. CallsInv /\ AddressFits /\ [CallStep]_callVars => AddressFits'
    BY AddressStays
<1>3. CallsInv /\ AddressFits => OneAddress
    BY AddressIsOne
<1> QED  BY <1>1, <1>2, <1>3, CallsInvariant, PTL DEF CallSpec

=============================================================================
