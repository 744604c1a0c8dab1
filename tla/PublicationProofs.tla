------------------------- MODULE PublicationProofs -------------------------
(***************************************************************************)
(* Theorems about Publication, for all constants that satisfy              *)
(* PublicationAssumption: its types, the manifest, the serving index and   *)
(* the implementation of GenerationRegister.                               *)
(***************************************************************************)
EXTENDS Publication, FiniteSetTheorems, TLAPS

(* What a process has read when it looks for its index is an index. *)
Loaded == \A p \in Procs : pc[p] = "lookup" => job[p].index \in Indexes

ControlOK == pc \in [Procs -> Steps] /\ job \in [Procs -> Jobs] /\ Loaded

(* Numbers are given in order. *)
Numbered == \A g \in DOMAIN parent : g < next

(* A process that has written the manifest holds the lock, and nothing it  *)
(* projected has changed.                                                  *)
ManifestHeld ==
    \A p \in Procs : pc[p] = "rename" => writer = p /\ staged = Projection

(* No two published indexes are filed under one generation. *)
ServingAlone ==
    \A x, y \in Published : rows[x].gen = rows[y].gen => x = y

IInv == TypeOK /\ Loaded /\ Numbered /\ ManifestHeld /\ ServingAlone

-----------------------------------------------------------------------------
(* Helpers. *)

(* A function into T stays one when it is put right at one place. *)
LEMMA WithType ==
    ASSUME NEW f, NEW S, NEW T, NEW k \in S, NEW v \in T,
           DOMAIN f \subseteq S, \A i \in DOMAIN f : f[i] \in T
    PROVE  /\ DOMAIN With(f, k, v) \subseteq S
           /\ \A i \in DOMAIN With(f, k, v) : With(f, k, v)[i] \in T
PROOF BY DEF With

(* And when one place is taken out. *)
LEMMA WithoutType ==
    ASSUME NEW f, NEW S, NEW T, NEW k,
           DOMAIN f \subseteq S, \A i \in DOMAIN f : f[i] \in T
    PROVE  /\ DOMAIN Without(f, k) \subseteq S
           /\ \A i \in DOMAIN Without(f, k) : Without(f, k)[i] \in T
PROOF BY DEF Without

(* The bounds name natural numbers, and there is a setting. *)
LEMMA Bounds ==
    /\ 1 \in Generations /\ Generations \subseteq Nat
    /\ MaxGeneration \in Nat /\ MaxRevision \in Nat /\ MaxFaults \in Nat
    /\ Cardinality(Members) \in Nat
    /\ (CHOOSE s \in Settings : TRUE) \in Settings
<1>1. Cardinality(Members) \in Nat
  BY PublicationAssumption, FS_CardinalityType
<1>2. QED
  BY <1>1, PublicationAssumption DEF PublicationAssumption, Generations

(* The record of an idle process is a job record. *)
LEMMA NoJobIsJob == NoJob \in Jobs
PROOF BY Bounds DEF NoJob, Jobs

(* A step of one process keeps the type of what processes know. *)
LEMMA GoControl ==
    ASSUME TypeOK, Loaded, NEW p \in Procs, NEW s \in Steps, NEW j \in Jobs,
           Go(p, s, j), s = "lookup" => j.index \in Indexes
    PROVE  ControlOK'
PROOF BY DEF TypeOK, Go, Loaded, ControlOK

(* A visible set is a set of members, and counts at most all of them. *)
LEMMA VisibleType ==
    ASSUME NEW g
    PROVE  /\ Visible(g) \subseteq Members
           /\ Cardinality(Visible(g)) \in 0 .. Cardinality(Members)
<1>1. Visible(g) \subseteq Members
  BY DEF Visible
<1>2. IsFiniteSet(Members)
  BY PublicationAssumption
<1>3. Cardinality(Visible(g)) \in Nat /\ Cardinality(Members) \in Nat
       /\ Cardinality(Visible(g)) <= Cardinality(Members)
  BY <1>1, <1>2, FS_Subset, FS_CardinalityType
<1>4. QED
  BY <1>1, <1>3

(* What the manifest projects is a manifest. *)
LEMMA ProjectionType ==
    ASSUME TypeOK PROVE Projection \in Manifests
<1>1. Compatible(current) \subseteq DOMAIN rows
  BY DEF Compatible, Published
<1>2. Compatible(current) \in SUBSET Indexes /\ current \in Generations
  BY <1>1 DEF TypeOK, TreeOK
<1>3. QED
  BY <1>2 DEF Projection, Manifests

(* An index that replaces one being built is an index too. *)
LEMMA ReplayType ==
    ASSUME TypeOK, NEW j \in Jobs, j.index \in Indexes
    PROVE  Replay(j) \in Indexes
<1> DEFINE older(x) == [j.index EXCEPT !.built = rows[x].gen]
           same == {x \in Exact(j.base) : older(x) = x}
<1>1. same \subseteq DOMAIN rows
  BY DEF Exact, Compatible, Published
<1>2. DOMAIN rows \subseteq Indexes
  BY DEF TypeOK
<1>3. CASE same = {}
  BY <1>3 DEF Replay
<1>4. CASE same # {}
  <2>1. (CHOOSE x \in same : TRUE) \in same
    BY <1>4
  <2>2. Replay(j) = CHOOSE x \in same : TRUE
    BY <1>4 DEF Replay
  <2>3. QED
    BY <2>1, <2>2, <1>1, <1>2
<1>5. QED
  BY <1>3, <1>4

(* Supersession changes states alone. *)
LEMMA ServeType ==
    ASSUME NEW table, NEW x, DOMAIN table \subseteq Indexes,
           \A y \in DOMAIN table : table[y] \in Rows
    PROVE  /\ DOMAIN Serve(table, x) = DOMAIN table
           /\ \A y \in DOMAIN table : Serve(table, x)[y] \in Rows
PROOF BY DEF Serve, Rows

(* Returning is such a step, and so is going on to the manifest. *)
LEMMA ReturnControl ==
    ASSUME TypeOK, Loaded, NEW p \in Procs, Return(p) PROVE ControlOK'
PROOF BY GoControl, NoJobIsJob DEF Return, Steps

LEMMA ManifestControl ==
    ASSUME TypeOK, Loaded, NEW p \in Procs, NEW j \in Jobs,
           NEW s \in {"idle", "load", "remove", "mark"}, ThenManifest(p, s, j)
    PROVE  ControlOK'
<1>1. [j EXCEPT !.then = s] \in Jobs
  BY DEF Jobs
<1>2. QED
  BY <1>1, GoControl DEF ThenManifest, Steps

-----------------------------------------------------------------------------
(* What processes know keeps its type. *)
LEMMA ControlStep ==
    ASSUME TypeOK, Loaded, [Next]_vars PROVE ControlOK'
<1> USE DEF Steps
<1>1. CASE UNCHANGED <<pc, job>>
  BY <1>1 DEF TypeOK, Loaded, ControlOK
<1>2. /\ current \in Generations /\ revision \in 0 .. MaxRevision
      /\ \A q \in Procs : job[q] \in Jobs
  BY DEF TypeOK, TreeOK, InputsOK
<1>3. ASSUME NEW p \in Procs, Publish(p) PROVE ControlOK'
  <2>1. CASE ReadBase(p)
    <3>1. [NoJob EXCEPT !.base = current] \in Jobs
      BY <1>2, NoJobIsJob DEF Jobs
    <3>2. QED
      BY <2>1, <3>1, GoControl DEF ReadBase
  <2>2. CASE CommitGeneration(p)
    BY <1>2, <2>2, ManifestControl DEF CommitGeneration
  <2>3. CASE RollbackGeneration(p)
    BY <1>2, <2>3, ManifestControl DEF RollbackGeneration
  <2>4. CASE RefuseBase(p)
    BY <2>4, ReturnControl DEF RefuseBase
  <2>5. QED
    BY <1>3, <2>1, <2>2, <2>3, <2>4 DEF Publish
<1>4. ASSUME NEW p \in Procs, PublishManifest(p) PROVE ControlOK'
  <2>1. CASE WriteManifest(p)
    BY <1>2, <2>1, GoControl DEF WriteManifest
  <2>2. CASE RenameManifest(p)
    <3>1. job[p].then \in {"idle", "load", "remove", "mark"}
      BY <1>2 DEF Jobs
    <3>2. QED
      BY <1>2, <2>2, <3>1, GoControl, ReturnControl DEF RenameManifest
  <2>3. QED
    BY <1>4, <2>1, <2>2 DEF PublishManifest
<1>5. ASSUME NEW p \in Procs, Build(p) PROVE ControlOK'
  <2>1. CASE StartBuild(p)
    <3>1. PICK s \in Settings :
             Go(p, "revision", [NoJob EXCEPT !.base = current, !.setting = s])
      BY <2>1 DEF StartBuild
    <3>2. [NoJob EXCEPT !.base = current, !.setting = s] \in Jobs
      BY <1>2, NoJobIsJob DEF Jobs
    <3>3. QED
      BY <3>1, <3>2, GoControl
  <2>2. CASE ReadRevision(p)
    <3>1. [job[p] EXCEPT !.rev = revision] \in Jobs
      BY <1>2 DEF Jobs
    <3>2. QED
      BY <2>2, <3>1, GoControl DEF ReadRevision
  <2>3. CASE ReuseClean(p)
    BY <1>2, <2>3, GoControl, ReturnControl, ManifestControl DEF ReuseClean
  <2>4. CASE AlignManifest(p)
    <3> DEFINE counted == [job[p] EXCEPT !.count =
                              Cardinality(Visible(job[p].base))]
    <3>1. counted \in Jobs
      BY <1>2, VisibleType DEF Jobs
    <3>2. \/ Return(p) \/ Go(p, "load", counted) \/ ThenManifest(p, "load", counted)
      BY <2>4 DEF AlignManifest
    <3>3. QED
      BY <3>1, <3>2, GoControl, ReturnControl, ManifestControl
  <2>5. CASE LoadMatrix(p)
    <3> DEFINE x == [built |-> job[p].base, members |-> Visible(job[p].base),
                     setting |-> job[p].setting]
    <3>1. x \in Indexes
      BY <1>2, VisibleType DEF Jobs, Indexes
    <3>2. [job[p] EXCEPT !.index = x] \in Jobs
          /\ [job[p] EXCEPT !.index = x].index \in Indexes
      BY <1>2, <3>1 DEF Jobs
    <3>3. Return(p) \/ Go(p, "lookup", [job[p] EXCEPT !.index = x])
      BY <2>5 DEF LoadMatrix
    <3>4. QED
      BY <3>2, <3>3, GoControl, ReturnControl
  <2>6. CASE LookupIndex(p)
    <3> DEFINE found == [job[p] EXCEPT !.index = Replay(job[p])]
    <3>1. job[p].index \in Indexes
      BY <2>6 DEF LookupIndex, Loaded
    <3>2. found \in Jobs
      BY <1>2, <3>1, ReplayType DEF Jobs
    <3>3. Go(p, "reactivate", found) \/ Go(p, "restore", found)
            \/ Go(p, "prepare", found)
      BY <2>6 DEF LookupIndex
    <3>4. QED
      BY <3>2, <3>3, GoControl
  <2>7. CASE RestoreSidecar(p)
    BY <1>2, <2>7, GoControl, ReturnControl DEF RestoreSidecar
  <2>8. CASE ReactivateSidecar(p)
    BY <1>2, <2>8, ReturnControl, ManifestControl DEF ReactivateSidecar
  <2>9. CASE PrepareSidecar(p)
    <3>1. [job[p] EXCEPT !.gen = current] \in Jobs
      BY <1>2 DEF Jobs
    <3>2. Return(p) \/ Go(p, "append", [job[p] EXCEPT !.gen = current])
      BY <2>9 DEF PrepareSidecar
    <3>3. QED
      BY <3>1, <3>2, GoControl, ReturnControl
  <2>10. CASE AppendCopy(p)
    BY <1>2, <2>10, GoControl, ReturnControl DEF AppendCopy
  <2>11. CASE CheckInstall(p)
    BY <1>2, <2>11, GoControl, ReturnControl DEF CheckInstall
  <2>12. CASE RenameCopy(p)
    BY <1>2, <2>12, GoControl, ReturnControl DEF RenameCopy
  <2>13. CASE CommitSidecar(p)
    BY <1>2, <2>13, ReturnControl, ManifestControl DEF CommitSidecar
  <2>14. CASE RemoveInput(p)
    BY <1>2, <2>14, GoControl, ReturnControl DEF RemoveInput
  <2>15. CASE MarkIndexBuilt(p)
    BY <2>15, ReturnControl DEF MarkIndexBuilt
  <2>16. QED
    BY <1>5, <2>1, <2>2, <2>3, <2>4, <2>5, <2>6, <2>7, <2>8, <2>9, <2>10,
       <2>11, <2>12, <2>13, <2>14, <2>15 DEF Build
<1>6. ASSUME NEW p \in Procs, BusyTimeout(p) \/ Crash(p) PROVE ControlOK'
  BY <1>6, ReturnControl DEF BusyTimeout, Crash
<1>7. QED
  BY <1>1, <1>3, <1>4, <1>5, <1>6
  DEF Next, vars, Procs, LinkEmbedding, InvalidateIndex, LoseSidecar

-----------------------------------------------------------------------------
(* The types. *)

(* The part of TypeOK that is not about processes. *)
RowsOK == DOMAIN rows \subseteq Indexes /\ \A x \in DOMAIN rows : rows[x] \in Rows

ManifestOK == /\ manifest \in Manifests /\ staged \in Manifests \cup {None}
              /\ writer \in Procs \cup {None}

StoreOK == TreeOK /\ InputsOK /\ RowsOK /\ FilesOK /\ ManifestOK
             /\ faults \in 0 .. MaxFaults

LEMMA TypeParts == TypeOK <=> StoreOK /\ pc \in [Procs -> Steps]
                                      /\ job \in [Procs -> Jobs]
PROOF BY DEF TypeOK, StoreOK, RowsOK, ManifestOK

(* A member that is dated anew, and the revision, keep their types. *)
LEMMA DirtiedType ==
    ASSUME InputsOK, Dirtied,
           \/ UNCHANGED <<first, last>>
           \/ \E m \in Members, g \in Generations :
                 \/ first' = [first EXCEPT ![m] = g] /\ last' = last
                 \/ last' = [last EXCEPT ![m] = g] /\ first' = first
    PROVE  InputsOK'
<1>1. revision' \in 0 .. MaxRevision
  BY Bounds DEF Dirtied, InputsOK
<1>2. QED
  BY <1>1, Bounds DEF InputsOK, Generations

(* The file steps keep the types of files. *)
LEMMA FileTypes ==
    ASSUME FilesOK
    PROVE  /\ \A k : DOMAIN Without(files, k) \subseteq Names
                     /\ \A n \in DOMAIN Without(files, k) :
                           Without(files, k)[n] \in {"whole", "broken"}
           /\ \A k : DOMAIN Without(copies, k) \subseteq Names
                     /\ \A n \in DOMAIN Without(copies, k) :
                           Without(copies, k)[n] \in {"whole", "broken"}
           /\ \A k \in Names, v \in {"whole", "broken"} :
                 /\ DOMAIN With(files, k, v) \subseteq Names
                 /\ \A n \in DOMAIN With(files, k, v) :
                       With(files, k, v)[n] \in {"whole", "broken"}
                 /\ DOMAIN With(copies, k, v) \subseteq Names
                 /\ \A n \in DOMAIN With(copies, k, v) :
                       With(copies, k, v)[n] \in {"whole", "broken"}
PROOF BY WithType, WithoutType DEF FilesOK

LEMMA StoreStep ==
    ASSUME TypeOK, Loaded, ManifestHeld, [Next]_vars PROVE StoreOK'
<1> USE DEF treeVars, inputVars, fileVars, manifestVars
<1>1. StoreOK /\ \A q \in Procs : job[q] \in Jobs
  BY TypeParts
<1>2. CASE UNCHANGED vars
  BY <1>1, <1>2 DEF vars, StoreOK, TreeOK, InputsOK, RowsOK, FilesOK, ManifestOK
<1>3. ASSUME NEW p \in Procs, Publish(p) PROVE StoreOK'
  <2>1. UNCHANGED <<rows, fileVars, manifestVars, faults>>
    BY <1>3 DEF Publish, ReadBase, CommitGeneration, RollbackGeneration, RefuseBase
  <2>2. RowsOK' /\ FilesOK' /\ ManifestOK' /\ faults' \in 0 .. MaxFaults
    BY <1>1, <2>1 DEF StoreOK, RowsOK, FilesOK, ManifestOK
  <2>3. CASE ReadBase(p) \/ RefuseBase(p)
    BY <1>1, <2>2, <2>3 DEF ReadBase, RefuseBase, StoreOK, TreeOK, InputsOK
  <2>4. CASE CommitGeneration(p)
    <3>1. TreeOK'
      <4>1. /\ next \in Generations /\ current \in Generations
            /\ parent' = With(parent, next, current)
            /\ current' = next /\ next' = next + 1
        BY <1>1, <2>4 DEF CommitGeneration, StoreOK, TreeOK
      <4>2. QED
        BY <1>1, <4>1, Bounds DEF With, StoreOK, TreeOK, Generations
    <3>2. InputsOK'
      <4>1. next \in Generations /\ Dirtied
            /\ (Keep \/ \E m \in Members : Add(m) \/ Retire(m))
        BY <2>4 DEF CommitGeneration
      <4>2. QED
        BY <1>1, <4>1, DirtiedType DEF Keep, Add, Retire, StoreOK
    <3>3. QED
      BY <2>2, <3>1, <3>2 DEF StoreOK
  <2>5. CASE RollbackGeneration(p)
    <3>1. TreeOK'
      BY <1>1, <2>5 DEF RollbackGeneration, StoreOK, TreeOK
    <3>2. InputsOK'
      BY <1>1, <2>5, DirtiedType DEF RollbackGeneration, Keep, StoreOK
    <3>3. QED
      BY <2>2, <3>1, <3>2 DEF StoreOK
  <2>6. QED
    BY <1>3, <2>3, <2>4, <2>5 DEF Publish
<1>4. ASSUME NEW p \in Procs, PublishManifest(p) PROVE StoreOK'
  <2>1. UNCHANGED <<treeVars, inputVars, rows, fileVars, faults>>
    BY <1>4 DEF PublishManifest, WriteManifest, RenameManifest
  <2>2. CASE WriteManifest(p)
    BY <1>1, <2>1, <2>2, ProjectionType
    DEF WriteManifest, StoreOK, TreeOK, InputsOK, RowsOK, FilesOK, ManifestOK
  <2>3. CASE RenameManifest(p)
    <3>1. staged = Projection
      BY <2>3 DEF ManifestHeld, RenameManifest
    <3>2. QED
      BY <1>1, <2>1, <2>3, <3>1, ProjectionType
      DEF RenameManifest, StoreOK, TreeOK, InputsOK, RowsOK, FilesOK, ManifestOK
  <2>4. QED
    BY <1>4, <2>2, <2>3 DEF PublishManifest
<1>5. ASSUME NEW p \in Procs, Build(p) PROVE StoreOK'
  <2>1. UNCHANGED <<treeVars, inputVars, manifestVars, faults>>
    BY <1>5 DEF Build, StartBuild, ReadRevision, ReuseClean, AlignManifest,
                LoadMatrix, LookupIndex, RestoreSidecar, ReactivateSidecar,
                PrepareSidecar, AppendCopy, CheckInstall, RenameCopy,
                CommitSidecar, RemoveInput, MarkIndexBuilt
  <2>2. TreeOK' /\ InputsOK' /\ ManifestOK' /\ faults' \in 0 .. MaxFaults
    BY <1>1, <2>1 DEF StoreOK, TreeOK, InputsOK, ManifestOK
  <2>3. RowsOK'
    <3>1. CASE rows' = rows
      BY <1>1, <3>1 DEF StoreOK, RowsOK
    <3>2. CASE ReactivateSidecar(p)
      <4>1. rows' = rows \/ rows' = Serve(rows, job[p].index)
        BY <3>2 DEF ReactivateSidecar
      <4>2. QED
        BY <1>1, <3>1, <4>1, ServeType DEF StoreOK, RowsOK
    <3>3. CASE CommitSidecar(p)
      <4> DEFINE x == job[p].index
                 row == [gen |-> job[p].gen, state |-> "published", marked |-> None]
      <4>1. \/ rows' = rows
            \/ NameFor(p) \in DOMAIN files /\ rows' = Serve(With(rows, x, row), x)
        BY <3>3 DEF CommitSidecar
      <4>2. CASE NameFor(p) \in DOMAIN files /\ rows' = Serve(With(rows, x, row), x)
        <5>1. x \in Indexes
          BY <1>1, <4>2 DEF NameFor, Names, StoreOK, FilesOK
        <5>2. row \in Rows
          BY <1>1 DEF Jobs, Rows
        <5>3. /\ DOMAIN With(rows, x, row) \subseteq Indexes
              /\ \A y \in DOMAIN With(rows, x, row) : With(rows, x, row)[y] \in Rows
          BY <1>1, <5>1, <5>2, WithType DEF StoreOK, RowsOK
        <5>4. QED
          BY <4>2, <5>3, ServeType DEF RowsOK
      <4>3. QED
        BY <3>1, <4>1, <4>2
    <3>4. CASE MarkIndexBuilt(p)
      <4>1. rows' = [rows EXCEPT ![job[p].index].marked = job[p].rev]
            /\ job[p].rev \in 0 .. MaxRevision
        BY <1>1, <3>4 DEF MarkIndexBuilt, Jobs
      <4>2. QED
        BY <1>1, <4>1 DEF StoreOK, RowsOK, Rows
    <3>5. QED
      BY <1>5, <3>1, <3>2, <3>3, <3>4
      DEF Build, StartBuild, ReadRevision, ReuseClean, AlignManifest,
          LoadMatrix, LookupIndex, RestoreSidecar, PrepareSidecar, AppendCopy,
          CheckInstall, RenameCopy, RemoveInput
  <2>4. FilesOK'
    <3>1. FilesOK /\ \A q \in Procs : job[q] \in Jobs
      BY <1>1 DEF StoreOK
    <3>2. CASE UNCHANGED fileVars
      BY <3>1, <3>2 DEF FilesOK
    <3>3. CASE LookupIndex(p)
      <4>1. Replay(job[p]) \in Indexes
        BY <3>1, <3>3, ReplayType DEF LookupIndex, Loaded
      <4>2. UNCHANGED <<files, copies>>
            /\ inputs' \in {inputs, inputs \cup {Replay(job[p])}}
        BY <3>1, <3>3 DEF LookupIndex, Jobs
      <4>3. QED
        BY <3>1, <4>1, <4>2 DEF FilesOK
    <3>4. CASE RestoreSidecar(p)
      <4> DEFINE x == job[p].index
      <4>1. UNCHANGED <<copies, inputs>>
            /\ \/ files' = files
               \/ x \in DOMAIN rows /\ files' = With(files, NameOf(x), "whole")
        BY <3>4 DEF RestoreSidecar
      <4>2. x \in DOMAIN rows => NameOf(x) \in Names
        BY <1>1 DEF StoreOK, RowsOK, Rows, NameOf, Names
      <4>3. QED
        BY <3>1, <4>1, <4>2, FileTypes DEF FilesOK
    <3>5. CASE PrepareSidecar(p) \/ RemoveInput(p)
      BY <3>1, <3>5 DEF PrepareSidecar, RemoveInput, DropInput, FilesOK
    <3>6. CASE AppendCopy(p)
      <4>1. job[p].index \in inputs => NameFor(p) \in Names
        BY <3>1 DEF FilesOK, NameFor, Names, Jobs
      <4>2. /\ files' = files /\ inputs' \subseteq inputs
            /\ \/ copies' = Without(copies, NameFor(p))
               \/ /\ job[p].index \in inputs
                  /\ \E v \in {"whole", "broken"} :
                        copies' = With(copies, NameFor(p), v)
        BY <3>6 DEF AppendCopy, DropInput
      <4>3. QED
        BY <3>1, <4>1, <4>2, FileTypes DEF FilesOK
    <3>7. CASE CheckInstall(p)
      <4>1. /\ files' = files /\ inputs' \subseteq inputs
            /\ copies' = copies \/ copies' = Without(copies, NameFor(p))
        BY <3>7 DEF CheckInstall, DropInput
      <4>2. QED
        BY <3>1, <4>1, FileTypes DEF FilesOK
    <3>8. CASE RenameCopy(p)
      <4>1. /\ inputs' \subseteq inputs /\ copies' = Without(copies, NameFor(p))
            /\ \/ files' = files
               \/ /\ NameFor(p) \in DOMAIN copies
                  /\ files' = With(files, NameFor(p), copies[NameFor(p)])
        BY <3>8 DEF RenameCopy, DropInput
      <4>2. NameFor(p) \in DOMAIN copies =>
               NameFor(p) \in Names /\ copies[NameFor(p)] \in {"whole", "broken"}
        BY <3>1 DEF FilesOK
      <4>3. QED
        BY <3>1, <4>1, <4>2, FileTypes DEF FilesOK
    <3>9. CASE CommitSidecar(p)
      <4>1. /\ copies' = copies /\ inputs' \subseteq inputs
            /\ files' = files \/ files' = Without(files, NameFor(p))
        BY <3>9 DEF CommitSidecar, DropInput
      <4>2. QED
        BY <3>1, <4>1, FileTypes DEF FilesOK
    <3>10. QED
      BY <1>5, <3>2, <3>3, <3>4, <3>5, <3>6, <3>7, <3>8, <3>9
      DEF Build, StartBuild, ReadRevision, ReuseClean, AlignManifest,
          LoadMatrix, ReactivateSidecar, MarkIndexBuilt
  <2>5. QED
    BY <2>2, <2>3, <2>4 DEF StoreOK
<1>6. ASSUME NEW p \in Procs, BusyTimeout(p) PROVE StoreOK'
  <2>1. /\ UNCHANGED <<treeVars, inputVars, rows, manifestVars, faults, copies>>
        /\ inputs' \subseteq inputs
        /\ files' = files \/ files' = Without(files, NameFor(p))
    BY <1>6 DEF BusyTimeout, DropInput
  <2>2. FilesOK'
    BY <1>1, <2>1, FileTypes DEF StoreOK, FilesOK
  <2>3. QED
    BY <1>1, <2>1, <2>2 DEF StoreOK, TreeOK, InputsOK, RowsOK, ManifestOK
<1>7. ASSUME NEW kind, Fault(kind) PROVE faults' \in 0 .. MaxFaults
  BY <1>1, <1>7, Bounds DEF Fault, StoreOK
<1>8. ASSUME NEW p \in Procs, Crash(p) PROVE StoreOK'
  BY <1>1, <1>7, <1>8 DEF Crash, StoreOK, TreeOK, InputsOK, RowsOK, FilesOK, ManifestOK
<1>9. ASSUME NEW name, LoseSidecar(name) PROVE StoreOK'
  <2>1. FilesOK'
    BY <1>1, <1>9, FileTypes DEF LoseSidecar, StoreOK, FilesOK
  <2>2. QED
    BY <1>1, <1>7, <1>9, <2>1
    DEF LoseSidecar, StoreOK, TreeOK, InputsOK, RowsOK, ManifestOK
<1>10. ASSUME NEW m \in Members, NEW g \in Generations, LinkEmbedding(m, g)
       PROVE  StoreOK'
  <2>1. InputsOK'
    BY <1>1, <1>10, DirtiedType DEF LinkEmbedding, StoreOK
  <2>2. QED
    BY <1>1, <1>10, <2>1
    DEF LinkEmbedding, StoreOK, TreeOK, RowsOK, FilesOK, ManifestOK
<1>11. CASE InvalidateIndex
  BY <1>1, <1>11, Bounds
  DEF InvalidateIndex, StoreOK, TreeOK, InputsOK, RowsOK, FilesOK, ManifestOK
<1>12. QED
  BY <1>2, <1>3, <1>4, <1>5, <1>6, <1>8, <1>9, <1>10, <1>11 DEF Next, Procs

-----------------------------------------------------------------------------
(* The manifest. *)

(* What a step projects depends on three variables. *)
LEMMA SameProjection ==
    ASSUME UNCHANGED <<parent, current, rows>> PROVE Projection' = Projection
PROOF BY DEF Projection, Compatible, Published, Lineage, Register!Lineage

(* A step that finds the lock free meets no process in the rename. *)
LEMMA UnlockedHeld ==
    ASSUME TypeOK, ManifestHeld, Unlocked, NEW p \in Procs, NEW s, NEW j,
           Go(p, s, j) \/ UNCHANGED <<pc, job>>, s # "rename"
    PROVE  ManifestHeld'
<1>1. None \notin Procs
  BY PublicationAssumption DEF Procs
<1>2. \A q \in Procs : pc[q] # "rename"
  BY <1>1 DEF ManifestHeld, Unlocked
<1>3. QED
  BY <1>2 DEF TypeOK, Go, ManifestHeld

(* A step that changes nothing of what a manifest shows keeps it right. *)
LEMMA QuietHeld ==
    ASSUME TypeOK, ManifestHeld, NEW p \in Procs, NEW s, NEW j, Go(p, s, j),
           s # "rename", UNCHANGED <<parent, current, rows, staged>>,
           writer' = writer \/ writer = p
    PROVE  ManifestHeld'
PROOF BY SameProjection DEF TypeOK, Go, ManifestHeld

LEMMA HeldStep ==
    ASSUME TypeOK, ManifestHeld, [Next]_vars PROVE ManifestHeld'
<1> USE DEF treeVars, inputVars, fileVars, manifestVars
<1>1. CASE UNCHANGED <<pc, job, parent, current, rows, staged, writer>>
  BY <1>1, SameProjection DEF ManifestHeld
<1>2. ASSUME NEW p \in Procs, Publish(p) PROVE ManifestHeld'
  <2>1. CASE ReadBase(p)
    BY <2>1, QuietHeld DEF ReadBase
  <2>2. CASE CommitGeneration(p)
    BY <2>2, UnlockedHeld DEF CommitGeneration, ThenManifest
  <2>3. CASE RollbackGeneration(p)
    BY <2>3, UnlockedHeld DEF RollbackGeneration, ThenManifest
  <2>4. CASE RefuseBase(p)
    BY <2>4, UnlockedHeld DEF RefuseBase, Return
  <2>5. QED
    BY <1>2, <2>1, <2>2, <2>3, <2>4 DEF Publish
<1>3. ASSUME NEW p \in Procs, WriteManifest(p) PROVE ManifestHeld'
  <2>1. \A q \in Procs : pc[q] # "rename"
    BY <1>3, PublicationAssumption DEF WriteManifest, Unlocked, ManifestHeld, Procs
  <2>2. Projection' = Projection
    BY <1>3, SameProjection DEF WriteManifest
  <2>3. QED
    BY <1>3, <2>1, <2>2 DEF WriteManifest, Go, TypeOK, ManifestHeld
<1>4. ASSUME NEW p \in Procs, RenameManifest(p) PROVE ManifestHeld'
  <2>1. pc[p] = "rename" /\ writer = p
    BY <1>4 DEF RenameManifest, ManifestHeld
  <2>2. \A q \in Procs \ {p} : pc[q] # "rename"
    BY <2>1 DEF ManifestHeld
  <2>3. job[p].then # "rename"
    BY DEF TypeOK, Jobs
  <2>4. QED
    BY <1>4, <2>2, <2>3 DEF RenameManifest, Return, Go, TypeOK, ManifestHeld
<1>5. ASSUME NEW p \in Procs, Build(p) PROVE ManifestHeld'
  <2>1. CASE UNCHANGED rows
    <3>1. /\ UNCHANGED <<parent, current, staged, writer>>
          /\ \E s \in Steps \ {"rename"} : \E j : Go(p, s, j)
      BY <1>5 DEF Steps, Build, StartBuild, ReadRevision, ReuseClean,
         AlignManifest, LoadMatrix, LookupIndex, RestoreSidecar,
         ReactivateSidecar, PrepareSidecar, AppendCopy, CheckInstall,
         RenameCopy, CommitSidecar, RemoveInput, MarkIndexBuilt, Return,
         ThenManifest
    <3>2. QED
      BY <2>1, <3>1, QuietHeld
  <2>2. CASE ReactivateSidecar(p)
    BY <2>2, UnlockedHeld DEF ReactivateSidecar, ThenManifest, Return
  <2>3. CASE CommitSidecar(p)
    BY <2>3, UnlockedHeld DEF CommitSidecar, ThenManifest, Return
  <2>4. CASE MarkIndexBuilt(p)
    BY <2>4, UnlockedHeld DEF MarkIndexBuilt, Return
  <2>5. QED
    BY <1>5, <2>1, <2>2, <2>3, <2>4
    DEF Build, StartBuild, ReadRevision, ReuseClean, AlignManifest,
        LoadMatrix, LookupIndex, RestoreSidecar, PrepareSidecar, AppendCopy,
        CheckInstall, RenameCopy, RemoveInput
<1>6. ASSUME NEW p \in Procs, BusyTimeout(p) \/ Crash(p) PROVE ManifestHeld'
  <2>1. /\ UNCHANGED <<parent, current, rows, staged>> /\ Go(p, "idle", NoJob)
        /\ writer' = writer \/ writer = p
    BY <1>6 DEF BusyTimeout, Crash, Return
  <2>2. QED
    BY <2>1, QuietHeld
<1>7. QED
  BY <1>1, <1>2, <1>3, <1>4, <1>5, <1>6
  DEF Next, vars, Procs, PublishManifest, LinkEmbedding, InvalidateIndex,
      LoseSidecar

-----------------------------------------------------------------------------
(* Numbers and the serving index. *)

(* Numbers stay in order: a new generation takes the next one. *)
LEMMA NumberedStep ==
    ASSUME TypeOK, Numbered, [Next]_vars PROVE Numbered'
<1> USE DEF treeVars, inputVars, fileVars, manifestVars
<1>1. CASE UNCHANGED <<parent, next>>
  BY <1>1 DEF Numbered
<1>2. ASSUME NEW p \in Procs, CommitGeneration(p) PROVE Numbered'
  <2>1. /\ next \in Nat /\ DOMAIN parent \subseteq Nat
        /\ parent' = With(parent, next, current) /\ next' = next + 1
    BY <1>2, Bounds DEF CommitGeneration, TypeOK, TreeOK
  <2>2. QED
    BY <2>1 DEF Numbered, With
<1>3. QED
  BY <1>1, <1>2
  DEF Next, vars, Procs, Publish, ReadBase, RollbackGeneration, RefuseBase,
      PublishManifest, WriteManifest, RenameManifest, Build, StartBuild,
      ReadRevision, ReuseClean, AlignManifest, LoadMatrix, LookupIndex,
      RestoreSidecar, ReactivateSidecar, PrepareSidecar, AppendCopy,
      CheckInstall, RenameCopy, CommitSidecar, RemoveInput, MarkIndexBuilt,
      BusyTimeout, Crash, LinkEmbedding, InvalidateIndex, LoseSidecar

(* One index per generation serves after a supersession, if at most one    *)
(* did apart from the index that takes over.                               *)
LEMMA ServeAlone ==
    ASSUME NEW table, NEW x \in DOMAIN table,
           \A y \in DOMAIN table : table[y] \in Rows,
           \A y, z \in DOMAIN table :
               /\ y # x /\ z # x
               /\ table[y].state = "published" /\ table[z].state = "published"
               /\ table[y].gen = table[z].gen
               => y = z,
           rows' = Serve(table, x)
    PROVE  ServingAlone'
<1>1. \A y \in DOMAIN table :
         /\ Serve(table, x)[y].gen = table[y].gen
         /\ y # x /\ Serve(table, x)[y].state = "published" =>
               table[y].state = "published" /\ table[y].gen # table[x].gen
  BY DEF Serve, Rows
<1>2. DOMAIN Serve(table, x) = DOMAIN table
  BY DEF Serve
<1>3. SUFFICES ASSUME NEW y \in DOMAIN table, NEW z \in DOMAIN table,
                      Serve(table, x)[y].state = "published",
                      Serve(table, x)[z].state = "published",
                      Serve(table, x)[y].gen = Serve(table, x)[z].gen
               PROVE  y = z
  BY <1>2 DEF ServingAlone, Published
<1>4. QED
  BY <1>1, <1>3

LEMMA ServingStep ==
    ASSUME TypeOK, ServingAlone, [Next]_vars PROVE ServingAlone'
<1> USE DEF treeVars, inputVars, fileVars, manifestVars
<1>1. CASE UNCHANGED rows
  BY <1>1 DEF ServingAlone, Published
<1>2. /\ \A y \in DOMAIN rows : rows[y] \in Rows
      /\ \A y, z \in DOMAIN rows :
            /\ rows[y].state = "published" /\ rows[z].state = "published"
            /\ rows[y].gen = rows[z].gen
            => y = z
  BY DEF TypeOK, ServingAlone, Published
<1>3. ASSUME NEW p \in Procs, ReactivateSidecar(p) PROVE ServingAlone'
  <2>1. \/ UNCHANGED rows
        \/ job[p].index \in DOMAIN rows /\ rows' = Serve(rows, job[p].index)
    BY <1>3 DEF ReactivateSidecar
  <2>2. QED
    BY <1>1, <1>2, <2>1, ServeAlone
<1>4. ASSUME NEW p \in Procs, CommitSidecar(p) PROVE ServingAlone'
  <2> DEFINE x == job[p].index
             row == [gen |-> job[p].gen, state |-> "published", marked |-> None]
             table == With(rows, x, row)
  <2>1. UNCHANGED rows \/ rows' = Serve(table, x)
    BY <1>4 DEF CommitSidecar
  <2>2. row \in Rows
    BY DEF TypeOK, Jobs, Rows
  <2>3. /\ x \in DOMAIN table /\ \A y \in DOMAIN table : table[y] \in Rows
        /\ \A y \in DOMAIN table : y # x => y \in DOMAIN rows /\ table[y] = rows[y]
    BY <1>2, <2>2 DEF With
  <2>4. \A y, z \in DOMAIN table :
            /\ y # x /\ z # x
            /\ table[y].state = "published" /\ table[z].state = "published"
            /\ table[y].gen = table[z].gen
            => y = z
    BY <1>2, <2>3
  <2>5. rows' = Serve(table, x) => ServingAlone'
    <3> HIDE DEF table, x
    <3>1. QED
      BY <2>3, <2>4, ServeAlone
  <2>6. QED
    BY <1>1, <2>1, <2>5
<1>5. ASSUME NEW p \in Procs, MarkIndexBuilt(p) PROVE ServingAlone'
  <2>1. rows' = [rows EXCEPT ![job[p].index].marked = job[p].rev]
    BY <1>5 DEF MarkIndexBuilt
  <2>2. DOMAIN rows' = DOMAIN rows
        /\ \A y \in DOMAIN rows : rows'[y].gen = rows[y].gen
                                   /\ rows'[y].state = rows[y].state
    BY <1>2, <2>1 DEF Rows
  <2>3. QED
    BY <1>2, <2>2 DEF ServingAlone, Published
<1>6. QED
  BY <1>1, <1>3, <1>4, <1>5
  DEF Next, vars, Procs, Publish, ReadBase, CommitGeneration,
      RollbackGeneration, RefuseBase, PublishManifest, WriteManifest,
      RenameManifest, Build, StartBuild, ReadRevision, ReuseClean,
      AlignManifest, LoadMatrix, LookupIndex, RestoreSidecar, PrepareSidecar,
      AppendCopy, CheckInstall, RenameCopy, RemoveInput, BusyTimeout, Crash,
      LinkEmbedding, InvalidateIndex, LoseSidecar

-----------------------------------------------------------------------------
(* The theorems. *)

LEMMA Start == Init => IInv
<1> SUFFICES ASSUME Init PROVE IInv
  OBVIOUS
<1>1. TypeOK
  BY Bounds, NoJobIsJob DEF Init, TypeOK, TreeOK, InputsOK, FilesOK,
     Steps, Manifests, Generations
<1>2. Loaded /\ Numbered /\ ManifestHeld /\ ServingAlone
  BY DEF Init, Loaded, Numbered, ManifestHeld, ServingAlone, Published
<1>3. QED
  BY <1>1, <1>2 DEF IInv

LEMMA Step == IInv /\ [Next]_vars => IInv'
<1> SUFFICES ASSUME IInv, [Next]_vars PROVE IInv'
  OBVIOUS
<1>1. ControlOK'
  BY ControlStep DEF IInv
<1>2. StoreOK'
  BY StoreStep DEF IInv
<1>3. TypeOK' /\ Loaded'
  BY <1>1, <1>2 DEF ControlOK, TypeOK, StoreOK, RowsOK, ManifestOK
<1>4. ManifestHeld' /\ Numbered' /\ ServingAlone'
  BY HeldStep, NumberedStep, ServingStep DEF IInv
<1>5. QED
  BY <1>3, <1>4 DEF IInv

LEMMA Invariance == Spec => []IInv
PROOF BY Start, Step, PTL DEF Spec

(* Every variable keeps its type, and with it every name a process gives   *)
(* to a sidecar, whatever it has read before.                              *)
THEOREM TypeCorrect == Spec => []TypeOK
<1>1. IInv => TypeOK
  BY DEF IInv
<1>2. QED
  BY <1>1, Invariance, PTL

(* Whenever manifest.json is replaced it shows what SQLite says at that    *)
(* moment, for any number of publishers, crashes and busy timeouts         *)
(* (publishmanifest).                                                      *)
THEOREM ManifestStaysCurrent == Spec => ManifestIsCurrent
<1>1. ASSUME IInv, [Next]_vars, manifest' # manifest PROVE manifest' = Projection'
  <2>1. PICK p \in Procs : RenameManifest(p)
    BY <1>1
    DEF Next, vars, treeVars, inputVars, fileVars, manifestVars, Procs, Publish,
        ReadBase, CommitGeneration, RollbackGeneration, RefuseBase,
        PublishManifest, WriteManifest, Build, StartBuild, ReadRevision,
        ReuseClean, AlignManifest, LoadMatrix, LookupIndex, RestoreSidecar,
        ReactivateSidecar, PrepareSidecar, AppendCopy, CheckInstall, RenameCopy,
        CommitSidecar, RemoveInput, MarkIndexBuilt, BusyTimeout, Crash,
        LinkEmbedding, InvalidateIndex, LoseSidecar
  <2>2. manifest' = Projection
    BY <1>1, <2>1 DEF IInv, ManifestHeld, RenameManifest
  <2>3. QED
    BY <2>1, <2>2, SameProjection DEF RenameManifest, treeVars
<1>2. IInv /\ [Next]_vars => [manifest' # manifest => manifest' = Projection']_vars
  BY <1>1
<1>3. QED
  BY <1>2, Invariance, PTL DEF Spec, ManifestIsCurrent

(* For every generation at most one index is eligible, whatever was built, *)
(* reactivated or rolled back (commitsidecar, reactivatesidecar).          *)
THEOREM OneIndexServes == Spec => []OneServingIndex
<1>1. ASSUME IInv, NEW g PROVE Cardinality(Compatible(g)) <= 1
  <2>1. \A x \in DOMAIN rows : rows[x].gen \in Nat
    BY <1>1, Bounds DEF IInv, TypeOK, Rows
  <2>2. \A x, y \in Compatible(g) : x = y
    BY <1>1, <2>1 DEF Compatible, Published, IInv, ServingAlone
  <2>3. CASE Compatible(g) = {}
    BY <2>3, FS_EmptySet
  <2>4. CASE Compatible(g) # {}
    <3>1. PICK x \in Compatible(g) : TRUE
      BY <2>4
    <3>2. Compatible(g) = {x}
      BY <2>2, <3>1
    <3>3. QED
      BY <3>2, FS_Singleton
  <2>5. QED
    BY <2>3, <2>4
<1>2. IInv => OneServingIndex
  BY <1>1 DEF OneServingIndex
<1>3. QED
  BY <1>2, Invariance, PTL

(* The generations implement their register: each publication adds a new   *)
(* number on top of the head, each rollback moves to an ancestor, and      *)
(* nothing else touches either (stagegeneration, commitgeneration,         *)
(* rollbackgeneration).                                                    *)
THEOREM RegisterImplemented == Spec => RegisterPromise
<1>1. Init => Register!RegisterInit
  BY DEF Init, Register!RegisterInit
<1>2. ASSUME IInv, [Next]_vars
      PROVE  [Register!RegisterNext]_(Register!registerVars)
  <2> USE DEF treeVars, inputVars, fileVars, manifestVars
  <2>1. CASE UNCHANGED <<parent, current>>
    BY <2>1 DEF Register!registerVars
  <2>2. ASSUME NEW p \in Procs, CommitGeneration(p)
        PROVE  Register!RegisterNext
    <3>1. /\ next \in Nat /\ next \notin DOMAIN parent
          /\ parent' = With(parent, next, current) /\ current' = next
      BY <1>2, <2>2, Bounds DEF CommitGeneration, IInv, TypeOK, TreeOK, Numbered
    <3>2. parent' = [h \in DOMAIN parent \cup {next} |->
                        IF h = next THEN current ELSE parent[h]]
      BY <3>1 DEF With
    <3>3. QED
      BY <3>1, <3>2 DEF Register!RegisterNext, Register!Extend
  <2>3. ASSUME NEW p \in Procs, RollbackGeneration(p), current' # current
        PROVE  Register!RegisterNext
    <3>1. /\ current' \in Register!Lineage(parent, current) \ {current}
          /\ current' \in DOMAIN parent /\ parent' = parent
      BY <2>3 DEF RollbackGeneration, Lineage
    <3>2. current' \in Nat
      BY <1>2, <3>1, Bounds DEF IInv, TypeOK, TreeOK
    <3>3. QED
      BY <3>1, <3>2 DEF Register!RegisterNext, Register!GoBack
  <2>4. QED
    BY <1>2, <2>1, <2>2, <2>3
    DEF Next, vars, Procs, Publish, ReadBase, RollbackGeneration, RefuseBase,
        PublishManifest, WriteManifest, RenameManifest, Build, StartBuild,
        ReadRevision, ReuseClean, AlignManifest, LoadMatrix, LookupIndex,
        RestoreSidecar, ReactivateSidecar, PrepareSidecar, AppendCopy,
        CheckInstall, RenameCopy, CommitSidecar, RemoveInput, MarkIndexBuilt,
        BusyTimeout, Crash, LinkEmbedding, InvalidateIndex, LoseSidecar
<1>3. QED
  BY <1>1, <1>2, Invariance, PTL
  DEF Spec, RegisterPromise, Register!RegisterSpec

-----------------------------------------------------------------------------
(* The marks of an index.                                                  *)

(* A parent is older than its child. *)
Descending == \A g \in DOMAIN parent : parent[g] < g

(* Members are dated with generations that have been given out. *)
Dated == \A m \in Members : first[m] < next /\ last[m] < next

(* Where a build writes the file of a new index, and where the row of its  *)
(* index is there and waits to be marked.                                  *)
Filing == {"prepare", "append", "install", "move", "commit"}

Filed(p) ==
    \/ pc[p] \in {"remove", "mark"}
    \/ pc[p] \in {"project", "rename"} /\ job[p].then \in {"remove", "mark"}

(* What a build knows if the revision is still the one it read: its index  *)
(* has the members of its base, and once it is filed under the generation  *)
(* it was built for, those of the published one.                           *)
Fresh(p) ==
    LET j == job[p] IN
    /\ j.rev <= revision
    /\ pc[p] \in Filing \cup {"lookup"} => j.index.built = j.base
    /\ pc[p] \in Filing \cup {"lookup", "restore", "reactivate"} /\ j.rev = revision =>
          j.index.members = Visible(j.base)
    /\ Filed(p) =>
          /\ j.index \in DOMAIN rows
          /\ j.rev = revision /\ j.index.built = rows[j.index].gen =>
                j.index.members = Visible(current)

(* No mark is ahead of the revision, and one that is not behind it tells   *)
(* the truth.                                                              *)
Marks ==
    \A x \in DOMAIN rows :
        /\ rows[x].marked # None => rows[x].marked <= revision
        /\ rows[x].marked = revision /\ x.built = rows[x].gen =>
              x.members = Visible(current)

Complete == Descending /\ Dated /\ (\A p \in Procs : Fresh(p)) /\ Marks

(* A step that the revision does not notice shows what was shown, and one  *)
(* that it does notice.                                                    *)
Unseen ==
    /\ revision' = revision /\ UNCHANGED <<first, last>>
    /\ Visible(current)' = Visible(current)

Noticed == revision' = revision + 1

(* The members, the generations and the revision, as numbers. *)
LEMMA Numbers ==
    ASSUME TypeOK
    PROVE  /\ current \in Nat /\ next \in Nat /\ revision \in Nat
           /\ \A m \in Members : first[m] \in Nat /\ last[m] \in Nat
           /\ first \in [Members -> Nat] /\ last \in [Members -> Nat]
           /\ current \in DOMAIN parent /\ DOMAIN parent \subseteq Nat
PROOF BY Bounds DEF TypeOK, TreeOK, InputsOK, Generations

(* The lineage of a generation holds no younger one. *)
LEMMA LineageGoesBack ==
    ASSUME TypeOK, Descending, NEW g \in DOMAIN parent, NEW h \in Lineage(g)
    PROVE  h \in Nat /\ h <= g
<1> DEFINE S == {k \in DOMAIN parent : k <= g}
<1>1. DOMAIN parent \subseteq Nat /\ \A k \in DOMAIN parent : parent[k] \in Nat
  BY Numbers, Bounds DEF TypeOK, TreeOK
<1>2. S \in SUBSET DOMAIN parent
  OBVIOUS
<1>3. ({g} \cup {parent[k] : k \in S}) \cap DOMAIN parent \subseteq S
  BY <1>1 DEF Descending
<1>4. h \in S
  BY <1>2, <1>3 DEF Lineage, Register!Lineage
<1>5. QED
  BY <1>1, <1>4

(* A new generation is younger than the one it was made from. *)
LEMMA DescendingStep ==
    ASSUME TypeOK, Numbered, Descending, [Next]_vars PROVE Descending'
<1> USE DEF treeVars
<1>1. CASE UNCHANGED parent
  BY <1>1 DEF Descending
<1>2. ASSUME NEW p \in Procs, CommitGeneration(p) PROVE Descending'
  BY <1>2, Numbers DEF CommitGeneration, With, Numbered, Descending
<1>3. QED
  BY <1>1, <1>2
  DEF Next, vars, Procs, Publish, ReadBase, RollbackGeneration, RefuseBase,
      PublishManifest, WriteManifest, RenameManifest, Build, StartBuild,
      ReadRevision, ReuseClean, AlignManifest, LoadMatrix, LookupIndex,
      RestoreSidecar, ReactivateSidecar, PrepareSidecar, AppendCopy,
      CheckInstall, RenameCopy, CommitSidecar, RemoveInput, MarkIndexBuilt,
      BusyTimeout, Crash, LinkEmbedding, InvalidateIndex, LoseSidecar

(* Dates are given out before they are used. *)
LEMMA DatedStep ==
    ASSUME TypeOK, Numbered, Dated, [Next]_vars PROVE Dated'
<1> USE DEF treeVars, inputVars, fileVars, manifestVars
<1>1. CASE UNCHANGED <<first, last, next>>
  BY <1>1 DEF Dated
<1>2. ASSUME NEW p \in Procs, CommitGeneration(p) PROVE Dated'
  <2>1. /\ next' = next + 1
        /\ Keep \/ \E m \in Members : Add(m) \/ Retire(m)
    BY <1>2 DEF CommitGeneration
  <2>2. \A m \in Members : first'[m] \in {first[m], next} /\ last'[m] \in {last[m], next}
    BY <2>1, Numbers DEF Keep, Add, Retire
  <2>3. QED
    BY <2>1, <2>2, Numbers DEF Dated
<1>3. ASSUME NEW n \in Members, NEW g \in Generations, LinkEmbedding(n, g) PROVE Dated'
  <2>1. /\ g < next /\ UNCHANGED <<next, last>>
        /\ first' = [first EXCEPT ![n] = g]
    BY <1>3 DEF LinkEmbedding, Numbered
  <2>2. QED
    BY <2>1, Numbers DEF Dated
<1>4. ASSUME NEW p \in Procs, RollbackGeneration(p) PROVE Dated'
  BY <1>1, <1>4 DEF RollbackGeneration, Keep
<1>5. QED
  BY <1>1, <1>2, <1>3, <1>4
  DEF Next, vars, Procs, Publish, ReadBase, RefuseBase,
      PublishManifest, WriteManifest, RenameManifest, Build, StartBuild,
      ReadRevision, ReuseClean, AlignManifest, LoadMatrix, LookupIndex,
      RestoreSidecar, ReactivateSidecar, PrepareSidecar, AppendCopy,
      CheckInstall, RenameCopy, CommitSidecar, RemoveInput, MarkIndexBuilt,
      BusyTimeout, Crash, InvalidateIndex, LoseSidecar

(* Nothing that a generation shows changes unnoticed: a change of a member *)
(* and a jump of the published generation move the revision, and the next  *)
(* generation shows what the one before it does, since no member is dated  *)
(* ahead (the triggers of the vector inputs).                              *)
LEMMA NoticedStep ==
    ASSUME TypeOK, Numbered, Descending, Dated, [Next]_vars PROVE Unseen \/ Noticed
<1> USE DEF treeVars, inputVars, fileVars, manifestVars
<1>1. CASE UNCHANGED <<first, last, revision, current>>
  BY <1>1 DEF Unseen, Visible
<1>2. ASSUME NEW p \in Procs, CommitGeneration(p) PROVE Unseen \/ Noticed
  <2>1. current' = next /\ current < next /\ Dirtied
    BY <1>2, Numbers DEF CommitGeneration, Numbered
  <2>2. CASE revision' = revision + 1
    BY <2>2 DEF Noticed
  <2>3. CASE revision' # revision + 1
    <3>1. revision' = revision /\ UNCHANGED <<first, last>> /\ ~Jumps(current, current')
      BY <2>1, <2>3 DEF Dirtied
    <3>2. next = current + 1
      BY <2>1, <3>1, Numbers DEF Jumps
    <3>3. \A m \in Members : first[m] \in Nat /\ last[m] \in Nat
                              /\ first[m] <= current /\ last[m] <= current
      BY <3>2, Numbers DEF Dated
    <3>4. Visible(current)' = {m \in Members : first[m] \in 1 .. next
                                                /\ (last[m] = 0 \/ last[m] > next)}
      BY <2>1, <3>1 DEF Visible
    <3>5. Visible(current)' = Visible(current)
      BY <3>2, <3>3, <3>4, Numbers DEF Visible
    <3>6. QED
      BY <3>1, <3>5 DEF Unseen
  <2>4. QED
    BY <2>2, <2>3
<1>3. ASSUME NEW p \in Procs, RollbackGeneration(p) PROVE Unseen \/ Noticed
  <2>1. current' \in Nat /\ current' <= current /\ Dirtied /\ UNCHANGED <<first, last>>
    BY <1>3, LineageGoesBack, Numbers DEF RollbackGeneration, Keep
  <2>2. CASE revision' = revision + 1
    BY <2>2 DEF Noticed
  <2>3. CASE revision' # revision + 1
    <3>1. revision' = revision /\ ~Jumps(current, current')
      BY <2>1, <2>3 DEF Dirtied
    <3>2. current' = current
      BY <2>1, <3>1, Numbers DEF Jumps
    <3>3. QED
      BY <2>1, <3>1, <3>2 DEF Unseen, Visible
  <2>4. QED
    BY <2>2, <2>3
<1>4. ASSUME NEW m \in Members, NEW g \in Generations, LinkEmbedding(m, g)
      PROVE  Noticed
  <2>1. /\ first[m] = 0 /\ first' = [first EXCEPT ![m] = g] /\ g # 0
        /\ Dirtied
    BY <1>4 DEF LinkEmbedding, Generations
  <2>2. first' # first
    BY <2>1, Numbers
  <2>3. QED
    BY <2>1, <2>2 DEF Dirtied, Noticed
<1>5. CASE InvalidateIndex
  BY <1>5 DEF InvalidateIndex, Noticed
<1>6. QED
  BY <1>1, <1>2, <1>3, <1>4, <1>5
  DEF Next, vars, Procs, Publish, ReadBase, RefuseBase,
      PublishManifest, WriteManifest, RenameManifest, Build, StartBuild,
      ReadRevision, ReuseClean, AlignManifest, LoadMatrix, LookupIndex,
      RestoreSidecar, ReactivateSidecar, PrepareSidecar, AppendCopy,
      CheckInstall, RenameCopy, CommitSidecar, RemoveInput, MarkIndexBuilt,
      BusyTimeout, Crash, LoseSidecar

-----------------------------------------------------------------------------
(* Builds and their marks.                                                 *)

(* Rows are kept, under their generation. *)
RowsKept == \A x \in DOMAIN rows : x \in DOMAIN rows' /\ rows'[x].gen = rows[x].gen

(* Supersession keeps rows and marks, and a new row comes without a mark.  *)
LEMMA RowsStep ==
    ASSUME TypeOK, [Next]_vars
    PROVE  RowsKept
<1> USE DEF treeVars, inputVars, fileVars, manifestVars
<1>1. \A x \in DOMAIN rows : rows[x] \in Rows
  BY DEF TypeOK
<1>2. CASE UNCHANGED rows
  BY <1>2 DEF RowsKept
<1>3. ASSUME NEW p \in Procs, ReactivateSidecar(p) PROVE RowsKept
  BY <1>1, <1>2, <1>3 DEF ReactivateSidecar, Serve, RowsKept, Rows
<1>4. ASSUME NEW p \in Procs, CommitSidecar(p) PROVE RowsKept
  <2>1. \/ UNCHANGED rows
        \/ \E row : /\ rows' = Serve(With(rows, job[p].index, row), job[p].index)
                    /\ job[p].index \notin DOMAIN rows
    BY <1>4 DEF CommitSidecar
  <2>2. QED
    BY <1>1, <1>2, <2>1 DEF Serve, With, RowsKept, Rows
<1>5. ASSUME NEW p \in Procs, MarkIndexBuilt(p) PROVE RowsKept
  BY <1>1, <1>5 DEF MarkIndexBuilt, RowsKept, Rows
<1>6. QED
  BY <1>2, <1>3, <1>4, <1>5
  DEF Next, vars, Procs, Publish, ReadBase, CommitGeneration,
      RollbackGeneration, RefuseBase, PublishManifest, WriteManifest,
      RenameManifest, Build, StartBuild, ReadRevision, ReuseClean,
      AlignManifest, LoadMatrix, LookupIndex, RestoreSidecar, PrepareSidecar,
      AppendCopy, CheckInstall, RenameCopy, RemoveInput, BusyTimeout, Crash,
      LinkEmbedding, InvalidateIndex, LoseSidecar

(* A process that takes no step knows what it knew, if the step is unseen, *)
(* and nothing of interest otherwise.                                      *)
LEMMA BystanderFresh ==
    ASSUME TypeOK, RowsKept, Unseen \/ Noticed, NEW p \in Procs, Fresh(p),
           pc'[p] = pc[p], job'[p] = job[p]
    PROVE  Fresh(p)'
<1>1. revision \in Nat /\ job[p].rev \in Nat /\ job[p].rev <= revision
  BY Numbers, Bounds DEF Fresh, TypeOK, Jobs
<1>2. Filed(p)' <=> Filed(p)
  BY DEF Filed
<1>3. CASE Noticed
  <2>1. job'[p].rev <= revision' /\ job'[p].rev # revision'
    BY <1>1, <1>3 DEF Noticed
  <2>2. QED
    BY <1>2, <2>1 DEF Fresh, RowsKept
<1>4. CASE Unseen
  <2>1. /\ revision' = revision /\ Visible(current)' = Visible(current)
        /\ Visible(job[p].base)' = Visible(job[p].base)
    BY <1>4 DEF Unseen, Visible
  <2>2. QED
    BY <1>2, <2>1 DEF Fresh, RowsKept
<1>5. QED
  BY <1>3, <1>4

(* Where a process knows nothing of an index yet, it has nothing to keep.  *)
LEMMA FreshAway ==
    ASSUME TypeOK, Unseen \/ Noticed, NEW p \in Procs, NEW s, NEW j \in Jobs, Go(p, s, j),
           j.rev <= revision,
           \/ s \in {"idle", "based", "revision", "reuse", "align", "load"}
           \/ s = "project" /\ j.then \in {"idle", "load"}
    PROVE  Fresh(p)'
<1>1. pc'[p] = s /\ job'[p] = j
  BY DEF Go, TypeOK
<1>2. j.rev \in Nat /\ revision \in Nat /\ revision' \in Nat /\ revision <= revision'
  BY Numbers, Bounds DEF Jobs, Unseen, Noticed
<1>3. job'[p].rev <= revision'
  BY <1>1, <1>2
<1>4. ~Filed(p)' /\ pc'[p] \notin Filing \cup {"lookup", "restore", "reactivate"}
  BY <1>1 DEF Filed, Filing
<1>5. QED
  BY <1>3, <1>4 DEF Fresh

(* A process that returns is such a one. *)
LEMMA FreshReturn ==
    ASSUME TypeOK, Unseen \/ Noticed, NEW p \in Procs, Return(p)
    PROVE  Fresh(p)'
<1>1. NoJob.rev <= revision /\ NoJob \in Jobs
  BY Numbers, NoJobIsJob DEF NoJob
<1>2. QED
  BY <1>1, FreshAway DEF Return

(* An index that is replayed has the members of the one it replaces, and   *)
(* one that stands for itself is not in a row of its generation.           *)
LEMMA ReplayMembers ==
    ASSUME TypeOK, NEW j \in Jobs, j.index \in Indexes
    PROVE  /\ Replay(j).members = j.index.members
           /\ \/ Replay(j) = j.index
              \/ Replay(j) \in DOMAIN rows /\ rows[Replay(j)].gen = Replay(j).built
<1> DEFINE older(x) == [j.index EXCEPT !.built = rows[x].gen]
           same == {x \in Exact(j.base) : older(x) = x}
<1>1. CASE same = {}
  BY <1>1 DEF Replay
<1>2. CASE same # {}
  <2>1. PICK x : x = CHOOSE y \in same : TRUE
    OBVIOUS
  <2>2. x \in same /\ Replay(j) = x
    BY <1>2, <2>1 DEF Replay
  <2>3. x \in DOMAIN rows /\ x = [j.index EXCEPT !.built = rows[x].gen]
    BY <2>2 DEF Exact, Compatible, Published
  <2>4. x.members = j.index.members /\ x.built = rows[x].gen
    BY <2>3 DEF Indexes
  <2>5. QED
    BY <2>2, <2>3, <2>4
<1>3. QED
  BY <1>1, <1>2

(* What a build has just done keeps what it knows. *)
LEMMA BuilderFresh ==
    ASSUME TypeOK, Loaded, RowsKept, NEW p \in Procs, Fresh(p), Build(p)
    PROVE  Fresh(p)'
<1> DEFINE j == job[p]
<1> USE DEF treeVars, inputVars, fileVars, manifestVars
<1>1. UNCHANGED <<treeVars, inputVars>>
  BY DEF Build, StartBuild, ReadRevision, ReuseClean, AlignManifest,
         LoadMatrix, LookupIndex, RestoreSidecar, ReactivateSidecar,
         PrepareSidecar, AppendCopy, CheckInstall, RenameCopy,
         CommitSidecar, RemoveInput, MarkIndexBuilt
<1>2. /\ Unseen /\ revision' = revision /\ current' = current
      /\ \A g : Visible(g)' = Visible(g)
      /\ Visible(current)' = Visible(current)
  BY <1>1 DEF Unseen, Visible
<1>3. /\ j \in Jobs /\ j.rev \in Nat /\ revision \in Nat /\ j.rev <= revision
      /\ current \in Generations /\ revision \in 0 .. MaxRevision
      /\ pc \in [Procs -> Steps] /\ job \in [Procs -> Jobs]
  BY Numbers, Bounds DEF TypeOK, TreeOK, InputsOK, Jobs, Fresh
<1>4. CASE StartBuild(p)
  <2>1. PICK s \in Settings :
           Go(p, "revision", [NoJob EXCEPT !.base = current, !.setting = s])
    BY <1>4 DEF StartBuild
  <2>2. PICK k : k = [NoJob EXCEPT !.base = current, !.setting = s]
    OBVIOUS
  <2>3. k \in Jobs /\ k.rev = 0
    BY <1>3, <2>2, NoJobIsJob DEF NoJob, Jobs
  <2>4. Go(p, "revision", k) /\ k.rev <= revision
    BY <1>3, <2>1, <2>2, <2>3
  <2>5. QED
    BY <1>2, <2>3, <2>4, FreshAway
<1>5. CASE ReadRevision(p)
  <2>1. PICK k : k = [j EXCEPT !.rev = revision]
    OBVIOUS
  <2>2. k \in Jobs /\ k.rev = revision /\ Go(p, "reuse", k)
    BY <1>3, <1>5, <2>1 DEF Jobs, ReadRevision
  <2>3. QED
    BY <1>2, <1>3, <2>2, FreshAway
<1>6. CASE ReuseClean(p)
  <2>1. PICK k : k = [j EXCEPT !.then = "idle"]
    OBVIOUS
  <2>2. k \in Jobs /\ k.rev = j.rev /\ k.then = "idle"
    BY <1>3, <2>1 DEF Jobs
  <2>3. Go(p, "align", j) \/ Return(p) \/ Go(p, "project", k)
    BY <1>6, <2>1 DEF ReuseClean, ThenManifest
  <2>4. QED
    BY <1>2, <1>3, <2>2, <2>3, FreshAway, FreshReturn
<1>7. CASE AlignManifest(p)
  <2>1. PICK k : k = [j EXCEPT !.count = Cardinality(Visible(j.base))]
    OBVIOUS
  <2>2. PICK l : l = [k EXCEPT !.then = "load"]
    OBVIOUS
  <2>3. k \in Jobs /\ k.rev = j.rev /\ l \in Jobs /\ l.rev = j.rev /\ l.then = "load"
    BY <1>3, <2>1, <2>2, VisibleType DEF Jobs
  <2>4. Return(p) \/ Go(p, "load", k) \/ Go(p, "project", l)
    BY <1>7, <2>1, <2>2 DEF AlignManifest, ThenManifest
  <2>5. QED
    BY <1>2, <1>3, <2>3, <2>4, FreshAway, FreshReturn
<1>8. CASE LoadMatrix(p)
  <2>1. PICK x : x = [built |-> j.base, members |-> Visible(j.base), setting |-> j.setting]
    OBVIOUS
  <2>2. CASE Return(p)
    BY <1>2, <2>2, FreshReturn
  <2>3. CASE Go(p, "lookup", [j EXCEPT !.index = x])
    <3>1. pc'[p] = "lookup" /\ job'[p] = [j EXCEPT !.index = x]
      BY <1>3, <2>3 DEF Go
    <3>2. /\ job'[p].index = x /\ job'[p].base = j.base /\ job'[p].rev = j.rev
          /\ x.built = j.base /\ x.members = Visible(j.base)
      BY <1>3, <2>1, <3>1 DEF Jobs
    <3>3. QED
      BY <1>1, <1>3, <3>1, <3>2 DEF Fresh, Filed, Filing, Visible
  <2>4. QED
    BY <1>8, <2>1, <2>2, <2>3 DEF LoadMatrix
<1>9. CASE LookupIndex(p)
  <2>1. PICK x : x = Replay(j)
    OBVIOUS
  <2>2. pc[p] = "lookup" /\ j.index \in Indexes
    BY <1>9 DEF LookupIndex, Loaded
  <2>3. /\ x.members = j.index.members
        /\ \/ x = j.index
           \/ x \in DOMAIN rows /\ rows[x].gen = x.built
    BY <1>3, <2>1, <2>2, ReplayMembers
  <2>4. PICK k : k = [j EXCEPT !.index = x]
    OBVIOUS
  <2>5. k.index = x /\ k.rev = j.rev /\ k.base = j.base
    BY <1>3, <2>4 DEF Jobs
  <2>6. /\ job'[p] = k /\ pc'[p] \in {"reactivate", "restore", "prepare"}
        /\ pc'[p] = "prepare" => x = j.index
    BY <1>3, <1>9, <2>1, <2>3, <2>4, <2>5 DEF LookupIndex, Go
  <2>7. QED
    BY <1>1, <1>3, <2>2, <2>3, <2>5, <2>6 DEF Fresh, Filed, Filing, Visible
<1>10. CASE RestoreSidecar(p)
  <2>1. CASE Return(p)
    BY <1>2, <2>1, FreshReturn
  <2>2. CASE Go(p, "reactivate", j)
    <3>1. pc[p] = "restore" /\ pc'[p] = "reactivate" /\ job'[p] = j
      BY <1>3, <1>10, <2>2 DEF Go, RestoreSidecar
    <3>2. QED
      BY <1>1, <1>3, <3>1 DEF Fresh, Filed, Filing, Visible
  <2>3. QED
    BY <1>10, <2>1, <2>2 DEF RestoreSidecar
<1>11. CASE ReactivateSidecar(p)
  <2>1. CASE Return(p)
    BY <1>2, <2>1, FreshReturn
  <2>2. CASE ~Return(p)
    <3>1. /\ pc[p] = "reactivate" /\ current = j.base /\ revision = j.rev
          /\ j.index \in DOMAIN rows /\ ThenManifest(p, "mark", j)
      BY <1>11, <2>2 DEF ReactivateSidecar
    <3>2. /\ pc'[p] = "project" /\ job'[p].index = j.index /\ job'[p].rev = j.rev
          /\ j.index \in DOMAIN rows'
      BY <1>3, <3>1 DEF ThenManifest, Go, Jobs, RowsKept
    <3>3. j.index.members = Visible(current)
      BY <3>1 DEF Fresh
    <3>4. QED
      BY <1>2, <1>3, <3>2, <3>3 DEF Fresh, Filing
  <2>3. QED
    BY <2>1, <2>2
<1>12. CASE PrepareSidecar(p) \/ AppendCopy(p) \/ CheckInstall(p) \/ RenameCopy(p)
  <2>1. CASE Return(p)
    BY <1>2, <2>1, FreshReturn
  <2>2. CASE ~Return(p)
    <3>1. PICK k \in {j, [j EXCEPT !.gen = current]} :
             /\ Go(p, "append", k) \/ Go(p, "install", k) \/ Go(p, "move", k)
                  \/ Go(p, "commit", k)
             /\ pc[p] \in Filing
      BY <1>12, <2>2 DEF PrepareSidecar, AppendCopy, CheckInstall, RenameCopy, Filing
    <3>2. k.index = j.index /\ k.rev = j.rev /\ k.base = j.base
      BY <1>3, <3>1 DEF Jobs
    <3>3. pc'[p] \in Filing /\ job'[p] = k
      BY <1>3, <3>1 DEF Go, Filing
    <3>4. QED
      BY <1>1, <1>3, <3>1, <3>2, <3>3 DEF Fresh, Filed, Filing, Visible
  <2>3. QED
    BY <2>1, <2>2
<1>13. CASE CommitSidecar(p)
  <2>1. CASE Return(p)
    BY <1>2, <2>1, FreshReturn
  <2>2. CASE ~Return(p)
    <3> DEFINE row == [gen |-> j.gen, state |-> "published", marked |-> None]
    <3>1. /\ pc[p] = "commit" /\ current = j.gen
          /\ rows' = Serve(With(rows, j.index, row), j.index)
          /\ ThenManifest(p, "remove", j)
      BY <1>13, <2>2 DEF CommitSidecar
    <3>2. j.index \in DOMAIN rows' /\ rows'[j.index].gen = current
      BY <3>1 DEF Serve, With
    <3>3. /\ pc'[p] = "project" /\ job'[p].index = j.index /\ job'[p].rev = j.rev
      BY <1>3, <3>1 DEF ThenManifest, Go, Jobs
    <3>4. j.index.built = j.base /\ (j.rev = revision => j.index.members = Visible(j.base))
      BY <3>1 DEF Fresh, Filing
    <3>5. j.rev = revision /\ j.index.built = rows'[j.index].gen =>
             j.index.members = Visible(current)
      BY <3>2, <3>4
    <3>6. QED
      BY <1>2, <1>3, <3>2, <3>3, <3>5 DEF Fresh, Filing
  <2>3. QED
    BY <2>1, <2>2
<1>14. CASE RemoveInput(p)
  <2>1. CASE Return(p)
    BY <1>2, <2>1, FreshReturn
  <2>2. CASE Go(p, "mark", j)
    <3>1. pc[p] = "remove" /\ pc'[p] = "mark" /\ job'[p] = j /\ rows' = rows
      BY <1>3, <1>14, <2>2 DEF Go, RemoveInput
    <3>2. QED
      BY <1>2, <1>3, <3>1 DEF Fresh, Filed, Filing
  <2>3. QED
    BY <1>14, <2>1, <2>2 DEF RemoveInput
<1>15. CASE MarkIndexBuilt(p)
  BY <1>2, <1>15, FreshReturn DEF MarkIndexBuilt
<1>16. QED
  BY <1>4, <1>5, <1>6, <1>7, <1>8, <1>9, <1>10, <1>11, <1>12, <1>13, <1>14,
     <1>15 DEF Build

(* What every process knows stays true. *)
LEMMA FreshStep ==
    ASSUME TypeOK, Loaded, Unseen \/ Noticed, RowsKept, \A p \in Procs : Fresh(p),
           [Next]_vars, NEW q \in Procs
    PROVE  Fresh(q)'
<1> USE DEF treeVars, inputVars, fileVars, manifestVars
<1>1. /\ pc \in [Procs -> Steps] /\ job \in [Procs -> Jobs]
      /\ \A p \in Procs : job[p] \in Jobs /\ job[p].rev <= revision
      /\ current \in Generations
  BY DEF TypeOK, TreeOK, Fresh
<1>2. ASSUME NEW p, p # q, NEW s, NEW j, Go(p, s, j) PROVE Fresh(q)'
  BY <1>1, <1>2, BystanderFresh DEF Go
<1>3. CASE UNCHANGED <<pc, job>>
  BY <1>3, BystanderFresh
<1>4. ASSUME NEW p \in Procs, Publish(p) PROVE Fresh(q)'
  <2>1. \E s, j : Go(p, s, j)
    BY <1>4 DEF Publish, ReadBase, CommitGeneration, RollbackGeneration, RefuseBase,
                Return, ThenManifest
  <2>2. CASE p = q
    <3>1. PICK k, l : k = [NoJob EXCEPT !.base = current] /\ l = [job[q] EXCEPT !.then = "idle"]
      OBVIOUS
    <3>2. k \in Jobs /\ k.rev = 0 /\ l \in Jobs /\ l.rev = job[q].rev /\ l.then = "idle"
      BY <1>1, <3>1, NoJobIsJob DEF Jobs, NoJob
    <3>3. Go(q, "based", k) \/ Go(q, "project", l) \/ Return(q)
      BY <1>4, <2>2, <3>1
      DEF Publish, ReadBase, CommitGeneration, RollbackGeneration, RefuseBase, ThenManifest
    <3>4. QED
      BY <1>1, <3>2, <3>3, FreshAway, FreshReturn, Numbers
  <2>3. QED
    BY <1>2, <2>1, <2>2
<1>5. ASSUME NEW p \in Procs, PublishManifest(p) PROVE Fresh(q)'
  <2>1. \E s, j : Go(p, s, j)
    BY <1>5 DEF PublishManifest, WriteManifest, RenameManifest, Return
  <2>2. CASE p = q
    <3>1. /\ UNCHANGED <<first, last, revision, current, rows>>
          /\ Visible(current)' = Visible(current)
      BY <1>5 DEF PublishManifest, WriteManifest, RenameManifest, Visible
    <3>2. CASE Return(q)
      BY <3>2, FreshReturn
    <3>3. CASE ~Return(q)
      <4>1. /\ job'[q] = job[q]
            /\ \/ pc[q] = "project" /\ pc'[q] = "rename"
               \/ pc[q] = "rename" /\ pc'[q] = job[q].then
                    /\ pc'[q] \in {"load", "remove", "mark"}
        BY <1>1, <1>5, <2>2, <3>3
        DEF PublishManifest, WriteManifest, RenameManifest, Go, Jobs
      <4>2. Filed(q)' => Filed(q)
        BY <4>1 DEF Filed
      <4>3. QED
        BY <3>1, <4>1, <4>2 DEF Fresh, Filing
    <3>4. QED
      BY <3>2, <3>3
  <2>3. QED
    BY <1>2, <2>1, <2>2
<1>6. ASSUME NEW p \in Procs, Build(p) PROVE Fresh(q)'
  <2>1. \E s, j : Go(p, s, j)
    BY <1>6 DEF Build, StartBuild, ReadRevision, ReuseClean,
       AlignManifest, LoadMatrix, LookupIndex, RestoreSidecar,
       ReactivateSidecar, PrepareSidecar, AppendCopy, CheckInstall,
       RenameCopy, CommitSidecar, RemoveInput, MarkIndexBuilt, Return,
       ThenManifest
  <2>2. QED
    BY <1>2, <1>6, <2>1, BuilderFresh
<1>7. ASSUME NEW p \in Procs, BusyTimeout(p) \/ Crash(p) PROVE Fresh(q)'
  <2>1. Return(p)
    BY <1>7 DEF BusyTimeout, Crash
  <2>2. QED
    BY <1>2, <2>1, FreshReturn DEF Return
<1>8. QED
  BY <1>3, <1>4, <1>5, <1>6, <1>7
  DEF Next, vars, Procs, LinkEmbedding, InvalidateIndex, LoseSidecar

(* Marks stay true while only the bookkeeping of rows changes. *)
LEMMA MarksKept ==
    ASSUME TypeOK, Marks, Unseen \/ Noticed,
           \A x \in DOMAIN rows' :
              \/ x \in DOMAIN rows /\ rows'[x].marked = rows[x].marked
                                   /\ rows'[x].gen = rows[x].gen
              \/ rows'[x].marked = None
    PROVE  Marks'
<1>1. revision \in Nat /\ None \notin Nat /\ MaxRevision \in Nat
  BY Numbers, PublicationAssumption
<1>2. \A x \in DOMAIN rows : rows[x].marked \in 0 .. MaxRevision \cup {None}
  BY DEF TypeOK, Rows
<1>3. CASE Unseen
  BY <1>1, <1>2, <1>3 DEF Unseen, Marks
<1>4. CASE Noticed
  BY <1>1, <1>2, <1>4 DEF Noticed, Marks
<1>5. QED
  BY <1>3, <1>4

LEMMA MarksStep ==
    ASSUME TypeOK, Marks, Unseen \/ Noticed, \A p \in Procs : Fresh(p), [Next]_vars
    PROVE  Marks'
<1> USE DEF treeVars, inputVars, fileVars, manifestVars
<1>1. \A x \in DOMAIN rows : rows[x] \in Rows
  BY DEF TypeOK
<1>2. CASE UNCHANGED rows
  BY <1>2, MarksKept
<1>3. ASSUME NEW p \in Procs, ReactivateSidecar(p) PROVE Marks'
  <2>1. UNCHANGED rows \/ rows' = Serve(rows, job[p].index)
    BY <1>3 DEF ReactivateSidecar
  <2>2. \A x \in DOMAIN rows' : /\ x \in DOMAIN rows /\ rows'[x].marked = rows[x].marked
                                /\ rows'[x].gen = rows[x].gen
    BY <1>1, <2>1 DEF Serve, Rows
  <2>3. QED
    BY <2>2, MarksKept
<1>4. ASSUME NEW p \in Procs, CommitSidecar(p) PROVE Marks'
  <2> DEFINE row == [gen |-> job[p].gen, state |-> "published", marked |-> None]
             x == job[p].index
  <2>1. UNCHANGED rows \/ rows' = Serve(With(rows, x, row), x)
    BY <1>4 DEF CommitSidecar
  <2>2. PICK table : table = With(rows, x, row)
    OBVIOUS
  <2>3. /\ DOMAIN table = DOMAIN rows \cup {x}
        /\ table[x] = row /\ \A y \in DOMAIN rows : y # x => table[y] = rows[y]
    BY <2>2 DEF With
  <2>4. row \in Rows
    BY DEF TypeOK, Jobs, Rows
  <2>5. CASE rows' = Serve(table, x)
    <3>1. \A y \in DOMAIN table : table[y] \in Rows
      BY <1>1, <2>3, <2>4
    <3>2. \A y \in DOMAIN rows' : /\ y \in DOMAIN table
                                  /\ rows'[y].marked = table[y].marked
                                  /\ rows'[y].gen = table[y].gen
      BY <2>5, <3>1 DEF Serve, Rows
    <3>3. row.marked = None
      OBVIOUS
    <3>4. \A y \in DOMAIN rows' :
             \/ y \in DOMAIN rows /\ rows'[y].marked = rows[y].marked
                                  /\ rows'[y].gen = rows[y].gen
             \/ rows'[y].marked = None
      BY <2>3, <3>2, <3>3
    <3>5. QED
      BY <3>4, MarksKept
  <2>6. QED
    BY <1>2, <2>1, <2>2, <2>5
<1>5. ASSUME NEW p \in Procs, MarkIndexBuilt(p) PROVE Marks'
  <2> DEFINE x == job[p].index
  <2>1. /\ pc[p] = "mark" /\ rows' = [rows EXCEPT ![x].marked = job[p].rev]
        /\ UNCHANGED <<first, last, revision, current>>
    BY <1>5 DEF MarkIndexBuilt
  <2>2. /\ x \in DOMAIN rows /\ job[p].rev <= revision
        /\ job[p].rev = revision /\ x.built = rows[x].gen => x.members = Visible(current)
    BY <2>1 DEF Fresh, Filed
  <2>3. /\ DOMAIN rows' = DOMAIN rows
        /\ \A y \in DOMAIN rows : rows'[y].gen = rows[y].gen
                                   /\ (y # x => rows'[y].marked = rows[y].marked)
        /\ rows'[x].marked = job[p].rev
    BY <1>1, <2>1, <2>2 DEF Rows
  <2>4. Visible(current)' = Visible(current)
    BY <2>1 DEF Visible
  <2>5. QED
    BY <2>1, <2>2, <2>3, <2>4 DEF Marks
<1>6. ASSUME NEW p \in Procs, RollbackGeneration(p) \/ CommitGeneration(p) PROVE Marks'
  BY <1>2, <1>6 DEF RollbackGeneration, CommitGeneration
<1>7. QED
  BY <1>2, <1>3, <1>4, <1>5, <1>6
  DEF Next, vars, Procs, Publish, ReadBase, RefuseBase, PublishManifest, WriteManifest,
      RenameManifest, Build, StartBuild, ReadRevision, ReuseClean,
      AlignManifest, LoadMatrix, LookupIndex, RestoreSidecar, PrepareSidecar,
      AppendCopy, CheckInstall, RenameCopy, RemoveInput, BusyTimeout, Crash,
      LinkEmbedding, InvalidateIndex, LoseSidecar

LEMMA CompleteStart == Init => Complete
<1> SUFFICES ASSUME Init PROVE Complete
  OBVIOUS
<1>1. Descending /\ Dated /\ Marks
  BY DEF Init, Descending, Dated, Marks
<1>2. \A p \in Procs : Fresh(p)
  BY DEF Init, Fresh, Filed, Filing, NoJob
<1>3. QED
  BY <1>1, <1>2 DEF Complete

LEMMA CompleteStep == IInv /\ Complete /\ [Next]_vars => Complete'
<1> SUFFICES ASSUME IInv, Complete, [Next]_vars PROVE Complete'
  OBVIOUS
<1>1. TypeOK /\ Loaded /\ Numbered /\ Descending /\ Dated /\ Marks
        /\ \A p \in Procs : Fresh(p)
  BY DEF IInv, Complete
<1>2. (Unseen \/ Noticed) /\ RowsKept
  BY <1>1, NoticedStep, RowsStep
<1>3. Descending' /\ Dated' /\ Marks'
  BY <1>1, <1>2, DescendingStep, DatedStep, MarksStep
<1>4. \A q \in Procs : Fresh(q)'
  BY <1>1, <1>2, FreshStep
<1>5. (\A q \in Procs : Fresh(q))'
  BY <1>4
<1>6. QED
  BY <1>3, <1>5 DEF Complete

(* An index that counts as clean and is filed under its own generation has *)
(* exactly the members that the library shows, whatever was published,     *)
(* linked, retired or rolled back while it was built, and whoever else     *)
(* built, reactivated or marked an index meanwhile (currentvectorpredicate, *)
(* _markindexbuilt, the triggers of the vector inputs).                    *)
THEOREM CleanIsComplete == Spec => []CleanMeansComplete
<1>1. Complete => CleanMeansComplete
  BY DEF Complete, Marks, CleanMeansComplete, MarkedClean
<1>2. Spec => []Complete
  BY CompleteStart, CompleteStep, Invariance, PTL DEF Spec
<1>3. QED
  BY <1>1, <1>2, PTL

=============================================================================
