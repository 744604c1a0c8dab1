---------------------------- MODULE Publication ----------------------------
(***************************************************************************)
(* Publication of a library: the semantic generations in SQLite, the       *)
(* manifest file that projects the published one, and the vector index of  *)
(* one embedding profile, which is a row in SQLite and a sidecar file next *)
(* to it.  Several processes have the library open for writing.            *)
(*                                                                         *)
(* A transaction (BEGIN IMMEDIATE to COMMIT) is one action.  So is a       *)
(* statement outside a transaction, and so is each step on a file: what    *)
(* is read in one of them may be stale in the next.  The manifest is the   *)
(* one place where a transaction stays open over file steps; the process   *)
(* that holds it is in writer.  A process may stop at any step; SQLite     *)
(* then drops its transaction and the files stay as they are.  A sidecar   *)
(* may be lost.                                                            *)
(*                                                                         *)
(* Abstractions: a source chunk with its embedding is one member, visible  *)
(* for the generations from first to before last; an index is its content, *)
(* because its identity and its file name are digests of it; a revision    *)
(* counter moves by one where the triggers may move it by more, since it   *)
(* is only compared for equality; one embedding profile.                   *)
(***************************************************************************)
EXTENDS Naturals, FiniteSets

CONSTANTS
    Publishers,      \* processes that publish generations or roll back
    Builders,        \* processes that build the vector index
    Members,         \* embedded chunks
    Settings,        \* index algorithm and training settings
    None,            \* no process, no file content, no index
    MaxGeneration,   \* model bound: generations ever published
    MaxRevision,     \* model bound: changes of the vector inputs
    Faults,          \* what may go wrong: "crash", "loss"
    MaxFaults        \* model bound: how often

ASSUME PublicationAssumption ==
    /\ MaxGeneration \in Nat \ {0}
    /\ MaxRevision \in Nat
    /\ Faults \subseteq {"crash", "loss"} /\ MaxFaults \in Nat
    /\ IsFiniteSet(Members)
    /\ Settings # {}
    /\ None \notin Publishers \cup Builders
    /\ None \notin Nat   \* a NULL is no revision

Procs == Publishers \cup Builders

Generations == 1 .. MaxGeneration

(* An index as its bytes tell it: the generation it was built for, what it *)
(* contains and how it was trained.                                        *)
Indexes == [built : Generations, members : SUBSET Members, setting : Settings]

(* Sidecar file names: vectors.<generation>.<index>. *)
Names == [gen : Generations, index : Indexes]

VARIABLES
    parent,     \* published_generations
    current,    \* library_meta.published_generation
    next,       \* library_meta.next_generation
    first,      \* visible_from_generation of a member, 0 if it does not exist
    last,       \* visible_to_generation of a member, 0 if NULL
    revision,   \* embedding_profiles.vector_revision
    rows,       \* vector_generations, by identity
    files,      \* installed sidecars; a file is whole or broken
    copies,     \* sidecars being copied, under their name with .new appended
    inputs,     \* build inputs that wait to be copied
    manifest,   \* manifest.json
    staged,     \* manifest.json.new
    writer,     \* the process that publishes the manifest, or None
    pc, job,    \* a process: its step and what it has read
    faults      \* what went wrong so far

treeVars   == <<parent, current, next>>
inputVars  == <<first, last, revision>>
fileVars   == <<files, copies, inputs>>
manifestVars == <<manifest, staged, writer>>
vars == <<treeVars, inputVars, rows, fileVars, manifestVars, pc, job, faults>>

Jobs == [base : Generations, rev : 0 .. MaxRevision, setting : Settings,
         count : 0 .. Cardinality(Members), index : Indexes \cup {None},
         gen : Generations, then : {"idle", "load", "remove", "mark"}]

Rows == [gen : Generations, state : {"published", "superseded"},
         marked : 0 .. MaxRevision \cup {None}]

Manifests == [gen : Generations, listed : SUBSET Indexes]

-----------------------------------------------------------------------------
(* Queries. *)

Register == INSTANCE GenerationRegister WITH tree <- parent, head <- current

Lineage(g) == Register!Lineage(parent, g)

Visible(g) ==
    {m \in Members : first[m] \in 1 .. g /\ (last[m] = 0 \/ last[m] > g)}

Published == {x \in DOMAIN rows : rows[x].state = "published"}

(* compatiblevectorpredicate: the newest published index of the lineage. *)
Compatible(g) ==
    LET line == Lineage(g)
        candidates == {x \in Published : rows[x].gen \in line}
    IN  {x \in candidates : \A y \in candidates : rows[y].gen <= rows[x].gen}

(* The same with exact_membership: what x was built for is what g shows. *)
Exact(g) ==
    {x \in Compatible(g) :
        rows[x].gen = g \/ Visible(rows[x].gen) = Visible(g)}

NameOf(x) == [gen |-> rows[x].gen, index |-> x]

Projection == [gen |-> current, listed |-> Compatible(current)]

(* manifeststate returns "aligned": no temporary, the published generation, *)
(* and the listed indexes are the compatible ones and have their files.    *)
Aligned ==
    /\ staged = None
    /\ manifest = Projection
    /\ \A x \in manifest.listed : NameOf(x) \in DOMAIN files

Whole(name) == name \in DOMAIN files /\ files[name] = "whole"

With(f, k, v) == [i \in DOMAIN f \cup {k} |-> IF i = k THEN v ELSE f[i]]

Without(f, name) == [n \in DOMAIN f \ {name} |-> f[n]]

-----------------------------------------------------------------------------
(* Steps of a process. *)

NoJob == [base |-> 1, rev |-> 0, setting |-> CHOOSE s \in Settings : TRUE,
          count |-> 0, index |-> None, gen |-> 1, then |-> "idle"]

Idle(p) == pc[p] = "idle"

(* The operation goes on at s, knowing j. *)
Go(p, s, j) == pc' = [pc EXCEPT ![p] = s] /\ job' = [job EXCEPT ![p] = j]

(* It returns, successful or not. *)
Return(p) == Go(p, "idle", NoJob)

(* It publishes the manifest and then goes on at s. *)
ThenManifest(p, s, j) == Go(p, "project", [j EXCEPT !.then = s])

Unlocked == writer = None

(* publishannvectorsidecar failed: its caller removes the build input. *)
DropInput(p) == inputs' = inputs \ {job[p].index}

NameFor(p) == [gen |-> job[p].gen, index |-> job[p].index]

Init ==
    /\ parent = [g \in {1} |-> 0] /\ current = 1 /\ next = 2
    /\ first = [m \in Members |-> 0] /\ last = [m \in Members |-> 0]
    /\ revision = 0
    /\ rows = << >>
    /\ files = << >> /\ copies = << >> /\ inputs = {}
    /\ manifest = [gen |-> 1, listed |-> {}] /\ staged = None /\ writer = None
    /\ pc = [p \in Procs |-> "idle"] /\ job = [p \in Procs |-> NoJob]
    /\ faults = 0

-----------------------------------------------------------------------------
(* Generations. *)

(* The base of a publication or a rollback is read before its transaction. *)
ReadBase(p) ==
    /\ Idle(p)
    /\ Go(p, "based", [NoJob EXCEPT !.base = current])
    /\ UNCHANGED <<treeVars, inputVars, rows, fileVars, manifestVars, faults>>

(* What a publication may do to one member of the generation it creates. *)
Keep == UNCHANGED <<first, last>>

Add(m) ==
    /\ first[m] = 0
    /\ first' = [first EXCEPT ![m] = next] /\ last' = last

Retire(m) ==
    /\ m \in Visible(current) /\ last[m] = 0
    /\ last' = [last EXCEPT ![m] = next] /\ first' = first

(* Trigger vector_dirty_generation_jump. *)
Jumps(old, new) == new < old \/ new > old + 1

(* The other triggers: any change of a member, or a jump, is a revision. *)
Dirtied ==
    /\ revision' = IF <<first, last>>' # <<first, last>> \/ Jumps(current, current')
                     THEN revision + 1 ELSE revision
    /\ revision' <= MaxRevision

(* Fault: the number after the published one is next, after a rollback too. *)
CommitReusedNumber(p) ==
    /\ pc[p] = "based" /\ Unlocked
    /\ job[p].base = current
    /\ current + 1 \in Generations
    /\ parent' = With(parent, current + 1, current)
    /\ current' = current + 1 /\ next' = current + 2
    /\ Keep /\ Dirtied
    /\ ThenManifest(p, "idle", job[p])
    /\ UNCHANGED <<rows, fileVars, manifestVars, faults>>

CommitGeneration(p) ==
    /\ pc[p] = "based" /\ Unlocked
    /\ job[p].base = current
    /\ next \in Generations
    /\ parent' = With(parent, next, current)
    /\ current' = next /\ next' = next + 1
    /\ Keep \/ \E m \in Members : Add(m) \/ Retire(m)
    /\ Dirtied
    /\ ThenManifest(p, "idle", job[p])
    /\ UNCHANGED <<rows, fileVars, manifestVars, faults>>

(* Fault: the target is not looked up among the published ancestors. *)
RollbackUnchecked(p) ==
    /\ pc[p] = "based" /\ Unlocked
    /\ job[p].base = current
    /\ current' \in Generations
    /\ Keep /\ Dirtied
    /\ ThenManifest(p, "idle", job[p])
    /\ UNCHANGED <<parent, next, rows, fileVars, manifestVars, faults>>

(* The target is a published generation of the lineage; it may be the head. *)
RollbackGeneration(p) ==
    /\ pc[p] = "based" /\ Unlocked
    /\ job[p].base = current
    /\ current' \in Lineage(current) \cap DOMAIN parent
    /\ Keep /\ Dirtied
    /\ ThenManifest(p, "idle", job[p])
    /\ UNCHANGED <<parent, next, rows, fileVars, manifestVars, faults>>

(* The published generation changed from the one that was read. *)
RefuseBase(p) ==
    /\ pc[p] = "based" /\ Unlocked
    /\ job[p].base # current
    /\ Return(p)
    /\ UNCHANGED <<treeVars, inputVars, rows, fileVars, manifestVars, faults>>

(* A stored or reused embedding is linked at the generation that its       *)
(* process read, which may have been replaced since.                       *)
LinkEmbedding(m, g) ==
    /\ Unlocked
    /\ g \in DOMAIN parent /\ first[m] = 0
    /\ first' = [first EXCEPT ![m] = g] /\ UNCHANGED <<treeVars, last>>
    /\ Dirtied
    /\ UNCHANGED <<rows, fileVars, manifestVars, pc, job, faults>>

InvalidateIndex ==
    /\ Unlocked
    /\ revision < MaxRevision /\ revision' = revision + 1
    /\ UNCHANGED <<treeVars, first, last, rows, fileVars, manifestVars, pc,
                   job, faults>>

-----------------------------------------------------------------------------
(* The manifest: the lock is taken and the projection written to a         *)
(* temporary, which is renamed.  The transaction changed nothing, so its   *)
(* COMMIT is part of the rename.                                           *)

(* Fault: the projection is written without the lock. *)
WriteManifestUnlocked(p) ==
    /\ pc[p] = "project"
    /\ staged' = Projection
    /\ Go(p, "rename", job[p])
    /\ UNCHANGED <<treeVars, inputVars, rows, fileVars, manifest, writer, faults>>

WriteManifest(p) ==
    /\ pc[p] = "project" /\ Unlocked
    /\ writer' = p /\ staged' = Projection
    /\ Go(p, "rename", job[p])
    /\ UNCHANGED <<treeVars, inputVars, rows, fileVars, manifest, faults>>

RenameManifest(p) ==
    /\ pc[p] = "rename"
    /\ manifest' = staged /\ staged' = None /\ writer' = None
    /\ IF job[p].then = "idle" THEN Return(p)
                               ELSE Go(p, job[p].then, job[p])
    /\ UNCHANGED <<treeVars, inputVars, rows, fileVars, faults>>

-----------------------------------------------------------------------------
(* buildannvectorgeneration. *)

StartBuild(p) ==
    /\ Idle(p)
    /\ \E s \in Settings :
          Go(p, "revision", [NoJob EXCEPT !.base = current, !.setting = s])
    /\ UNCHANGED <<treeVars, inputVars, rows, fileVars, manifestVars, faults>>

ReadRevision(p) ==
    /\ pc[p] = "revision"
    /\ Go(p, "reuse", [job[p] EXCEPT !.rev = revision])
    /\ UNCHANGED <<treeVars, inputVars, rows, fileVars, manifestVars, faults>>

(* _reusecleanindex: an index marked with this revision is not built again. *)
Clean(j) ==
    {x \in Compatible(j.base) :
        /\ rows[x].marked = j.rev /\ x.setting = j.setting
        /\ Whole(NameOf(x))}

ReuseClean(p) ==
    /\ pc[p] = "reuse"
    /\ \/ Clean(job[p]) = {} /\ Go(p, "align", job[p])
       \/ Clean(job[p]) # {} /\ Aligned /\ Return(p)
       \/ Clean(job[p]) # {} /\ ~Aligned /\ ThenManifest(p, "idle", job[p])
    /\ UNCHANGED <<treeVars, inputVars, rows, fileVars, manifestVars, faults>>

(* The members are counted and the manifest is repaired before they are read. *)
AlignManifest(p) ==
    /\ pc[p] = "align"
    /\ LET counted == [job[p] EXCEPT !.count = Cardinality(Visible(job[p].base))]
       IN  \/ counted.count = 0 /\ Return(p)
           \/ counted.count > 0 /\ Aligned /\ Go(p, "load", counted)
           \/ counted.count > 0 /\ ~Aligned /\ ThenManifest(p, "load", counted)
    /\ UNCHANGED <<treeVars, inputVars, rows, fileVars, manifestVars, faults>>

LoadMatrix(p) ==
    /\ pc[p] = "load"
    /\ LET read == Visible(job[p].base)
       IN  \/ Cardinality(read) # job[p].count /\ Return(p)
           \/ /\ Cardinality(read) = job[p].count
              /\ Go(p, "lookup", [job[p] EXCEPT !.index =
                    [built |-> job[p].base, members |-> read,
                     setting |-> job[p].setting]])
    /\ UNCHANGED <<treeVars, inputVars, rows, fileVars, manifestVars, faults>>

(* An older index with exactly these members and this training is replayed *)
(* under its own generation; otherwise the new bytes stand for themselves. *)
Replay(j) ==
    LET older(x) == [j.index EXCEPT !.built = rows[x].gen]
        same == {x \in Exact(j.base) : older(x) = x}
    IN  IF same # {} THEN CHOOSE x \in same : TRUE ELSE j.index

(* A row with this identity at the generation it was built for is reused;  *)
(* otherwise the bytes are written as the input of a publication.          *)
LookupIndex(p) ==
    /\ pc[p] = "lookup"
    /\ LET found == [job[p] EXCEPT !.index = Replay(job[p])]
           x == found.index
           known == x \in DOMAIN rows /\ rows[x].gen = x.built
       IN  \/ known /\ Whole(NameOf(x)) /\ Go(p, "reactivate", found) /\ UNCHANGED inputs
           \/ known /\ ~Whole(NameOf(x)) /\ Go(p, "restore", found) /\ UNCHANGED inputs
           \/ ~known /\ Go(p, "prepare", found) /\ inputs' = inputs \cup {x}
    /\ UNCHANGED <<treeVars, inputVars, rows, files, copies, manifestVars, faults>>

(* _restorederivedsidecar, under the writer lock. *)
RestoreSidecar(p) ==
    /\ pc[p] = "restore" /\ Unlocked
    /\ LET x == job[p].index
           valid == /\ current = job[p].base
                    /\ x \in DOMAIN rows /\ rows[x].gen = x.built
                    /\ x.built = current \/ x \in Exact(current)
       IN  \/ valid /\ files' = With(files, NameOf(x), "whole") /\ Go(p, "reactivate", job[p])
           \/ ~valid /\ Return(p) /\ UNCHANGED files
    /\ UNCHANGED <<treeVars, inputVars, rows, copies, inputs, manifestVars, faults>>

(* Fault: the index that served the generation stays published. *)
ServeToo(table, x) == [table EXCEPT ![x].state = "published"]

(* x serves its generation; the index that did is superseded. *)
Serve(table, x) ==
    [y \in DOMAIN table |->
        IF y = x THEN [table[y] EXCEPT !.state = "published"]
        ELSE IF table[y].gen = table[x].gen
             THEN [table[y] EXCEPT !.state = "superseded"] ELSE table[y]]

(* reactivatesidecar refuses when the inputs changed since they were read. *)
ReactivateSidecar(p) ==
    /\ pc[p] = "reactivate" /\ Unlocked
    /\ LET x == job[p].index
           valid == /\ current = job[p].base /\ revision = job[p].rev
                    /\ x \in DOMAIN rows
       IN  \/ valid /\ rows' = Serve(rows, x) /\ ThenManifest(p, "mark", job[p])
           \/ ~valid /\ Return(p) /\ UNCHANGED rows
    /\ UNCHANGED <<treeVars, inputVars, fileVars, manifestVars, faults>>

(* _preparesidecar reads the generation anew and names the file after it. *)
PrepareSidecar(p) ==
    /\ pc[p] = "prepare"
    /\ LET named == [job[p] EXCEPT !.gen = current]
           target == [gen |-> current, index |-> named.index]
           free == /\ Aligned /\ named.index \in inputs
                   /\ target \notin DOMAIN files \cup DOMAIN copies
       IN  \/ free /\ Go(p, "append", named) /\ UNCHANGED inputs
           \/ ~free /\ Return(p) /\ DropInput(p)
    /\ UNCHANGED <<treeVars, inputVars, rows, files, copies, manifestVars, faults>>

(* The input is appended to the copy: a copy that another process began    *)
(* meanwhile is broken, and an input that another process removed ends it. *)
AppendCopy(p) ==
    /\ pc[p] = "append"
    /\ \/ /\ job[p].index \in inputs
          /\ copies' = With(copies, NameFor(p),
                         IF NameFor(p) \in DOMAIN copies THEN "broken" ELSE "whole")
          /\ Go(p, "install", job[p]) /\ UNCHANGED inputs
       \/ /\ job[p].index \notin inputs
          /\ copies' = Without(copies, NameFor(p))
          /\ Return(p) /\ DropInput(p)
    /\ UNCHANGED <<treeVars, inputVars, rows, files, manifestVars, faults>>

(* installsidecar looks at both names and then renames. *)
CheckInstall(p) ==
    /\ pc[p] = "install"
    /\ LET free == NameFor(p) \in DOMAIN copies /\ NameFor(p) \notin DOMAIN files
       IN  \/ free /\ Go(p, "move", job[p]) /\ UNCHANGED <<copies, inputs>>
           \/ ~free /\ Return(p) /\ DropInput(p)
              /\ copies' = Without(copies, NameFor(p))
    /\ UNCHANGED <<treeVars, inputVars, rows, files, manifestVars, faults>>

RenameCopy(p) ==
    /\ pc[p] = "move"
    /\ copies' = Without(copies, NameFor(p))
    /\ \/ /\ NameFor(p) \in DOMAIN copies
          /\ files' = With(files, NameFor(p), copies[NameFor(p)])
          /\ Go(p, "commit", job[p]) /\ UNCHANGED inputs
       \/ /\ NameFor(p) \notin DOMAIN copies
          /\ Return(p) /\ DropInput(p) /\ UNCHANGED files
    /\ UNCHANGED <<treeVars, inputVars, rows, manifestVars, faults>>

(* commitsidecar inserts the row as the one that serves its generation.    *)
(* When it cannot, its caller removes the file it installed.               *)
CommitSidecar(p) ==
    /\ pc[p] = "commit" /\ Unlocked
    /\ LET x == job[p].index
           row == [gen |-> job[p].gen, state |-> "published", marked |-> None]
           valid == /\ NameFor(p) \in DOMAIN files
                    /\ current = job[p].gen /\ x \notin DOMAIN rows
       IN  \/ /\ valid /\ rows' = Serve(With(rows, x, row), x)
              /\ ThenManifest(p, "remove", job[p]) /\ UNCHANGED <<files, inputs>>
           \/ /\ ~valid /\ Return(p) /\ DropInput(p)
              /\ files' = Without(files, NameFor(p)) /\ UNCHANGED rows
    /\ UNCHANGED <<treeVars, inputVars, copies, manifestVars, faults>>

(* An input that is already gone is an error, and the index stays unmarked. *)
RemoveInput(p) ==
    /\ pc[p] = "remove"
    /\ IF job[p].index \in inputs THEN Go(p, "mark", job[p]) ELSE Return(p)
    /\ DropInput(p)
    /\ UNCHANGED <<treeVars, inputVars, rows, files, copies, manifestVars, faults>>

(* Fault: the revision of the end of the build is recorded. *)
MarkIndexLate(p) ==
    /\ pc[p] = "mark" /\ Unlocked
    /\ rows' = [rows EXCEPT ![job[p].index].marked = revision]
    /\ Return(p)
    /\ UNCHANGED <<treeVars, inputVars, fileVars, manifestVars, faults>>

(* _markindexbuilt records the revision that was read at the start. *)
MarkIndexBuilt(p) ==
    /\ pc[p] = "mark" /\ Unlocked
    /\ rows' = [rows EXCEPT ![job[p].index].marked = job[p].rev]
    /\ Return(p)
    /\ UNCHANGED <<treeVars, inputVars, fileVars, manifestVars, faults>>

-----------------------------------------------------------------------------
(* The lock stays busy for longer than the busy timeout: the operation     *)
(* fails and cleans up behind itself.                                      *)
BusyTimeout(p) ==
    /\ ~Unlocked
    /\ pc[p] \in {"based", "project", "restore", "reactivate",
                  "commit", "mark"}
    /\ Return(p)
    /\ IF pc[p] = "commit" THEN files' = Without(files, NameFor(p))
                           ELSE UNCHANGED files
    /\ IF pc[p] = "commit" \/ (pc[p] = "project" /\ job[p].then = "remove")
         THEN DropInput(p) ELSE UNCHANGED inputs
    /\ UNCHANGED <<treeVars, inputVars, rows, copies, manifestVars, faults>>

Fault(kind) ==
    /\ kind \in Faults /\ faults < MaxFaults /\ faults' = faults + 1

(* The process stops.  Its transaction is gone, its files are not. *)
Crash(p) ==
    /\ ~Idle(p)
    /\ Fault("crash")
    /\ writer' = IF writer = p THEN None ELSE writer
    /\ Return(p)
    /\ UNCHANGED <<treeVars, inputVars, rows, fileVars, manifest, staged>>

(* Somebody removes an installed sidecar. *)
LoseSidecar(name) ==
    /\ name \in DOMAIN files /\ Fault("loss")
    /\ files' = Without(files, name)
    /\ UNCHANGED <<treeVars, inputVars, rows, copies, inputs, manifestVars, pc, job>>

Publish(p) == ReadBase(p) \/ CommitGeneration(p) \/ RollbackGeneration(p)
                \/ RefuseBase(p)

PublishManifest(p) == WriteManifest(p) \/ RenameManifest(p)

Build(p) ==
    \/ StartBuild(p) \/ ReadRevision(p) \/ ReuseClean(p) \/ AlignManifest(p)
    \/ LoadMatrix(p) \/ LookupIndex(p)
    \/ RestoreSidecar(p) \/ ReactivateSidecar(p)
    \/ PrepareSidecar(p) \/ AppendCopy(p) \/ CheckInstall(p) \/ RenameCopy(p)
    \/ CommitSidecar(p) \/ RemoveInput(p) \/ MarkIndexBuilt(p)

Next ==
    \/ \E p \in Publishers : Publish(p)
    \/ \E p \in Builders : Build(p)
    \/ \E p \in Procs : PublishManifest(p) \/ BusyTimeout(p) \/ Crash(p)
    \/ \E m \in Members, g \in Generations : LinkEmbedding(m, g)
    \/ InvalidateIndex
    \/ \E name \in DOMAIN files : LoseSidecar(name)

Spec == Init /\ [][Next]_vars

-----------------------------------------------------------------------------
(* Properties. *)

TreeOK ==
    /\ DOMAIN parent \subseteq Generations /\ current \in DOMAIN parent
    /\ \A g \in DOMAIN parent : parent[g] \in 0 .. MaxGeneration
    /\ next \in 2 .. MaxGeneration + 1

InputsOK ==
    /\ first \in [Members -> 0 .. MaxGeneration]
    /\ last \in [Members -> 0 .. MaxGeneration]
    /\ revision \in 0 .. MaxRevision

FilesOK ==
    /\ DOMAIN files \subseteq Names /\ DOMAIN copies \subseteq Names
    /\ \A n \in DOMAIN files : files[n] \in {"whole", "broken"}
    /\ \A n \in DOMAIN copies : copies[n] \in {"whole", "broken"}
    /\ inputs \subseteq Indexes

Steps == {"idle", "based", "project", "rename", "revision", "reuse", "align", "load", "lookup", "restore",
          "reactivate", "prepare", "append", "install", "move", "commit",
          "remove", "mark"}

(* Every variable has its type (the schema's columns, the file names). *)
TypeOK ==
    /\ TreeOK /\ InputsOK /\ FilesOK
    /\ DOMAIN rows \subseteq Indexes /\ \A x \in DOMAIN rows : rows[x] \in Rows
    /\ manifest \in Manifests /\ staged \in Manifests \cup {None}
    /\ writer \in Procs \cup {None}
    /\ pc \in [Procs -> Steps] /\ job \in [Procs -> Jobs]
    /\ faults \in 0 .. MaxFaults

(* Generations form a tree that grows at its head, and a rollback moves    *)
(* only to an ancestor (begingeneration, commitgeneration,                 *)
(* rollbackgeneration), whatever base a process read before: a number is   *)
(* not used twice, after a rollback either, and no generation is lost.     *)
RegisterPromise == Register!RegisterSpec

(* Whenever manifest.json is replaced, it becomes the projection of what   *)
(* SQLite says at that moment, whoever stopped, was late or came before    *)
(* (publishmanifest: "A delayed publisher cannot overwrite a newer         *)
(* manifest or remove another publisher's temporary file").                *)
ManifestIsCurrent == [][manifest' # manifest => manifest' = Projection']_vars

(* For every generation a reader may have pinned at most one index serves, *)
(* through builds, reactivations and rollbacks; retrieval gives up when    *)
(* there are two ("ANN generation identity is ambiguous").                 *)
OneServingIndex ==
    \A g \in DOMAIN parent : Cardinality(Compatible(g)) <= 1

MarkedClean(x) == x \in Compatible(current) /\ rows[x].marked = revision

(* An index that is filed under the generation it was built for and that   *)
(* is marked with the present revision (currentvectorpredicate) contains   *)
(* what the library shows now: no link, publication or rollback since the  *)
(* build went unnoticed.  A clean index is not built again.                *)
CleanMeansComplete ==
    \A x \in DOMAIN rows :
        MarkedClean(x) /\ x.built = rows[x].gen => x.members = Visible(current)

=============================================================================
