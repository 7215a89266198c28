----------------------------- MODULE NodeLibrary ------------------------------
(***************************************************************************)
(* The library of nodes: the rows of the `nodes` table, one per name and   *)
(* version, the directories <name>@<version> that hold the files of the    *)
(* imported ones, and the references that workflows make to them.          *)
(*                                                                         *)
(* An import writes a temporary directory file by file, removes the old    *)
(* directory, renames the temporary one, and only then looks at the        *)
(* database.  The name of the temporary directory is made of name, version *)
(* and process id, so two imports of one version share it.  A deletion     *)
(* reads the row, the latest version and the workflows in three            *)
(* statements, deletes the row and then removes the directory.  Nothing    *)
(* locks any of this.  The server sweeps the directories when it starts.   *)
(*                                                                         *)
(* Simplifications: a package is a model value that names the contents of  *)
(* all its files; every file of a package is a runtime file; SQL           *)
(* statements, mkdir, write and remove do not fail; a node created or      *)
(* updated by the API carries no index of its own.                         *)
(***************************************************************************)
EXTENDS NodeVersions, FiniteSets

CONSTANTS
    Names, Versions,
    Files,        \* paths inside a package
    Packages,     \* packages on the disk of the user or in git
    RefOf,        \* RefOf[p]: the name and version that flowx.json declares
    Workflows,    \* workflow ids
    Saves,        \* the sets of references that a saved workflow may make
    Clients,      \* concurrent HTTP requests
    Ops,          \* the operations they ask for
    MaxId,        \* bound: rows ever inserted (ids are never used again)
    MaxCalls,     \* bound: requests
    MaxSaves,     \* bound: saves of a workflow
    MaxCrashes,   \* bound: server restarts
    NoPackage,    \* no index, no content
    Gone,         \* no row
    Bare          \* the version of a reference that names none

Refs == [name : Names, version : Versions]
Ids  == 1 .. MaxId
NodeRef == [name : Names, version : Versions \cup {Bare}]
AllOps == {"import", "overwrite", "create", "update", "delete"}

ASSUME LibraryAssumption ==
    /\ \A v \in Versions : IsVersion(v)
    /\ Files # {}
    /\ RefOf \in [Packages -> Refs]
    /\ Ops \subseteq AllOps /\ Saves \subseteq SUBSET NodeRef
    /\ MaxId \in Nat \ {0} /\ MaxCalls \in Nat /\ MaxSaves \in Nat /\ MaxCrashes \in Nat
    /\ NoPackage \notin Packages /\ Bare \notin Versions /\ Refs # {}

Row == [ref : Refs, index : Packages \cup {NoPackage}]
ASSUME GoneIsNoRow == Gone \notin Row

\* Which package each file of a directory comes from.
Directory == [Files -> Packages \cup {NoPackage}]
Absent    == [f \in Files |-> NoPackage]
Whole(p)  == [f \in Files |-> p]

VARIABLES
    row,       \* the nodes table; ids that were never used are in free
    free,
    dir, tmp,  \* <name>@<version> and <name>@<version>.tmp-<pid>
    uses,      \* uses[w]: the references in the YAML of workflow w
    at, job,   \* request: where it stands, what it works on
    calls, saves, crashes,
    disturbed  \* history: another request has written since this one began

data == <<row, free, dir, tmp, uses>>
vars == <<data, at, job, calls, saves, crashes, disturbed>>

At  == {"idle", "write", "activate", "lookup", "insert", "replace",
        "rewrite", "latest", "scan", "delete", "remove"}
Job == [op : AllOps, package : Packages \cup {NoPackage}, todo : SUBSET Files,
        id : Ids, ref : Refs, index : Packages \cup {NoPackage}, bareTarget : BOOLEAN]

TypeOK ==
    /\ row \in [Ids -> Row \cup {Gone}] /\ free \subseteq Ids
    /\ dir \in [Refs -> Directory] /\ tmp \in [Refs -> Directory]
    /\ uses \in [Workflows -> SUBSET NodeRef]
    /\ at \in [Clients -> At] /\ job \in [Clients -> Job]
    /\ \A c \in Clients : at[c] # "write" => job[c].todo = {}
    /\ calls \in 0 .. MaxCalls /\ saves \in 0 .. MaxSaves /\ crashes \in 0 .. MaxCrashes
    /\ disturbed \in [Clients -> BOOLEAN]

Present == {i \in Ids : row[i] # Gone}
Taken(ref, but) == \E i \in Present \ but : row[i].ref = ref

NoJob == [op |-> "create", package |-> NoPackage, todo |-> {}, id |-> 1,
          ref |-> CHOOSE r \in Refs : TRUE, index |-> NoPackage, bareTarget |-> FALSE]

Init ==
    /\ row = [i \in Ids |-> Gone] /\ free = Ids
    /\ dir = [r \in Refs |-> Absent] /\ tmp = [r \in Refs |-> Absent]
    /\ uses = [w \in Workflows |-> {}]
    /\ at = [c \in Clients |-> "idle"] /\ job = [c \in Clients |-> NoJob]
    /\ calls = 0 /\ saves = 0 /\ crashes = 0
    /\ disturbed = [c \in Clients |-> FALSE]

-----------------------------------------------------------------------------
(* Look-ups                                                                *)

\* GetByRef without a version: a scan of the rows that keeps the newest.
Newest(table, name) ==
    LET newer(i, j) ==
          IF table[j] = Gone \/ table[j].ref.name # name THEN i
          ELSE IF i = 0 \/ CompareNodeVersions(table[j].ref.version, table[i].ref.version) # "older"
          THEN j ELSE i
    IN  FoldLeft(newer, 0, [i \in Ids |-> i])

Latest(name) == Newest(row, name)

\* The rows that a reference in a workflow resolves to when it runs.
Resolves(ref) ==
    {i \in Present : /\ row[i].ref.name = ref.name
                     /\ IF ref.version = Bare THEN i = Latest(ref.name)
                        ELSE row[i].ref.version = ref.version}

-----------------------------------------------------------------------------
(* Requests                                                                *)

Steps(c, from, to) == at[c] = from /\ at' = [at EXCEPT ![c] = to]

Begins(c, op, to, j) ==
    /\ op \in Ops /\ calls < MaxCalls /\ calls' = calls + 1
    /\ Steps(c, "idle", to)
    /\ job' = [job EXCEPT ![c] = [j EXCEPT !.op = op]]

\* Put: the temporary directory is removed, then written file by file.
ImportBegin(c, op, p) ==
    /\ op \in {"import", "overwrite"}
    /\ Begins(c, op, "write", [NoJob EXCEPT !.package = p, !.ref = RefOf[p], !.todo = Files])
    /\ tmp' = [tmp EXCEPT ![RefOf[p]] = Absent]
    /\ UNCHANGED <<row, free, dir, uses>>

ImportFile(c, f) ==
    /\ at[c] = "write" /\ f \in job[c].todo
    /\ tmp' = [tmp EXCEPT ![job[c].ref][f] = job[c].package]
    /\ job' = [job EXCEPT ![c].todo = @ \ {f}]
    /\ UNCHANGED <<at, row, free, dir, uses, calls>>

\* Mutant: the directory is activated before its last file is written.
ImportClearEarly(c) ==
    /\ Steps(c, "write", "activate")
    /\ dir' = [dir EXCEPT ![job[c].ref] = Absent]
    /\ UNCHANGED <<row, free, tmp, uses, job, calls>>

ImportClear(c) ==
    /\ Steps(c, "write", "activate") /\ job[c].todo = {}
    /\ dir' = [dir EXCEPT ![job[c].ref] = Absent]
    /\ UNCHANGED <<row, free, tmp, uses, job, calls>>

\* rename(2) fails when the source is gone or the target is not empty.
ImportActivate(c) ==
    LET r == job[c].ref
        renames == tmp[r] # Absent /\ dir[r] = Absent
    IN  /\ Steps(c, "activate", IF renames THEN "lookup" ELSE "idle")
        /\ dir' = IF renames THEN [dir EXCEPT ![r] = tmp[r]] ELSE dir
        /\ tmp' = [tmp EXCEPT ![r] = Absent]
        /\ UNCHANGED <<row, free, uses, job, calls>>

\* The mock file cannot be read: the import fails with its files in place.
ImportFails(c) ==
    /\ Steps(c, "lookup", "idle")
    /\ UNCHANGED <<data, job, calls>>

ImportLookup(c) ==
    /\ IF Taken(job[c].ref, {})
       THEN \E i \in Resolves(job[c].ref) :
              /\ Steps(c, "lookup", IF job[c].op = "overwrite" THEN "replace" ELSE "idle")
              /\ job' = [job EXCEPT ![c].id = i]
       ELSE Steps(c, "lookup", "insert") /\ UNCHANGED job
    /\ UNCHANGED <<data, calls>>

\* Mutant: the row keeps the index that it had.
ImportReplaceKeepsIndex(c) ==
    LET i == job[c].id
    IN  /\ Steps(c, "replace", "idle")
        /\ row' = IF i \in Present /\ ~Taken(job[c].ref, {i})
                  THEN [row EXCEPT ![i].ref = job[c].ref]
                  ELSE row
        /\ UNCHANGED <<free, dir, tmp, uses, job, calls>>

\* Update with the id found, refused when the row is gone.
ImportReplace(c) ==
    LET i == job[c].id
    IN  /\ Steps(c, "replace", "idle")
        /\ row' = IF i \in Present /\ ~Taken(job[c].ref, {i})
                  THEN [row EXCEPT ![i] = [ref |-> job[c].ref, index |-> job[c].package]]
                  ELSE row
        /\ UNCHANGED <<free, dir, tmp, uses, job, calls>>

\* INSERT, refused by UNIQUE (name, version).
Insert(ref, index) ==
    IF Taken(ref, {}) THEN UNCHANGED <<row, free>>
    ELSE \E i \in free :
           /\ \A j \in free : i <= j
           /\ free' = free \ {i}
           /\ row' = [row EXCEPT ![i] = [ref |-> ref, index |-> index]]

ImportInsert(c) ==
    /\ Steps(c, "insert", "idle")
    /\ Insert(job[c].ref, job[c].package)
    /\ UNCHANGED <<dir, tmp, uses, job, calls>>

\* POST /nodes: a node of the API has no files.
Create(ref) ==
    /\ "create" \in Ops /\ calls < MaxCalls /\ calls' = calls + 1
    /\ ~Taken(ref, {})
    /\ Insert(ref, NoPackage)
    /\ UNCHANGED <<dir, tmp, uses, at, job>>

\* PUT /nodes/:id: the index is read, and written back with the new name
\* and version.
UpdateRead(c, i, ref) ==
    /\ i \in Present
    /\ Begins(c, "update", "rewrite", [NoJob EXCEPT !.id = i, !.ref = ref, !.index = row[i].index])
    /\ UNCHANGED data

UpdateWrite(c) ==
    LET i == job[c].id
    IN  /\ Steps(c, "rewrite", "idle")
        /\ row' = IF i \in Present /\ ~Taken(job[c].ref, {i})
                  THEN [row EXCEPT ![i] = [ref |-> job[c].ref, index |-> job[c].index]]
                  ELSE row
        /\ UNCHANGED <<free, dir, tmp, uses, job, calls>>

DeleteRead(c, i) ==
    /\ i \in Present
    /\ Begins(c, "delete", "latest", [NoJob EXCEPT !.id = i, !.ref = row[i].ref])
    /\ UNCHANGED data

DeleteLatest(c) ==
    /\ Steps(c, "latest", "scan")
    /\ job' = [job EXCEPT ![c].bareTarget = (Latest(job[c].ref.name) = job[c].id)]
    /\ UNCHANGED <<data, calls>>

\* Mutant: a bare reference protects no version.
IsReferencedExactly(c) == \E w \in Workflows : job[c].ref \in uses[w]

IsReferenced(c) ==
    \E w \in Workflows, ref \in NodeRef :
      /\ ref \in uses[w] /\ ref.name = job[c].ref.name
      /\ IF ref.version = Bare THEN job[c].bareTarget ELSE ref.version = job[c].ref.version

DeleteScan(c) ==
    /\ Steps(c, "scan", IF IsReferenced(c) THEN "idle" ELSE "delete")
    /\ UNCHANGED <<data, job, calls>>

DeleteRow(c) ==
    /\ Steps(c, "delete", "remove")
    /\ row' = [row EXCEPT ![job[c].id] = Gone]
    /\ UNCHANGED <<free, dir, tmp, uses, job, calls>>

\* The directory goes whether or not the row was still there.
DeleteFiles(c) ==
    /\ Steps(c, "remove", "idle")
    /\ dir' = [dir EXCEPT ![job[c].ref] = Absent]
    /\ UNCHANGED <<row, free, tmp, uses, job, calls>>

-----------------------------------------------------------------------------
(* Workflows, restarts                                                     *)

\* Nothing checks that the nodes of a workflow that is saved exist.
SaveWorkflow(w, refs) ==
    /\ saves < MaxSaves /\ saves' = saves + 1
    /\ uses' = [uses EXCEPT ![w] = refs]
    /\ UNCHANGED <<row, free, dir, tmp, at, job, calls, crashes>>

\* Mutant: the sweep keeps the directories of imported nodes only by name.
LiveLatest == {row[i].ref : i \in {Latest(n) : n \in Names} \ {0}}

Live == {row[i].ref : i \in Present}

\* The requests are lost; the next start removes the directories that no
\* row owns, and the temporary ones.
GCAssets ==
    /\ crashes < MaxCrashes /\ crashes' = crashes + 1
    /\ dir' = [r \in Refs |-> IF r \in Live THEN dir[r] ELSE Absent]
    /\ tmp' = [r \in Refs |-> Absent]
    /\ at' = [c \in Clients |-> "idle"] /\ job' = [c \in Clients |-> NoJob]
    /\ UNCHANGED <<row, free, uses, calls, saves>>

Request(c) ==
    \/ \E op \in AllOps, p \in Packages : ImportBegin(c, op, p)
    \/ \E f \in Files : ImportFile(c, f)
    \/ ImportClear(c) \/ ImportActivate(c) \/ ImportFails(c) \/ ImportLookup(c)
    \/ ImportReplace(c) \/ ImportInsert(c)
    \/ \E i \in Ids, ref \in Refs : UpdateRead(c, i, ref)
    \/ UpdateWrite(c)
    \/ \E i \in Ids : DeleteRead(c, i)
    \/ DeleteLatest(c) \/ DeleteScan(c) \/ DeleteRow(c) \/ DeleteFiles(c)

\* The write disturbs every other request that has begun and not ended.
Disturb(others) ==
    disturbed' = [d \in Clients |->
                    /\ at[d] # "idle" /\ at'[d] # "idle"
                    /\ disturbed[d] \/ (d \in others /\ data' # data)]

Next ==
    \/ \E c \in Clients :
         Request(c) /\ UNCHANGED <<saves, crashes>> /\ Disturb(Clients \ {c})
    \/ \E ref \in Refs : Create(ref) /\ UNCHANGED <<saves, crashes>> /\ Disturb(Clients)
    \/ \E w \in Workflows, refs \in Saves : SaveWorkflow(w, refs) /\ Disturb(Clients)
    \/ GCAssets /\ Disturb({})

Spec == Init /\ [][Next]_vars

-----------------------------------------------------------------------------
(* Properties                                                              *)

Agrees(i) == dir[row[i].ref] = Whole(row[i].index)

\* c ends, and not because the server restarts.
Ends(c, from) == at[c] = from /\ at'[c] = "idle" /\ crashes' = crashes

(* An import that stores its node, and that no other request has           *)
(* disturbed, leaves one row of that name and version that lists the       *)
(* package, and the whole package and nothing else in the directory,       *)
(* whatever earlier crashes, deletions and imports left on the disk        *)
(* (importFromPath, Put).                                                  *)
ImportsAreWhole ==
    [][\A c \in Clients :
         (Ends(c, "replace") \/ Ends(c, "insert")) /\ ~disturbed[c]
           => \E i \in Present' : /\ row'[i] = [ref |-> job[c].ref, index |-> job[c].package]
                                  /\ Agrees(i)']_vars

(* A row disappears while a workflow still resolves to it only if somebody *)
(* wrote between the first check of the deletion and the DELETE: the exact *)
(* references and the bare ones, through the version that is the latest at *)
(* that moment, are all seen (Delete, findReferencingWorkflows).           *)
ReferencedNodesStay ==
    [][\A w \in Workflows : \A ref \in uses[w] : \A i \in Resolves(ref) :
         row'[i] = Gone => \E c \in Clients :
                             at[c] = "delete" /\ job[c].id = i /\ disturbed[c]]_vars

(* The sweep at the start of the server takes nothing from a node: a row   *)
(* whose files are all there keeps them, and a directory that stays has an *)
(* owner (GCAssets).                                                       *)
SweepKeepsTheOwned ==
    [][crashes' # crashes =>
         /\ \A i \in Present : Agrees(i) => Agrees(i)'
         /\ \A r \in Refs : dir'[r] # Absent => Taken(r, {})']_vars

=============================================================================
