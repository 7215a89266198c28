---------------------------- MODULE StoreProofs -----------------------------
(***************************************************************************)
(* What the server keeps beside its tables agrees with them: the           *)
(* directories of the nodes, and the cache in front of the metadata of     *)
(* executions.                                                             *)
(***************************************************************************)
EXTENDS NodeLibrary, ExecutionMetadata, TLAPS

(***************************************************************************)
(* The library of nodes.                                                   *)
(*                                                                         *)
(* A request that no other one disturbs does what it promises, for any     *)
(* number of nodes, versions, files, packages, workflows and concurrent    *)
(* requests, and whatever crashes have left on the disk: an import stores  *)
(* one whole package, a deletion takes no node that is referenced.         *)
(*                                                                         *)
(* The invariant says, for each place where a request can stand, what it   *)
(* has established about the rows and the directories as long as nobody    *)
(* else has written.                                                       *)
(***************************************************************************)
USE LibraryAssumption, GoneIsNoRow

UniqueRefs == \A i, j \in Present : row[i].ref = row[j].ref => i = j

Importing == {"write", "activate", "lookup", "insert", "replace"}

\* What c knows of the package and the disk, then of the row it found, ...
HasWritten(c) ==
    /\ at[c] = "write" =>
         \A f \in Files : f \notin job[c].todo => tmp[job[c].ref][f] = job[c].package
    /\ at[c] = "activate" => tmp[job[c].ref] = Whole(job[c].package)
    /\ at[c] \in {"lookup", "insert", "replace"} => dir[job[c].ref] = Whole(job[c].package)
    /\ at[c] = "insert" => ~Taken(job[c].ref, {})

HasFound(c) ==
    at[c] \in {"replace", "latest", "scan", "delete"} =>
        job[c].id \in Present /\ row[job[c].id].ref = job[c].ref

\* ... and of the references.
HasChecked(c) ==
    /\ at[c] \in {"scan", "delete"} =>
         job[c].bareTarget = (Latest(job[c].ref.name) = job[c].id)
    /\ at[c] = "delete" => ~IsReferenced(c)

Sound(c) == ~disturbed[c] => HasWritten(c) /\ HasFound(c) /\ HasChecked(c)

PackageKnown == \A c \in Clients : at[c] \in Importing => job[c].package \in Packages

LInv == TypeOK /\ UniqueRefs /\ PackageKnown /\ \A c \in Clients : Sound(c)

-----------------------------------------------------------------------------
LEMMA DirectoryTypes ==
    /\ Absent \in Directory
    /\ \A p \in Packages \cup {NoPackage} : Whole(p) \in Directory
BY DEF Absent, Whole, Directory

LEMMA NoJobType == NoJob \in Job /\ NoJob.todo = {}
<1>1. (CHOOSE r \in Refs : TRUE) \in Refs  OBVIOUS
<1>2. 1 \in Ids  BY DEF Ids
<1>. QED  BY <1>1, <1>2 DEF NoJob, Job, AllOps

LEMMA RefsAreEqual ==
    ASSUME NEW r \in Refs, NEW s \in Refs, r.name = s.name, r.version = s.version
    PROVE  r = s
BY DEF Refs

(* The steps of one request leave where the others stand alone.            *)
LEMMA OthersStay ==
    ASSUME NEW c \in Clients, NEW d \in Clients, TypeOK, Request(c), c # d
    PROVE  at'[d] = at[d] /\ job'[d] = job[d]
<1>1. at \in [Clients -> At] /\ job \in [Clients -> Job]  BY DEF TypeOK
<1>2. CASE \E op \in AllOps, p \in Packages : ImportBegin(c, op, p)
  BY <1>1, <1>2 DEF ImportBegin, Begins, Steps
<1>3. CASE \E f \in Files : ImportFile(c, f)
  BY <1>1, <1>3 DEF ImportFile
<1>4. CASE ImportClear(c) \/ ImportActivate(c) \/ ImportFails(c) \/ ImportLookup(c)
  BY <1>1, <1>4 DEF ImportClear, ImportActivate, ImportFails, ImportLookup, Steps
<1>5. CASE ImportReplace(c) \/ ImportInsert(c) \/ UpdateWrite(c)
  BY <1>1, <1>5 DEF ImportReplace, ImportInsert, UpdateWrite, Steps
<1>6. CASE \E i \in Ids, ref \in Refs : UpdateRead(c, i, ref)
  BY <1>1, <1>6 DEF UpdateRead, Begins, Steps
<1>7. CASE \E i \in Ids : DeleteRead(c, i)
  BY <1>1, <1>7 DEF DeleteRead, Begins, Steps
<1>8. CASE DeleteLatest(c) \/ DeleteScan(c) \/ DeleteRow(c) \/ DeleteFiles(c)
  BY <1>1, <1>8 DEF DeleteLatest, DeleteScan, DeleteRow, DeleteFiles, Steps
<1>. QED  BY <1>2, <1>3, <1>4, <1>5, <1>6, <1>7, <1>8 DEF Request

(* What an undisturbed request knows survives the steps of the others.     *)
LEMMA UndisturbedStaysSound ==
    ASSUME NEW d \in Clients, NEW others, d \in others, Disturb(others), Sound(d),
           at'[d] = at[d], job'[d] = job[d]
    PROVE  Sound(d)'
<1> SUFFICES ASSUME ~disturbed'[d]
             PROVE  (HasWritten(d) /\ HasFound(d) /\ HasChecked(d))'
  BY DEF Sound
<1>1. CASE at[d] = "idle"
  BY <1>1 DEF HasWritten, HasFound, HasChecked
<1>2. CASE at[d] # "idle"
  <2>1. ~disturbed[d] /\ data' = data
    BY <1>2 DEF Disturb
  <2>2. HasWritten(d)'
    BY <2>1 DEF Sound, HasWritten, Taken, Present, data
  <2>3. HasFound(d)'
    BY <2>1 DEF Sound, HasFound, Present, data
  <2>4. HasChecked(d)'
    BY <2>1 DEF Sound, HasChecked, Latest, IsReferenced, data
  <2>. QED  BY <2>2, <2>3, <2>4
<1>. QED  BY <1>1, <1>2

LEMMA InitLInv == Init => LInv
<1> SUFFICES ASSUME Init PROVE LInv  OBVIOUS
<1>1. TypeOK
  BY DirectoryTypes, NoJobType DEF Init, TypeOK, At
<1>2. UniqueRefs /\ PackageKnown
  BY DEF Init, UniqueRefs, Present, PackageKnown, Importing
<1>3. \A c \in Clients : Sound(c)
  BY DEF Init, Sound, HasWritten, HasFound, HasChecked
<1>. QED  BY <1>1, <1>2, <1>3 DEF LInv

-----------------------------------------------------------------------------
(* Requests                                                                *)

LEMMA DisturbedType ==
    ASSUME NEW others, Disturb(others) PROVE disturbed' \in [Clients -> BOOLEAN]
BY DEF Disturb

LEMMA StillDisturbed ==
    ASSUME NEW c \in Clients, Disturb(Clients \ {c}), at[c] # "idle", at'[c] # "idle",
           ~disturbed'[c]
    PROVE  ~disturbed[c]
BY DEF Disturb

(* What is left to show of a step of c.                                    *)
LEMMA StepKeepsLInv ==
    ASSUME LInv, NEW c \in Clients, Request(c), Disturb(Clients \ {c}),
           TypeOK', UniqueRefs', Sound(c)',
           at'[c] \in Importing => job'[c].package \in Packages
    PROVE  LInv'
<1>1. \A d \in Clients \ {c} : at'[d] = at[d] /\ job'[d] = job[d]
  BY OthersStay DEF LInv
<1>2. \A d \in Clients : Sound(d)'
  BY <1>1, UndisturbedStaysSound DEF LInv
<1>3. PackageKnown'
  BY <1>1 DEF LInv, PackageKnown
<1>. QED  BY <1>2, <1>3 DEF LInv

LEMMA ImportBeginKeepsLInv ==
    ASSUME LInv, NEW c \in Clients, Request(c), Disturb(Clients \ {c}), UNCHANGED <<saves, crashes>>,
           NEW op \in AllOps, NEW p \in Packages, ImportBegin(c, op, p)
    PROVE  LInv'
<1> DEFINE j == [NoJob EXCEPT !.package = p, !.ref = RefOf[p], !.todo = Files, !.op = op]
<1>1. j \in Job /\ j.package = p /\ j.ref = RefOf[p] /\ j.todo = Files
  BY NoJobType DEF Job
<1>2. /\ at' = [at EXCEPT ![c] = "write"] /\ job' = [job EXCEPT ![c] = j]
      /\ tmp' = [tmp EXCEPT ![RefOf[p]] = Absent] /\ UNCHANGED <<row, free, dir, uses>>
      /\ calls < MaxCalls /\ calls' = calls + 1
  BY DEF ImportBegin, Begins, Steps
<1> HIDE DEF j
<1>3. at'[c] = "write" /\ job'[c] = j
  BY <1>2 DEF LInv, TypeOK
<1>4. TypeOK'
  BY <1>1, <1>2, DisturbedType, DirectoryTypes DEF LInv, TypeOK, At
<1>5. UniqueRefs'
  BY <1>2 DEF LInv, UniqueRefs, Present
<1>6. Sound(c)'
  BY <1>1, <1>3 DEF Sound, HasWritten, HasFound, HasChecked
<1>. QED  BY <1>1, <1>3, <1>4, <1>5, <1>6, StepKeepsLInv

LEMMA ImportFileKeepsLInv ==
    ASSUME LInv, NEW c \in Clients, Request(c), Disturb(Clients \ {c}), UNCHANGED <<saves, crashes>>,
           NEW f \in Files, ImportFile(c, f)
    PROVE  LInv'
<1> DEFINE r == job[c].ref
           p == job[c].package
<1>1. r \in Refs /\ p \in Packages /\ job[c] \in Job /\ at[c] = "write"
  BY DEF LInv, TypeOK, Job, PackageKnown, Importing, ImportFile
<1>2. /\ tmp' = [tmp EXCEPT ![r][f] = p] /\ UNCHANGED <<at, row, free, dir, uses, calls>>
      /\ job' = [job EXCEPT ![c] = [job[c] EXCEPT !.todo = job[c].todo \ {f}]]
  BY DEF ImportFile
<1>3. /\ job'[c] \in Job /\ job'[c].todo = job[c].todo \ {f}
      /\ job'[c].ref = r /\ job'[c].package = p
  BY <1>1, <1>2 DEF LInv, TypeOK, Job
<1>4. tmp'[r] = [tmp[r] EXCEPT ![f] = p] /\ tmp'[r] \in Directory /\ tmp[r] \in Directory
  BY <1>1, <1>2 DEF LInv, TypeOK, Directory
<1>5. TypeOK'
  <2>1. tmp' \in [Refs -> Directory]  BY <1>2, <1>4 DEF LInv, TypeOK
  <2>2. job' \in [Clients -> Job]  BY <1>2, <1>3 DEF LInv, TypeOK
  <2>3. \A d \in Clients : at'[d] # "write" => job'[d].todo = {}
    BY <1>1, <1>2 DEF LInv, TypeOK
  <2>. QED  BY <1>2, <2>1, <2>2, <2>3, DisturbedType DEF LInv, TypeOK
<1>6. UniqueRefs'
  BY <1>2 DEF LInv, UniqueRefs, Present
<1>7. Sound(c)'
  <2> SUFFICES ASSUME ~disturbed'[c] PROVE HasWritten(c)'
    BY <1>1, <1>2 DEF Sound, HasFound, HasChecked
  <2>1. HasWritten(c)
    BY <1>1, <1>2, StillDisturbed DEF LInv, Sound
  <2>. QED  BY <1>1, <1>2, <1>3, <1>4, <2>1 DEF HasWritten, Directory
<1>. QED  BY <1>1, <1>3, <1>5, <1>6, <1>7, StepKeepsLInv

LEMMA ImportClearKeepsLInv ==
    ASSUME LInv, NEW c \in Clients, Request(c), Disturb(Clients \ {c}), UNCHANGED <<saves, crashes>>,
           ImportClear(c)
    PROVE  LInv'
<1> DEFINE r == job[c].ref
           p == job[c].package
<1>1. r \in Refs /\ p \in Packages /\ at[c] = "write" /\ job[c].todo = {}
  BY DEF LInv, TypeOK, Job, PackageKnown, Importing, ImportClear, Steps
<1>2. /\ at' = [at EXCEPT ![c] = "activate"] /\ dir' = [dir EXCEPT ![r] = Absent]
      /\ UNCHANGED <<row, free, tmp, uses, job, calls>>
  BY DEF ImportClear, Steps
<1>3. at'[c] = "activate"
  BY <1>2 DEF LInv, TypeOK
<1>4. TypeOK'
  BY <1>1, <1>2, DisturbedType, DirectoryTypes DEF LInv, TypeOK, At
<1>5. UniqueRefs'
  BY <1>2 DEF LInv, UniqueRefs, Present
<1>6. Sound(c)'
  <2> SUFFICES ASSUME ~disturbed'[c] PROVE tmp[r] = Whole(p)
    BY <1>2, <1>3 DEF Sound, HasWritten, HasFound, HasChecked
  <2>1. HasWritten(c)
    BY <1>1, <1>3, StillDisturbed DEF LInv, Sound
  <2>. QED  BY <1>1, <2>1 DEF HasWritten, Whole, LInv, TypeOK, Directory
<1>. QED  BY <1>1, <1>2, <1>4, <1>5, <1>6, StepKeepsLInv

LEMMA ImportActivateKeepsLInv ==
    ASSUME LInv, NEW c \in Clients, Request(c), Disturb(Clients \ {c}), UNCHANGED <<saves, crashes>>,
           ImportActivate(c)
    PROVE  LInv'
<1> DEFINE r == job[c].ref
           p == job[c].package
           renames == tmp[r] # Absent /\ dir[r] = Absent
<1>1. r \in Refs /\ p \in Packages /\ at[c] = "activate"
  BY DEF LInv, TypeOK, Job, PackageKnown, Importing, ImportActivate, Steps
<1>2. /\ at' = [at EXCEPT ![c] = IF renames THEN "lookup" ELSE "idle"]
      /\ dir' = IF renames THEN [dir EXCEPT ![r] = tmp[r]] ELSE dir
      /\ tmp' = [tmp EXCEPT ![r] = Absent] /\ UNCHANGED <<row, free, uses, job, calls>>
  BY DEF ImportActivate, Steps
<1>3. at'[c] = IF renames THEN "lookup" ELSE "idle"
  BY <1>2 DEF LInv, TypeOK
<1>4. TypeOK'
  <2>1. dir' \in [Refs -> Directory] /\ tmp' \in [Refs -> Directory]
    BY <1>1, <1>2, DirectoryTypes DEF LInv, TypeOK
  <2>2. at' \in [Clients -> At] /\ \A d \in Clients : at'[d] # "write" => job'[d].todo = {}
    BY <1>1, <1>2 DEF LInv, TypeOK, At
  <2>. QED  BY <1>2, <2>1, <2>2, DisturbedType DEF LInv, TypeOK
<1>5. UniqueRefs'
  BY <1>2 DEF LInv, UniqueRefs, Present
<1>6. Sound(c)'
  <2> SUFFICES ASSUME ~disturbed'[c], renames PROVE dir'[r] = Whole(p)
    BY <1>2, <1>3 DEF Sound, HasWritten, HasFound, HasChecked
  <2>1. HasWritten(c)
    BY <1>1, <1>3, StillDisturbed DEF LInv, Sound
  <2>. QED  BY <1>1, <1>2, <2>1 DEF HasWritten, LInv, TypeOK
<1>. QED  BY <1>1, <1>2, <1>4, <1>5, <1>6, StepKeepsLInv

LEMMA ImportLookupKeepsLInv ==
    ASSUME LInv, NEW c \in Clients, Request(c), Disturb(Clients \ {c}), UNCHANGED <<saves, crashes>>,
           ImportLookup(c)
    PROVE  LInv'
<1> DEFINE r == job[c].ref
<1>1. r \in Refs /\ job[c].package \in Packages /\ at[c] = "lookup" /\ job[c] \in Job
  BY DEF LInv, TypeOK, Job, PackageKnown, Importing, ImportLookup, Steps
<1>2. UNCHANGED data /\ calls' = calls
  BY DEF ImportLookup
<1>3. UniqueRefs'
  BY <1>2 DEF LInv, UniqueRefs, Present, data
<1>4. ASSUME ~disturbed'[c], at'[c] # "idle" PROVE dir'[r] = Whole(job[c].package)
  BY <1>1, <1>2, <1>4, StillDisturbed DEF LInv, Sound, HasWritten, data
<1>5. CASE Taken(r, {})
  <2>1. PICK i \in Resolves(r) :
          /\ at' = [at EXCEPT ![c] = IF job[c].op = "overwrite" THEN "replace" ELSE "idle"]
          /\ job' = [job EXCEPT ![c] = [job[c] EXCEPT !.id = i]]
    BY <1>5 DEF ImportLookup, Steps
  <2>2. i \in Present /\ i \in Ids /\ row[i] \in Row /\ row[i].ref = r
    <3>1. i \in Present /\ i \in Ids /\ row[i] \in Row
      BY <2>1 DEF Resolves, Present, LInv, TypeOK
    <3>2. row[i].ref \in Refs /\ r.version # Bare
      BY <1>1, <3>1 DEF Row, Refs
    <3>3. row[i].ref.name = r.name /\ row[i].ref.version = r.version
      BY <2>1, <3>2 DEF Resolves
    <3>. QED  BY <1>1, <3>1, <3>2, <3>3, RefsAreEqual
  <2>3. /\ job'[c] \in Job /\ job'[c].id = i /\ job'[c].ref = r
        /\ job'[c].package = job[c].package /\ job'[c].todo = job[c].todo
    BY <1>1, <2>1, <2>2 DEF LInv, TypeOK, Job
  <2>4. at'[c] \in {"replace", "idle"}
    BY <2>1 DEF LInv, TypeOK
  <2>5. TypeOK'
    <3>1. job' \in [Clients -> Job] /\ at' \in [Clients -> At]
      BY <2>1, <2>3 DEF LInv, TypeOK, At
    <3>2. \A d \in Clients : at'[d] # "write" => job'[d].todo = {}
      BY <1>1, <2>1, <2>3 DEF LInv, TypeOK
    <3>. QED  BY <1>2, <3>1, <3>2, DisturbedType DEF LInv, TypeOK, data
  <2>6. Sound(c)'
    BY <1>2, <1>4, <2>2, <2>3, <2>4 DEF Sound, HasWritten, HasFound, HasChecked, Present, data
  <2>. QED  BY <1>1, <1>3, <2>3, <2>5, <2>6, StepKeepsLInv
<1>6. CASE ~Taken(r, {})
  <2>1. at' = [at EXCEPT ![c] = "insert"] /\ job' = job
    BY <1>6 DEF ImportLookup, Steps
  <2>2. at'[c] = "insert"
    BY <2>1 DEF LInv, TypeOK
  <2>3. TypeOK'
    BY <1>1, <1>2, <2>1, DisturbedType DEF LInv, TypeOK, At, data
  <2>4. Sound(c)'
    BY <1>2, <1>4, <1>6, <2>1, <2>2
    DEF Sound, HasWritten, HasFound, HasChecked, Taken, Present, data
  <2>. QED  BY <1>1, <1>3, <2>1, <2>3, <2>4, StepKeepsLInv
<1>. QED  BY <1>5, <1>6

(* A row written for a reference that no other row has.                    *)
LEMMA WrittenRowIsUnique ==
    ASSUME TypeOK, UniqueRefs, NEW i \in Ids, NEW r \in Refs,
           NEW x \in Packages \cup {NoPackage}, ~Taken(r, {i}),
           row' = [row EXCEPT ![i] = [ref |-> r, index |-> x]]
    PROVE  row' \in [Ids -> Row \cup {Gone}] /\ UniqueRefs'
<1>1. [ref |-> r, index |-> x] \in Row /\ [ref |-> r, index |-> x].ref = r
  BY DEF Row
<1>2. row' \in [Ids -> Row \cup {Gone}]
  BY <1>1 DEF TypeOK
<1>3. row'[i].ref = r /\ \A k \in Ids \ {i} : row'[k] = row[k]
  BY <1>1 DEF TypeOK
<1>. QED  BY <1>2, <1>3 DEF UniqueRefs, Present, Taken

LEMMA ImportFailsKeepsLInv ==
    ASSUME LInv, NEW c \in Clients, Request(c), Disturb(Clients \ {c}), UNCHANGED <<saves, crashes>>,
           ImportFails(c)
    PROVE  LInv'
<1>1. at' = [at EXCEPT ![c] = "idle"] /\ UNCHANGED <<data, job, calls>>
  BY DEF ImportFails, Steps
<1>2. at'[c] = "idle" /\ at[c] # "write"
  BY <1>1 DEF LInv, TypeOK, ImportFails, Steps
<1>3. TypeOK'
  BY <1>1, <1>2, DisturbedType DEF LInv, TypeOK, At, data
<1>4. UniqueRefs'
  BY <1>1 DEF LInv, UniqueRefs, Present, data
<1>5. Sound(c)'
  BY <1>2 DEF Sound, HasWritten, HasFound, HasChecked
<1>. QED  BY <1>2, <1>3, <1>4, <1>5, StepKeepsLInv DEF Importing
LEMMA ImportReplaceKeepsLInv ==
    ASSUME LInv, NEW c \in Clients, Request(c), Disturb(Clients \ {c}), UNCHANGED <<saves, crashes>>,
           ImportReplace(c)
    PROVE  LInv'
<1> DEFINE i == job[c].id
           r == job[c].ref
           x == job[c].package
           writes == i \in Present /\ ~Taken(r, {i})
<1>1. i \in Ids /\ r \in Refs /\ x \in Packages \cup {NoPackage} /\ at[c] = "replace"
  BY DEF LInv, TypeOK, Job, ImportReplace, Steps
<1>2. /\ at' = [at EXCEPT ![c] = "idle"] /\ UNCHANGED <<free, dir, tmp, uses, job, calls>>
      /\ row' = IF writes THEN [row EXCEPT ![i] = [ref |-> r, index |-> x]] ELSE row
  BY DEF ImportReplace, Steps
<1>3. at'[c] = "idle"
  BY <1>2 DEF LInv, TypeOK
<1>4. row' \in [Ids -> Row \cup {Gone}] /\ UniqueRefs'
  <2>1. CASE writes
    BY <1>1, <1>2, <2>1, WrittenRowIsUnique DEF LInv
  <2>2. CASE ~writes
    BY <1>2, <2>2 DEF LInv, TypeOK, UniqueRefs, Present
  <2>. QED  BY <2>1, <2>2
<1>5. TypeOK'
  BY <1>1, <1>2, <1>4, DisturbedType DEF LInv, TypeOK, At
<1>6. Sound(c)'
  BY <1>3 DEF Sound, HasWritten, HasFound, HasChecked
<1>. QED  BY <1>3, <1>4, <1>5, <1>6, StepKeepsLInv DEF Importing
LEMMA UpdateWriteKeepsLInv ==
    ASSUME LInv, NEW c \in Clients, Request(c), Disturb(Clients \ {c}), UNCHANGED <<saves, crashes>>,
           UpdateWrite(c)
    PROVE  LInv'
<1> DEFINE i == job[c].id
           r == job[c].ref
           x == job[c].index
           writes == i \in Present /\ ~Taken(r, {i})
<1>1. i \in Ids /\ r \in Refs /\ x \in Packages \cup {NoPackage} /\ at[c] = "rewrite"
  BY DEF LInv, TypeOK, Job, UpdateWrite, Steps
<1>2. /\ at' = [at EXCEPT ![c] = "idle"] /\ UNCHANGED <<free, dir, tmp, uses, job, calls>>
      /\ row' = IF writes THEN [row EXCEPT ![i] = [ref |-> r, index |-> x]] ELSE row
  BY DEF UpdateWrite, Steps
<1>3. at'[c] = "idle"
  BY <1>2 DEF LInv, TypeOK
<1>4. row' \in [Ids -> Row \cup {Gone}] /\ UniqueRefs'
  <2>1. CASE writes
    BY <1>1, <1>2, <2>1, WrittenRowIsUnique DEF LInv
  <2>2. CASE ~writes
    BY <1>2, <2>2 DEF LInv, TypeOK, UniqueRefs, Present
  <2>. QED  BY <2>1, <2>2
<1>5. TypeOK'
  BY <1>1, <1>2, <1>4, DisturbedType DEF LInv, TypeOK, At
<1>6. Sound(c)'
  BY <1>3 DEF Sound, HasWritten, HasFound, HasChecked
<1>. QED  BY <1>3, <1>4, <1>5, <1>6, StepKeepsLInv DEF Importing
LEMMA InsertKeeps ==
    ASSUME TypeOK, UniqueRefs, NEW r \in Refs, NEW x \in Packages \cup {NoPackage}, Insert(r, x)
    PROVE  /\ row' \in [Ids -> Row \cup {Gone}] /\ UniqueRefs' /\ free' \subseteq Ids
           /\ Taken(r, {}) \/ \E i \in Ids : row' = [row EXCEPT ![i] = [ref |-> r, index |-> x]]
<1>1. CASE Taken(r, {})
  BY <1>1 DEF Insert, TypeOK, UniqueRefs, Present
<1>2. CASE ~Taken(r, {})
  <2>1. PICK i \in free : /\ free' = free \ {i}
                         /\ row' = [row EXCEPT ![i] = [ref |-> r, index |-> x]]
    BY <1>2 DEF Insert
  <2>2. i \in Ids /\ ~Taken(r, {i}) /\ free' \subseteq Ids
    BY <1>2, <2>1 DEF TypeOK, Taken
  <2>. QED  BY <2>1, <2>2, WrittenRowIsUnique
<1>. QED  BY <1>1, <1>2

LEMMA ImportInsertKeepsLInv ==
    ASSUME LInv, NEW c \in Clients, Request(c), Disturb(Clients \ {c}), UNCHANGED <<saves, crashes>>,
           ImportInsert(c)
    PROVE  LInv'
<1>1. job[c].ref \in Refs /\ job[c].package \in Packages \cup {NoPackage} /\ at[c] = "insert"
  BY DEF LInv, TypeOK, Job, ImportInsert, Steps
<1>2. /\ at' = [at EXCEPT ![c] = "idle"] /\ UNCHANGED <<dir, tmp, uses, job, calls>>
      /\ Insert(job[c].ref, job[c].package)
  BY DEF ImportInsert, Steps
<1>3. at'[c] = "idle"
  BY <1>2 DEF LInv, TypeOK
<1>4. row' \in [Ids -> Row \cup {Gone}] /\ UniqueRefs' /\ free' \subseteq Ids
  BY <1>1, <1>2, InsertKeeps DEF LInv
<1>5. TypeOK'
  BY <1>1, <1>2, <1>4, DisturbedType DEF LInv, TypeOK, At
<1>6. Sound(c)'
  BY <1>3 DEF Sound, HasWritten, HasFound, HasChecked
<1>. QED  BY <1>3, <1>4, <1>5, <1>6, StepKeepsLInv DEF Importing
LEMMA UpdateReadKeepsLInv ==
    ASSUME LInv, NEW c \in Clients, Request(c), Disturb(Clients \ {c}), UNCHANGED <<saves, crashes>>,
           NEW i \in Ids, NEW ref \in Refs, UpdateRead(c, i, ref)
    PROVE  LInv'
<1> DEFINE j == [NoJob EXCEPT !.id = i, !.ref = ref, !.index = row[i].index, !.op = "update"]
<1>1. row[i].index \in Packages \cup {NoPackage}
  BY DEF UpdateRead, Present, LInv, TypeOK, Row
<1>2. j \in Job /\ j.todo = {}
  BY <1>1, NoJobType DEF Job, AllOps
<1>3. /\ at' = [at EXCEPT ![c] = "rewrite"] /\ job' = [job EXCEPT ![c] = j]
      /\ UNCHANGED data /\ calls < MaxCalls /\ calls' = calls + 1
  BY DEF UpdateRead, Begins, Steps
<1> HIDE DEF j
<1>4. at'[c] = "rewrite"
  BY <1>3 DEF LInv, TypeOK
<1>5. TypeOK'
  BY <1>2, <1>3, DisturbedType DEF LInv, TypeOK, At, data
<1>6. UniqueRefs'
  BY <1>3 DEF LInv, UniqueRefs, Present, data
<1>7. Sound(c)'
  BY <1>4 DEF Sound, HasWritten, HasFound, HasChecked
<1>. QED  BY <1>4, <1>5, <1>6, <1>7, StepKeepsLInv DEF Importing
LEMMA DeleteReadKeepsLInv ==
    ASSUME LInv, NEW c \in Clients, Request(c), Disturb(Clients \ {c}), UNCHANGED <<saves, crashes>>,
           NEW i \in Ids, DeleteRead(c, i)
    PROVE  LInv'
<1> DEFINE j == [NoJob EXCEPT !.id = i, !.ref = row[i].ref, !.op = "delete"]
<1>1. i \in Present /\ row[i].ref \in Refs
  BY DEF DeleteRead, Present, LInv, TypeOK, Row
<1>2. j \in Job /\ j.todo = {} /\ j.id = i /\ j.ref = row[i].ref
  BY <1>1, NoJobType DEF Job, AllOps
<1>3. /\ at' = [at EXCEPT ![c] = "latest"] /\ job' = [job EXCEPT ![c] = j]
      /\ UNCHANGED data /\ calls < MaxCalls /\ calls' = calls + 1
  BY DEF DeleteRead, Begins, Steps
<1> HIDE DEF j
<1>4. at'[c] = "latest" /\ job'[c] = j
  BY <1>3 DEF LInv, TypeOK
<1>5. TypeOK'
  BY <1>2, <1>3, DisturbedType DEF LInv, TypeOK, At, data
<1>6. UniqueRefs'
  BY <1>3 DEF LInv, UniqueRefs, Present, data
<1>7. Sound(c)'
  BY <1>1, <1>2, <1>3, <1>4 DEF Sound, HasWritten, HasFound, HasChecked, Present, data
<1>. QED  BY <1>4, <1>5, <1>6, <1>7, StepKeepsLInv DEF Importing
LEMMA DeleteLatestKeepsLInv ==
    ASSUME LInv, NEW c \in Clients, Request(c), Disturb(Clients \ {c}), UNCHANGED <<saves, crashes>>,
           DeleteLatest(c)
    PROVE  LInv'
<1> DEFINE target == (Latest(job[c].ref.name) = job[c].id)
           j == [job[c] EXCEPT !.bareTarget = target]
<1>1. at[c] = "latest" /\ job[c] \in Job /\ job[c].todo = {}
  BY DEF LInv, TypeOK, DeleteLatest, Steps
<1>2. target \in BOOLEAN
  OBVIOUS
<1>3. /\ at' = [at EXCEPT ![c] = "scan"] /\ job' = [job EXCEPT ![c] = j]
      /\ UNCHANGED <<data, calls>>
  BY DEF DeleteLatest, Steps
<1>4. /\ j \in Job /\ j.todo = {} /\ j.id = job[c].id /\ j.ref = job[c].ref
      /\ j.bareTarget = target
  <2> HIDE DEF target
  <2>. QED  BY <1>1, <1>2 DEF Job
<1> HIDE DEF j
<1>5. at'[c] = "scan" /\ job'[c] = j
  BY <1>3 DEF LInv, TypeOK
<1>6. TypeOK'
  BY <1>3, <1>4, DisturbedType DEF LInv, TypeOK, At, data
<1>7. UniqueRefs'
  BY <1>3 DEF LInv, UniqueRefs, Present, data
<1>8. Sound(c)'
  <2> SUFFICES ASSUME ~disturbed'[c] PROVE (HasFound(c) /\ HasChecked(c))'
    BY <1>5 DEF Sound, HasWritten
  <2>1. HasFound(c)
    BY <1>1, <1>5, StillDisturbed DEF LInv, Sound
  <2>2. HasFound(c)'
    BY <1>1, <1>3, <1>4, <1>5, <2>1 DEF HasFound, Present, data
  <2>3. HasChecked(c)'
    BY <1>3, <1>4, <1>5 DEF HasChecked, Latest, data
  <2>. QED  BY <2>2, <2>3
<1>. QED  BY <1>5, <1>6, <1>7, <1>8, StepKeepsLInv DEF Importing
LEMMA DeleteScanKeepsLInv ==
    ASSUME LInv, NEW c \in Clients, Request(c), Disturb(Clients \ {c}), UNCHANGED <<saves, crashes>>,
           DeleteScan(c)
    PROVE  LInv'
<1>1. at[c] = "scan"
  BY DEF DeleteScan, Steps
<1>2. /\ at' = [at EXCEPT ![c] = IF IsReferenced(c) THEN "idle" ELSE "delete"]
      /\ UNCHANGED <<data, job, calls>>
  BY DEF DeleteScan, Steps
<1>3. at'[c] = IF IsReferenced(c) THEN "idle" ELSE "delete"
  BY <1>2 DEF LInv, TypeOK
<1>4. TypeOK'
  BY <1>1, <1>2, DisturbedType DEF LInv, TypeOK, At, data
<1>5. UniqueRefs'
  BY <1>2 DEF LInv, UniqueRefs, Present, data
<1>6. Sound(c)'
  <2> SUFFICES ASSUME ~disturbed'[c], ~IsReferenced(c)
               PROVE  (HasWritten(c) /\ HasFound(c) /\ HasChecked(c))'
    BY <1>3 DEF Sound, HasWritten, HasFound, HasChecked
  <2>1. HasFound(c) /\ HasChecked(c) /\ at'[c] = "delete"
    BY <1>1, <1>3, StillDisturbed DEF LInv, Sound
  <2>2. HasWritten(c)' /\ HasFound(c)'
    BY <1>1, <1>2, <2>1 DEF HasWritten, HasFound, Present, data
  <2>3. HasChecked(c)'
    BY <1>1, <1>2, <2>1 DEF HasChecked, Latest, IsReferenced, data
  <2>. QED  BY <2>2, <2>3
<1>. QED  BY <1>3, <1>4, <1>5, <1>6, StepKeepsLInv DEF Importing
LEMMA DeleteRowKeepsLInv ==
    ASSUME LInv, NEW c \in Clients, Request(c), Disturb(Clients \ {c}), UNCHANGED <<saves, crashes>>,
           DeleteRow(c)
    PROVE  LInv'
<1>1. job[c].id \in Ids /\ at[c] = "delete"
  BY DEF LInv, TypeOK, Job, DeleteRow, Steps
<1>2. /\ at' = [at EXCEPT ![c] = "remove"] /\ row' = [row EXCEPT ![job[c].id] = Gone]
      /\ UNCHANGED <<free, dir, tmp, uses, job, calls>>
  BY DEF DeleteRow, Steps
<1>3. at'[c] = "remove"
  BY <1>2 DEF LInv, TypeOK
<1>4. TypeOK'
  BY <1>1, <1>2, DisturbedType DEF LInv, TypeOK, At
<1>5. UniqueRefs'
  BY <1>1, <1>2 DEF LInv, TypeOK, UniqueRefs, Present
<1>6. Sound(c)'
  BY <1>3 DEF Sound, HasWritten, HasFound, HasChecked
<1>. QED  BY <1>3, <1>4, <1>5, <1>6, StepKeepsLInv DEF Importing
LEMMA DeleteFilesKeepsLInv ==
    ASSUME LInv, NEW c \in Clients, Request(c), Disturb(Clients \ {c}), UNCHANGED <<saves, crashes>>,
           DeleteFiles(c)
    PROVE  LInv'
<1>1. job[c].ref \in Refs /\ at[c] = "remove"
  BY DEF LInv, TypeOK, Job, DeleteFiles, Steps
<1>2. /\ at' = [at EXCEPT ![c] = "idle"] /\ dir' = [dir EXCEPT ![job[c].ref] = Absent]
      /\ UNCHANGED <<row, free, tmp, uses, job, calls>>
  BY DEF DeleteFiles, Steps
<1>3. at'[c] = "idle"
  BY <1>2 DEF LInv, TypeOK
<1>4. TypeOK'
  BY <1>1, <1>2, DirectoryTypes, DisturbedType DEF LInv, TypeOK, At
<1>5. UniqueRefs'
  BY <1>2 DEF LInv, UniqueRefs, Present
<1>6. Sound(c)'
  BY <1>3 DEF Sound, HasWritten, HasFound, HasChecked
<1>. QED  BY <1>3, <1>4, <1>5, <1>6, StepKeepsLInv DEF Importing
-----------------------------------------------------------------------------
(* Everything else                                                         *)

(* A step that moves no request.                                           *)
LEMMA QuietStepKeepsLInv ==
    ASSUME LInv, Disturb(Clients), at' = at, job' = job, TypeOK', UniqueRefs'
    PROVE  LInv'
<1>1. \A d \in Clients : Sound(d)'
  BY UndisturbedStaysSound DEF LInv
<1>2. PackageKnown'
  BY DEF LInv, PackageKnown
<1>. QED  BY <1>1, <1>2 DEF LInv

LEMMA CreateKeepsLInv ==
    ASSUME LInv, NEW ref \in Refs, Create(ref), UNCHANGED <<saves, crashes>>, Disturb(Clients)
    PROVE  LInv'
<1>1. row' \in [Ids -> Row \cup {Gone}] /\ UniqueRefs' /\ free' \subseteq Ids
  BY InsertKeeps DEF Create, LInv
<1>2. TypeOK'
  BY <1>1, DisturbedType DEF LInv, TypeOK, Create
<1>. QED  BY <1>1, <1>2, QuietStepKeepsLInv DEF Create

LEMMA SaveKeepsLInv ==
    ASSUME LInv, NEW w \in Workflows, NEW refs \in Saves, SaveWorkflow(w, refs), Disturb(Clients)
    PROVE  LInv'
<1>1. UniqueRefs'
  BY DEF LInv, UniqueRefs, Present, SaveWorkflow
<1>2. TypeOK'
  BY DisturbedType DEF LInv, TypeOK, SaveWorkflow
<1>. QED  BY <1>1, <1>2, QuietStepKeepsLInv DEF SaveWorkflow

LEMMA SweepKeepsLInv ==
    ASSUME LInv, GCAssets, Disturb({})
    PROVE  LInv'
<1>1. \A d \in Clients : at'[d] = "idle"
  BY DEF GCAssets
<1>2. UniqueRefs' /\ PackageKnown'
  BY <1>1 DEF LInv, UniqueRefs, Present, PackageKnown, Importing, GCAssets
<1>3. \A d \in Clients : Sound(d)'
  BY <1>1 DEF Sound, HasWritten, HasFound, HasChecked
<1>4. dir' \in [Refs -> Directory] /\ tmp' \in [Refs -> Directory]
  BY DirectoryTypes DEF GCAssets, LInv, TypeOK
<1>5. TypeOK'
  BY <1>1, <1>4, NoJobType, DisturbedType DEF LInv, TypeOK, At, GCAssets
<1>. QED  BY <1>2, <1>3, <1>5 DEF LInv

LEMMA RequestKeepsLInv ==
    ASSUME LInv, NEW c \in Clients, Request(c), UNCHANGED <<saves, crashes>>, Disturb(Clients \ {c})
    PROVE  LInv'
<1>1. CASE \E op \in AllOps, p \in Packages : ImportBegin(c, op, p)
  BY <1>1, ImportBeginKeepsLInv
<1>2. CASE \E f \in Files : ImportFile(c, f)
  BY <1>2, ImportFileKeepsLInv
<1>3. CASE ImportClear(c)
  BY <1>3, ImportClearKeepsLInv
<1>4. CASE ImportActivate(c)
  BY <1>4, ImportActivateKeepsLInv
<1>5. CASE ImportFails(c)
  BY <1>5, ImportFailsKeepsLInv
<1>6. CASE ImportLookup(c)
  BY <1>6, ImportLookupKeepsLInv
<1>7. CASE ImportReplace(c)
  BY <1>7, ImportReplaceKeepsLInv
<1>8. CASE ImportInsert(c)
  BY <1>8, ImportInsertKeepsLInv
<1>9. CASE \E i \in Ids, ref \in Refs : UpdateRead(c, i, ref)
  BY <1>9, UpdateReadKeepsLInv
<1>10. CASE UpdateWrite(c)
  BY <1>10, UpdateWriteKeepsLInv
<1>11. CASE \E i \in Ids : DeleteRead(c, i)
  BY <1>11, DeleteReadKeepsLInv
<1>12. CASE DeleteLatest(c)
  BY <1>12, DeleteLatestKeepsLInv
<1>13. CASE DeleteScan(c)
  BY <1>13, DeleteScanKeepsLInv
<1>14. CASE DeleteRow(c)
  BY <1>14, DeleteRowKeepsLInv
<1>15. CASE DeleteFiles(c)
  BY <1>15, DeleteFilesKeepsLInv
<1>. QED
  BY <1>1, <1>2, <1>3, <1>4, <1>5, <1>6, <1>7, <1>8, <1>9, <1>10, <1>11, <1>12, <1>13,
     <1>14, <1>15 DEF Request

LEMMA StutterKeepsLInv ==
    ASSUME LInv, UNCHANGED vars PROVE LInv'
<1>1. TypeOK' /\ UniqueRefs' /\ PackageKnown'
  BY DEF LInv, TypeOK, UniqueRefs, Present, PackageKnown, vars, data
<1>2. \A d \in Clients : Sound(d)'
  BY DEF LInv, Sound, HasWritten, HasFound, HasChecked, Taken, Present, Latest, IsReferenced,
         vars, data
<1>. QED  BY <1>1, <1>2 DEF LInv

LEMMA NextKeepsLInv == LInv /\ [Next]_vars => LInv'
<1> SUFFICES ASSUME LInv, [Next]_vars PROVE LInv'  OBVIOUS
<1>1. CASE \E c \in Clients :
             Request(c) /\ UNCHANGED <<saves, crashes>> /\ Disturb(Clients \ {c})
  BY <1>1, RequestKeepsLInv
<1>2. CASE \E ref \in Refs : Create(ref) /\ UNCHANGED <<saves, crashes>> /\ Disturb(Clients)
  BY <1>2, CreateKeepsLInv
<1>3. CASE \E w \in Workflows, refs \in Saves : SaveWorkflow(w, refs) /\ Disturb(Clients)
  BY <1>3, SaveKeepsLInv
<1>4. CASE GCAssets /\ Disturb({})
  BY <1>4, SweepKeepsLInv
<1>5. CASE UNCHANGED vars
  BY <1>5, StutterKeepsLInv
<1>. QED  BY <1>1, <1>2, <1>3, <1>4, <1>5 DEF Next

(* Types, one row per version, and what each request knows.                *)
THEOREM LibraryInvariance == Spec => []LInv
BY InitLInv, NextKeepsLInv, PTL DEF Spec

-----------------------------------------------------------------------------
(* The properties                                                          *)

(* The types; a request that has left its writing loop has written all the *)
(* files of its package.                                                   *)
THEOREM TypeCorrect == Spec => []TypeOK
<1>1. LInv => TypeOK
  BY DEF LInv
<1>. QED  BY <1>1, LibraryInvariance, PTL

(* A deletion removes a node that some workflow resolves to only when      *)
(* somebody else wrote after its first check (Delete).                     *)
LEMMA StepKeepsReferenced ==
    ASSUME LInv, [Next]_vars, NEW w \in Workflows, NEW ref \in uses[w],
           NEW i \in Resolves(ref), row'[i] = Gone
    PROVE  \E c \in Clients : at[c] = "delete" /\ job[c].id = i /\ disturbed[c]
<1>1. i \in Ids /\ row[i] # Gone /\ ref \in NodeRef
  BY DEF Resolves, Present, LInv, TypeOK
<1>2. row' # row
  BY <1>1
<1>3. PICK c \in Clients : DeleteRow(c) /\ job[c].id = i
  <2>1. ASSUME NEW r \in Refs, NEW x \in Packages \cup {NoPackage}, Insert(r, x) PROVE FALSE
    <3>1. PICK k \in Ids : row' = [row EXCEPT ![k] = [ref |-> r, index |-> x]]
      BY <2>1, <1>2, InsertKeeps DEF LInv, Insert
    <3>2. [ref |-> r, index |-> x] # Gone
      BY DEF Row
    <3>. QED  BY <1>1, <3>1, <3>2 DEF LInv, TypeOK
  <2>2. ASSUME NEW c \in Clients, NEW x \in Packages \cup {NoPackage},
               row' = [row EXCEPT ![job[c].id] = [ref |-> job[c].ref, index |-> x]]
        PROVE  FALSE
    <3>1. [ref |-> job[c].ref, index |-> x] # Gone
      BY DEF LInv, TypeOK, Job, Row
    <3>. QED  BY <1>1, <2>2, <3>1 DEF LInv, TypeOK
  <2>3. ASSUME NEW c \in Clients, Request(c) PROVE DeleteRow(c) /\ job[c].id = i
    <3>1. job[c].ref \in Refs /\ job[c].package \in Packages \cup {NoPackage}
          /\ job[c].index \in Packages \cup {NoPackage} /\ job[c].id \in Ids
      BY DEF LInv, TypeOK, Job
    <3>2. CASE DeleteRow(c)
      BY <1>1, <3>1, <3>2 DEF DeleteRow, LInv, TypeOK
    <3>3. CASE ImportInsert(c)
      BY <2>1, <3>1, <3>3 DEF ImportInsert
    <3>4. CASE ImportReplace(c)
      BY <1>2, <2>2, <3>1, <3>4 DEF ImportReplace
    <3>5. CASE UpdateWrite(c)
      BY <1>2, <2>2, <3>1, <3>5 DEF UpdateWrite
    <3>. QED
      BY <1>2, <2>3, <3>2, <3>3, <3>4, <3>5
      DEF Request, ImportBegin, ImportFile, ImportClear, ImportActivate, ImportFails,
          ImportLookup, UpdateRead, DeleteRead, DeleteLatest, DeleteScan, DeleteFiles, data
  <2>4. ASSUME NEW r \in Refs, Create(r) PROVE FALSE
    BY <2>1, <2>4 DEF Create
  <2>. QED  BY <1>2, <2>3, <2>4 DEF Next, SaveWorkflow, GCAssets, vars, data
<1>4. SUFFICES ASSUME ~disturbed[c] PROVE FALSE
  BY <1>3 DEF DeleteRow, Steps
<1>5. HasFound(c) /\ HasChecked(c) /\ at[c] = "delete"
  BY <1>3, <1>4 DEF LInv, Sound, DeleteRow, Steps
<1>6. row[i].ref = job[c].ref /\ job[c].bareTarget = (Latest(job[c].ref.name) = i)
  BY <1>3, <1>5 DEF HasFound, HasChecked
<1>7. IsReferenced(c)
  BY <1>1, <1>6 DEF IsReferenced, Resolves
<1>. QED  BY <1>5, <1>7 DEF HasChecked

(* Workflows keep the nodes they refer to, unless somebody writes between  *)
(* the checks of a deletion and its DELETE.                                *)
THEOREM ReferencedStay == Spec => ReferencedNodesStay
<1>1. LInv /\ [Next]_vars =>
        \A w \in Workflows : \A ref \in uses[w] : \A i \in Resolves(ref) :
          row'[i] = Gone => \E c \in Clients :
                              at[c] = "delete" /\ job[c].id = i /\ disturbed[c]
  BY StepKeepsReferenced
<1>. QED  BY <1>1, LibraryInvariance, PTL DEF Spec, ReferencedNodesStay

(* An import that ends by writing its row has its whole package on disk.   *)
LEMMA StepStoresWhole ==
    ASSUME LInv, [Next]_vars, NEW c \in Clients,
           Ends(c, "replace") \/ Ends(c, "insert"), ~disturbed[c]
    PROVE  \E i \in Present' : /\ row'[i] = [ref |-> job[c].ref, index |-> job[c].package]
                              /\ Agrees(i)'
<1>1. HasWritten(c) /\ HasFound(c) /\ at[c] \in {"replace", "insert"} /\ at'[c] = "idle"
  BY DEF LInv, Sound, Ends
<1> DEFINE r == job[c].ref
           p == job[c].package
<1>2. r \in Refs /\ p \in Packages /\ dir[r] = Whole(p) /\ job[c].id \in Ids
  BY <1>1 DEF LInv, TypeOK, Job, PackageKnown, Importing, HasWritten
<1>3. ImportReplace(c) \/ ImportInsert(c)
  <2>1. ASSUME NEW d \in Clients, Request(d) PROVE d = c
    BY <1>1, <2>1, OthersStay DEF LInv
  <2>2. ASSUME Request(c) PROVE ImportReplace(c) \/ ImportInsert(c)
    BY <1>1, <2>2
    DEF Request, ImportBegin, Begins, ImportFile, ImportClear, ImportActivate, ImportFails,
        ImportLookup, UpdateRead, UpdateWrite, DeleteRead, DeleteLatest, DeleteScan, DeleteRow,
        DeleteFiles, Steps
  <2>3. ~(GCAssets /\ crashes' = crashes)
    BY DEF GCAssets, LInv, TypeOK
  <2>. QED
    BY <1>1, <2>1, <2>2, <2>3 DEF Next, Create, SaveWorkflow, Ends, vars
<1>4. PICK i \in Ids : row' = [row EXCEPT ![i] = [ref |-> r, index |-> p]]
  <2>1. CASE ImportReplace(c)
    <3>1. job[c].id \in Present /\ row[job[c].id].ref = r
      BY <1>1, <2>1 DEF HasFound, ImportReplace, Steps
    <3>2. ~Taken(r, {job[c].id})
      BY <3>1 DEF LInv, UniqueRefs, Taken
    <3>. QED  BY <1>2, <2>1, <3>1, <3>2 DEF ImportReplace
  <2>2. CASE ImportInsert(c)
    <3>1. ~Taken(r, {})
      BY <1>1, <2>2 DEF HasWritten, ImportInsert, Steps
    <3>. QED  BY <1>2, <2>2, <3>1, InsertKeeps DEF ImportInsert, LInv
  <2>. QED  BY <1>3, <2>1, <2>2
<1>5. row'[i] = [ref |-> r, index |-> p] /\ [ref |-> r, index |-> p] # Gone
  BY <1>2, <1>4 DEF LInv, TypeOK, Row
<1>6. dir' = dir
  BY <1>3 DEF ImportReplace, ImportInsert
<1>7. i \in Present'
  BY <1>5 DEF Present
<1>8. row'[i].ref = r /\ row'[i].index = p
  BY <1>5
<1>9. Agrees(i)'
  BY <1>2, <1>6, <1>8 DEF Agrees, Whole
<1>. QED  BY <1>5, <1>7, <1>9

(* An import that nobody disturbs stores one whole package, whatever is    *)
(* left on the disk.                                                       *)
THEOREM ImportsStoreWhole == Spec => ImportsAreWhole
<1>1. LInv /\ [Next]_vars =>
        \A c \in Clients :
          (Ends(c, "replace") \/ Ends(c, "insert")) /\ ~disturbed[c]
            => \E i \in Present' : /\ row'[i] = [ref |-> job[c].ref, index |-> job[c].package]
                                   /\ Agrees(i)'
  BY StepStoresWhole
<1>. QED  BY <1>1, LibraryInvariance, PTL DEF Spec, ImportsAreWhole

(* The sweep decides by the rows, and writes none.                         *)
LEMMA StepSweeps ==
    ASSUME LInv, [Next]_vars, crashes' # crashes
    PROVE  /\ \A i \in Present : Agrees(i) => Agrees(i)'
           /\ \A r \in Refs : dir'[r] # Absent => Taken(r, {})'
<1>1. GCAssets
  BY DEF Next, Create, SaveWorkflow, vars
<1>2. row' = row /\ dir' = [r \in Refs |-> IF r \in Live THEN dir[r] ELSE Absent]
  BY <1>1 DEF GCAssets
<1>3. ASSUME NEW i \in Present, Agrees(i) PROVE Agrees(i)'
  <2>1. row[i].ref \in Refs /\ row[i].ref \in Live
    BY DEF LInv, TypeOK, Present, Row, Live
  <2>2. dir'[row[i].ref] = dir[row[i].ref]
    BY <1>2, <2>1
  <2>. QED  BY <1>2, <1>3, <2>2 DEF Agrees
<1>4. ASSUME NEW r \in Refs, dir'[r] # Absent PROVE Taken(r, {})'
  <2>1. r \in Live
    BY <1>2, <1>4
  <2>. QED  BY <1>2, <2>1 DEF Live, Taken, Present
<1>. QED  BY <1>3, <1>4

(* The sweep at the start of the server takes no file from a node that has *)
(* all of them, and leaves no directory without an owner (GCAssets).       *)
THEOREM SweepKeeps == Spec => SweepKeepsTheOwned
<1>1. LInv /\ [Next]_vars =>
        (crashes' # crashes =>
           /\ \A i \in Present : Agrees(i) => Agrees(i)'
           /\ \A r \in Refs : dir'[r] # Absent => Taken(r, {})')
  BY StepSweeps
<1>. QED  BY <1>1, LibraryInvariance, PTL DEF Spec, SweepKeepsTheOwned

(***************************************************************************)
(* The metadata of executions: the cache agrees with the database and no   *)
(* output of a node is lost, for any number of executions, outputs and     *)
(* callers.                                                                *)
(***************************************************************************)
USE CallersAssumption

Holds(c) == call[c].at \in {"merge", "write"}
InCall(c) ==
    /\ call[c].at # "idle" => call[c].exec \in Execs
    /\ call[c].at \in {"merge", "write"} <=> metaMu = c
Held(e)  == \E c \in Callers : Holds(c) /\ call[c].exec = e

(***************************************************************************)
(* CacheIsDb is not inductive: while the lock is held the object runs      *)
(* ahead of the database.  The object of an execution is the row's content *)
(* until the holder of the lock merges, and then the row's with the call   *)
(* merged into it, since nobody else writes the row meanwhile.             *)
(***************************************************************************)
CacheInv ==
    /\ \A e \in Execs : cached[e] /\ ~Held(e) => object[e] = db[e]
    /\ \A c \in Callers :
         /\ call[c].at = "merge" => object[call[c].exec] = db[call[c].exec]
         /\ call[c].at = "write" => object[call[c].exec] = Merged(db[call[c].exec], c)

IInv == MetadataTypeOK /\ CacheInv

-----------------------------------------------------------------------------
LEMMA EmptyIsMetadata == Empty \in Metadata
BY DEF Empty, Metadata, Statuses

LEMMA IdleIsCall ==
    Idle \in Call /\ Idle.at = "idle"
BY DEF Idle, Call, CallSteps, Statuses

LEMMA InitInv == MetadataInit => IInv
<1> SUFFICES ASSUME MetadataInit PROVE IInv
  OBVIOUS
<1>1. MetadataTypeOK
  <2>1. \A c \in Callers : call[c] = Idle /\ metaMu # c
    BY DEF MetadataInit
  <2>2. \A c \in Callers : InCall(c)
    BY <2>1, IdleIsCall DEF InCall
  <2>3. call \in [Callers -> Call]
    BY IdleIsCall DEF MetadataInit
  <2> QED BY <2>2, <2>3, EmptyIsMetadata DEF MetadataInit, MetadataTypeOK, InCall
<1>2. CacheInv
  BY DEF MetadataInit, CacheInv, Idle
<1> QED BY <1>1, <1>2 DEF IInv

(* A call in progress works on an execution.                               *)
LEMMA CallHasExec ==
    ASSUME MetadataTypeOK, NEW c \in Callers, call[c].at # "idle"
    PROVE  /\ call[c].exec \in Execs
           /\ call[c].status \in Statuses /\ call[c].outputs \in SUBSET Outputs
<1>1. call[c] \in Call
  BY DEF MetadataTypeOK
<1> QED BY <1>1 DEF MetadataTypeOK, Call

(* CallSteps most one caller is inside.                                           *)
LEMMA Exclusive ==
    ASSUME MetadataTypeOK, NEW c \in Callers, NEW d \in Callers, Holds(c), Holds(d)
    PROVE  c = d
BY DEF MetadataTypeOK, Holds

(* A new call reaches for the lock and changes nothing else.               *)
LEMMA CallsInv ==
    ASSUME IInv, NEW c \in Callers, NEW e \in Execs, NEW status \in Statuses,
           NEW outputs \in SUBSET Outputs, Calls(c, e, status, outputs)
    PROVE  IInv'
<1> DEFINE new == [at |-> "lock", exec |-> e, status |-> status, outputs |-> outputs]
<1>1. call' = [call EXCEPT ![c] = new] /\ call[c] = Idle
  BY DEF Calls
<1>2. new \in Call /\ new.at = "lock" /\ new.exec = e
  BY DEF Call, CallSteps
<1> HIDE DEF new
<1>3. call'[c] = new /\ \A d \in Callers \ {c} : call'[d] = call[d]
  BY <1>1 DEF IInv, MetadataTypeOK
<1>4. ~Holds(c)
  BY <1>1, IdleIsCall DEF Holds
<1>5. \A d \in Callers : Holds(d)' <=> Holds(d)
  BY <1>2, <1>3, <1>4 DEF Holds
<1>6. MetadataTypeOK'
  <2>1. call' \in [Callers -> Call]
    BY <1>1, <1>2 DEF IInv, MetadataTypeOK
  <2>2. \A d \in Callers : InCall(d)'
    BY <1>2, <1>3, <1>5 DEF IInv, MetadataTypeOK, Calls, InCall, Holds
  <2> QED BY <2>1, <2>2 DEF IInv, MetadataTypeOK, Calls, InCall
<1>7. CacheInv'
  <2>1. \A d \in Callers : call'[d].at \in {"merge", "write"} => call'[d] = call[d]
    BY <1>2, <1>3
  <2>2. \A x \in Execs : Held(x)' <=> Held(x)
    BY <1>2, <1>3, <1>4, <1>5 DEF Held, Holds
  <2>3. object' = object /\ db' = db /\ cached' = cached
    BY DEF Calls
  <2> QED BY <2>1, <2>2, <2>3 DEF IInv, CacheInv, Merged
<1> QED BY <1>6, <1>7 DEF IInv

LEMMA FetchInv ==
    ASSUME IInv, NEW c \in Callers, Fetch(c)
    PROVE  IInv'
<1> DEFINE e == call[c].exec
<1>1. e \in Execs
  BY CallHasExec DEF IInv, Fetch, Goes
<1>2. \A d \in Callers : ~Holds(d)
  BY DEF IInv, MetadataTypeOK, Holds, Fetch
<1>3. call' = [call EXCEPT ![c] = [@ EXCEPT !.at = "merge"]]
  BY DEF Fetch, Goes
<1>4. object[e] \in Metadata /\ db[e] \in Metadata
  BY <1>1 DEF IInv, MetadataTypeOK
<1>5. MetadataTypeOK'
  <2>1. call' \in [Callers -> Call]
    BY <1>1, <1>3 DEF IInv, MetadataTypeOK, Call, CallSteps
  <2>2. \A d \in Callers : InCall(d)'
    BY <1>1, <1>2, <1>3 DEF IInv, MetadataTypeOK, Fetch, Holds, InCall, Call
  <2>3. db' \in [Execs -> Metadata] /\ cached' \in [Execs -> BOOLEAN]
        /\ object' \in [Execs -> Metadata] /\ metaMu' \in Callers \cup {Nobody}
    BY <1>1, <1>4 DEF IInv, MetadataTypeOK, Fetch
  <2> QED BY <2>1, <2>2, <2>3 DEF MetadataTypeOK, InCall
<1>6. object'[e] = db[e]
  BY <1>1, <1>2 DEF IInv, MetadataTypeOK, CacheInv, Held, Fetch
<1>7. \A x \in Execs : x # e => object'[x] = object[x] /\ (cached'[x] <=> cached[x])
  BY <1>1 DEF IInv, MetadataTypeOK, Fetch
<1>8. db' = db /\ \A d \in Callers \ {c} : call'[d] = call[d]
  BY <1>3 DEF IInv, MetadataTypeOK, Fetch
<1>9. call'[c].at = "merge" /\ call'[c].exec = e
  BY <1>3 DEF IInv, MetadataTypeOK, Call, Idle
<1>10. CacheInv'
  BY <1>1, <1>2, <1>6, <1>7, <1>8, <1>9 DEF IInv, CacheInv, Held, Holds
<1> QED BY <1>5, <1>10 DEF IInv

(* Merging only adds outputs.                                              *)
LEMMA MergedAdds ==
    ASSUME IInv, NEW c \in Callers, call[c].at # "idle", NEW old \in Metadata
    PROVE  Merged(old, c) \in Metadata /\ old.outputs \subseteq Merged(old, c).outputs
BY CallHasExec DEF IInv, Merged, Metadata, Statuses

LEMMA MergeInv ==
    ASSUME IInv, NEW c \in Callers, Merge(c)
    PROVE  IInv'
<1> DEFINE e == call[c].exec
<1>1. e \in Execs /\ Holds(c)
  BY CallHasExec DEF IInv, Merge, Goes, Holds
<1>2. call' = [call EXCEPT ![c] = [@ EXCEPT !.at = "write"]]
  BY DEF Merge, Goes
<1>3. object'[e] = Merged(object[e], c) /\ object[e] \in Metadata
      /\ \A x \in Execs : x # e => object'[x] = object[x]
  BY <1>1 DEF IInv, MetadataTypeOK, Merge
<1>4. object'[e] \in Metadata /\ object[e].outputs \subseteq object'[e].outputs
  BY <1>3, MergedAdds DEF Merge, Goes
<1>5. object' \in [Execs -> Metadata]
  BY <1>1, <1>3, <1>4 DEF IInv, MetadataTypeOK, Merge
<1>6. MetadataTypeOK'
  <2>1. call' \in [Callers -> Call]
    BY <1>1, <1>2 DEF IInv, MetadataTypeOK, Call, CallSteps
  <2>2. \A d \in Callers : InCall(d)'
    BY <1>1, <1>2 DEF IInv, MetadataTypeOK, Merge, Holds, InCall, Call
  <2> QED BY <2>1, <2>2, <1>5 DEF IInv, MetadataTypeOK, Merge, InCall
<1>7. call'[c].at = "write" /\ call'[c].exec = e /\ \A d \in Callers \ {c} : call'[d] = call[d]
  BY <1>2 DEF IInv, MetadataTypeOK, Call, Idle
<1>8. \A d \in Callers \ {c} : ~Holds(d)
  BY <1>1, Exclusive DEF IInv
<1>9. object'[e] = Merged(db[e], c) /\ db' = db
  <2>1. db' = db /\ db[e] = object[e]
    BY DEF IInv, CacheInv, Merge, Goes
  <2> QED BY <1>3, <2>1
<1>10. call'[c].status = call[c].status /\ call'[c].outputs = call[c].outputs
  BY <1>2 DEF IInv, MetadataTypeOK, Call
<1>11. CacheInv'
  <2>1. \A x \in Execs : cached'[x] /\ ~Held(x)' => object'[x] = db'[x]
    BY <1>1, <1>3, <1>7 DEF IInv, CacheInv, Held, Holds, Merge
  <2>2. \A d \in Callers : call'[d].at \in {"merge", "write"} => d = c
    BY <1>7, <1>8 DEF Holds
  <2>3. object'[call'[c].exec] = Merged(db[call[c].exec], c)'
    BY <1>7, <1>9, <1>10 DEF Merged
  <2> QED BY <2>1, <2>2, <2>3, <1>7, <1>9 DEF CacheInv, Merged
<1> QED BY <1>6, <1>11 DEF IInv

LEMMA WriteInv ==
    ASSUME IInv, NEW c \in Callers, Write(c)
    PROVE  IInv' /\ \A e \in Execs : db[e].outputs \subseteq db'[e].outputs
<1> DEFINE e == call[c].exec
<1>1. e \in Execs /\ Holds(c)
  BY CallHasExec DEF IInv, Write, Goes, Holds
<1>2. \A d \in Callers \ {c} : ~Holds(d) /\ call'[d] = call[d]
  BY <1>1, Exclusive DEF IInv, MetadataTypeOK, Write, Goes
<1>3. call'[c] = Idle \/ call'[c] = [call[c] EXCEPT !.at = "forget"]
  BY DEF IInv, MetadataTypeOK, Write, Goes
<1>4. /\ call'[c] \in Call /\ call'[c].at \notin {"merge", "write"}
      /\ call'[c].at # "idle" => call'[c].exec \in Execs
  <2>1. CASE call'[c] = Idle
    BY <2>1, IdleIsCall
  <2>2. CASE call'[c] = [call[c] EXCEPT !.at = "forget"]
    BY <1>1, <2>2 DEF IInv, MetadataTypeOK, Call, CallSteps
  <2> QED BY <1>3, <2>1, <2>2
<1>5. db'[e] = object[e] /\ \A x \in Execs : x # e => db'[x] = db[x]
  BY <1>1 DEF IInv, MetadataTypeOK, Write
<1>6. MetadataTypeOK'
  <2>1. call' \in [Callers -> Call]
    BY <1>2, <1>4 DEF IInv, MetadataTypeOK, Write, Goes
  <2>2. db' \in [Execs -> Metadata]
    BY <1>1 DEF IInv, MetadataTypeOK, Write
  <2>3. \A d \in Callers : InCall(d)'
    BY <1>2, <1>4 DEF IInv, MetadataTypeOK, Write, Holds, InCall
  <2> QED BY <2>1, <2>2, <2>3 DEF IInv, MetadataTypeOK, Write, InCall
<1>7. CacheInv'
  <2>1. \A d \in Callers : call'[d].at \notin {"merge", "write"}
    BY <1>2, <1>4 DEF Holds
  <2>2. \A x \in Execs \ {e} : ~Held(x)
    BY <1>1, Exclusive DEF IInv, Held
  <2>3. \A x \in Execs : cached'[x] => object'[x] = db'[x]
    BY <1>5, <2>2 DEF IInv, CacheInv, Write
  <2> QED BY <2>1, <2>3 DEF CacheInv
<1>8. db[e].outputs \subseteq object[e].outputs
  <2>1. object[e] = Merged(db[e], c)
    BY DEF IInv, CacheInv, Write, Goes
  <2>2. db[e] \in Metadata /\ call[c].at # "idle"
    BY <1>1 DEF IInv, MetadataTypeOK, Holds
  <2> QED BY <2>1, <2>2, MergedAdds
<1> QED BY <1>5, <1>6, <1>7, <1>8 DEF IInv

(* The unlocked removal takes nothing from the holder of the lock.         *)
LEMMA ForgetInv ==
    ASSUME IInv, NEW c \in Callers, Forget(c)
    PROVE  IInv'
<1>1. call[c].exec \in Execs
  BY CallHasExec DEF IInv, Forget, Goes
<1>2. call' = [call EXCEPT ![c] = Idle] /\ call[c].at = "forget"
  BY DEF Forget, Goes
<1>3. MetadataTypeOK'
  <2>1. call' \in [Callers -> Call]
    BY <1>2, IdleIsCall DEF IInv, MetadataTypeOK
  <2>2. \A d \in Callers : InCall(d)'
    BY <1>2, IdleIsCall DEF IInv, MetadataTypeOK, Forget, InCall, Idle
  <2> QED BY <1>1, <2>1, <2>2 DEF IInv, MetadataTypeOK, Forget, InCall
<1>4. \A d \in Callers : Holds(d) => call'[d] = call[d]
  BY <1>2 DEF IInv, MetadataTypeOK, Holds
<1>5. \A d \in Callers : call'[d].at \in {"merge", "write"} => call'[d] = call[d]
  BY <1>2 DEF IInv, MetadataTypeOK, Idle
<1>6. \A x \in Execs : (Held(x)' <=> Held(x)) /\ (cached'[x] => cached[x])
  BY <1>1, <1>4, <1>5 DEF IInv, MetadataTypeOK, Held, Holds, Forget
<1>7. CacheInv'
  BY <1>5, <1>6 DEF IInv, CacheInv, Forget, Merged
<1> QED BY <1>3, <1>7 DEF IInv

LEMMA CrashInv ==
    ASSUME IInv, Crash
    PROVE  IInv'
<1>1. MetadataTypeOK'
  <2>1. call' \in [Callers -> Call] /\ \A c \in Callers : call'[c] = Idle
    BY IdleIsCall DEF Crash
  <2>2. \A c \in Callers : InCall(c)'
    BY <2>1, IdleIsCall DEF Crash, InCall, Idle
  <2> QED BY <2>1, <2>2 DEF IInv, MetadataTypeOK, Crash, InCall
<1>2. CacheInv'
  BY DEF CacheInv, Crash, Idle
<1> QED BY <1>1, <1>2 DEF IInv

-----------------------------------------------------------------------------
(* One step of the specification.                                          *)
LEMMA StepInv ==
    ASSUME IInv, [MetadataNext]_metadataVars
    PROVE  IInv' /\ \A e \in Execs : db[e].outputs \subseteq db'[e].outputs
<1>1. CASE \E e \in Execs : BridgeCalls(e) \/ \E c \in Callers : OtherCalls(c, e)
  <2>1. PICK c \in Callers, e \in Execs, status \in Statuses, outputs \in SUBSET Outputs :
             Calls(c, e, status, outputs)
    BY <1>1 DEF BridgeCalls, OtherCalls, Statuses
  <2> QED BY <2>1, CallsInv DEF Calls
<1>2. CASE \E c \in Callers : Fetch(c)
  BY <1>2, FetchInv DEF Fetch
<1>3. CASE \E c \in Callers : Merge(c)
  BY <1>3, MergeInv DEF Merge
<1>4. CASE \E c \in Callers : Write(c)
  BY <1>4, WriteInv
<1>5. CASE \E c \in Callers : Forget(c)
  BY <1>5, ForgetInv DEF Forget
<1>6. CASE Crash
  BY <1>6, CrashInv DEF Crash
<1>7. CASE UNCHANGED metadataVars
  BY <1>7 DEF IInv, MetadataTypeOK, CacheInv, Merged, Held, Holds, metadataVars
<1> QED BY <1>1, <1>2, <1>3, <1>4, <1>5, <1>6, <1>7 DEF MetadataNext

(* Whatever holds metaMu, and wherever the server stops, the state of the  *)
(* cache and of the lock is consistent.                                    *)
THEOREM Invariance == MetadataSpec => []IInv
<1>1. MetadataInit => IInv
  BY InitInv
<1>2. IInv /\ [MetadataNext]_metadataVars => IInv'
  BY StepInv
<1> QED BY <1>1, <1>2, PTL DEF MetadataSpec

(* The types; a caller that reads or writes the object holds the lock, and *)
(* nobody else does (metaMu).                                              *)
THEOREM MetadataTyped == MetadataSpec => []MetadataTypeOK
<1>1. IInv => MetadataTypeOK
  BY DEF IInv
<1> QED BY <1>1, Invariance, PTL

(* Outside the lock a cached object is the row's (setExecutionMetadata,    *)
(* and the unlocked delete of persistRuntimeEvent).                        *)
THEOREM CacheAgrees == MetadataSpec => []CacheIsDb
<1>1. IInv => CacheIsDb
  <2> SUFFICES ASSUME IInv, NEW e \in Execs, metaMu = Nobody, cached[e]
               PROVE  object[e] = db[e]
    BY DEF CacheIsDb
  <2>1. ~Held(e)
    BY DEF IInv, MetadataTypeOK, Held, Holds
  <2> QED BY <2>1 DEF IInv, CacheInv
<1> QED BY <1>1, Invariance, PTL

(* No step takes an output of a node out of the database.                  *)
THEOREM NoOutputIsLost == MetadataSpec => OutputsNeverLost
<1>1. IInv /\ [MetadataNext]_metadataVars => [\A e \in Execs : db[e].outputs \subseteq db'[e].outputs]_db
  BY StepInv
<1> QED BY <1>1, Invariance, PTL DEF MetadataSpec, OutputsNeverLost

-----------------------------------------------------------------------------
(* Refinement of MetadataStore.                                            *)

LEMMA AskingStays ==
    ASSUME \A c \in Callers : Asks(call'[c]) = Asks(call[c])
    PROVE  asking' = asking
BY DEF asking

LEMMA AskingMoves ==
    ASSUME NEW c \in Callers, \A d \in Callers \ {c} : call'[d] = call[d]
    PROVE  asking' = [asking EXCEPT ![c] = Asks(call'[c])]
BY DEF asking

LEMMA InitRefines == MetadataInit => Store!Init
<1> SUFFICES ASSUME MetadataInit PROVE Store!Init
  OBVIOUS
<1>1. \A c \in Callers : Asks(call[c]) = {}
  BY IdleIsCall DEF MetadataInit, Asks
<1> QED BY <1>1 DEF MetadataInit, Store!Init, asking, Empty

(* A call begins in the store when it reaches for the lock.                *)
LEMMA CallsRefines ==
    ASSUME IInv, NEW c \in Callers, NEW e \in Execs, NEW status \in Statuses,
           NEW outputs \in SUBSET Outputs, Calls(c, e, status, outputs)
    PROVE  Store!Ask(c)
<1> DEFINE update == [exec |-> e, status |-> status, outputs |-> outputs]
           new == [at |-> "lock", exec |-> e, status |-> status, outputs |-> outputs]
<1>1. update \in Store!Updates
  BY DEF Store!Updates, Store!Statuses, Statuses
<1>2. call'[c] = new /\ call[c] = Idle /\ \A d \in Callers \ {c} : call'[d] = call[d]
  BY DEF IInv, MetadataTypeOK, Calls
<1>3. Asks(call'[c]) = {update}
  BY <1>2 DEF Asks
<1>4. asking[c] = {}
  BY <1>2, IdleIsCall DEF asking, Asks
<1>5. asking' = [asking EXCEPT ![c] = {update}]
  BY <1>2, <1>3, AskingMoves
<1> QED BY <1>1, <1>4, <1>5 DEF Store!Ask, Calls

(* Reading and merging are not seen.                                       *)
LEMMA InsideRefines ==
    ASSUME IInv, NEW c \in Callers, Fetch(c) \/ Merge(c)
    PROVE  db' = db /\ asking' = asking
<1>1. PICK to \in {"merge", "write"} : call' = [call EXCEPT ![c] = [@ EXCEPT !.at = to]]
  BY DEF Fetch, Merge, Goes
<1>2. call[c].at \in {"lock", "merge"} /\ call[c] \in Call
  BY DEF IInv, MetadataTypeOK, Fetch, Merge, Goes
<1>3. /\ call'[c].at = to /\ call'[c].exec = call[c].exec
      /\ call'[c].status = call[c].status /\ call'[c].outputs = call[c].outputs
      /\ \A d \in Callers \ {c} : call'[d] = call[d]
  BY <1>1, <1>2 DEF IInv, MetadataTypeOK, Call
<1>4. \A d \in Callers : Asks(call'[d]) = Asks(call[d])
  BY <1>2, <1>3 DEF Asks
<1> QED BY <1>4, AskingStays DEF Fetch, Merge

(* The write is where the call takes effect.                               *)
LEMMA WriteRefines ==
    ASSUME IInv, NEW c \in Callers, Write(c)
    PROVE  Store!Commit(c)
<1> DEFINE update == [exec |-> call[c].exec, status |-> call[c].status, outputs |-> call[c].outputs]
<1>1. call[c].at = "write" /\ call[c].exec \in Execs
  BY CallHasExec DEF IInv, Write, Goes
<1>2. asking[c] = {update}
  BY <1>1 DEF asking, Asks
<1>3. call'[c] = Idle \/ call'[c] = [call[c] EXCEPT !.at = "forget"]
  BY DEF IInv, MetadataTypeOK, Write, Goes
<1>4. \A d \in Callers \ {c} : call'[d] = call[d]
  BY DEF IInv, MetadataTypeOK, Write, Goes
<1>5. call'[c].at \in {"idle", "forget"}
  <2>1. CASE call'[c] = Idle
    BY <2>1, IdleIsCall
  <2>2. CASE call'[c] = [call[c] EXCEPT !.at = "forget"]
    BY <2>2 DEF IInv, MetadataTypeOK, Call
  <2> QED BY <1>3, <2>1, <2>2
<1>6. asking' = [asking EXCEPT ![c] = {}]
  BY <1>4, <1>5, AskingMoves DEF Asks
<1>7. object[update.exec] = Store!Into(db[update.exec], update)
  BY <1>1 DEF IInv, CacheInv, Merged, Store!Into
<1>8. db' = [db EXCEPT ![update.exec] = Store!Into(@, update)]
  BY <1>7 DEF Write
<1> QED BY <1>2, <1>6, <1>8 DEF Store!Commit

LEMMA ForgetRefines ==
    ASSUME IInv, NEW c \in Callers, Forget(c)
    PROVE  db' = db /\ asking' = asking
<1>1. call' = [call EXCEPT ![c] = Idle] /\ call[c].at = "forget"
  BY DEF Forget, Goes
<1>2. \A d \in Callers : Asks(call'[d]) = Asks(call[d])
  BY <1>1, IdleIsCall DEF IInv, MetadataTypeOK, Asks
<1> QED BY <1>2, AskingStays DEF Forget

LEMMA CrashRefines ==
    ASSUME Crash
    PROVE  Store!Stop
<1>1. \A c \in Callers : Asks(call'[c]) = {}
  BY IdleIsCall DEF Crash, Asks
<1>2. asking' = [c \in Callers |-> {}]
  BY <1>1 DEF asking
<1> QED BY <1>2 DEF Crash, Store!Stop

LEMMA StepRefines ==
    ASSUME IInv, [MetadataNext]_metadataVars
    PROVE  [Store!Next]_<<db, asking>>
<1>1. CASE \E e \in Execs : BridgeCalls(e) \/ \E c \in Callers : OtherCalls(c, e)
  <2>1. PICK c \in Callers, e \in Execs, status \in Statuses, outputs \in SUBSET Outputs :
             Calls(c, e, status, outputs)
    BY <1>1 DEF BridgeCalls, OtherCalls, Statuses
  <2> QED BY <2>1, CallsRefines DEF Store!Next
<1>2. CASE \E c \in Callers : Fetch(c) \/ Merge(c)
  BY <1>2, InsideRefines
<1>3. CASE \E c \in Callers : Write(c)
  BY <1>3, WriteRefines DEF Store!Next
<1>4. CASE \E c \in Callers : Forget(c)
  BY <1>4, ForgetRefines
<1>5. CASE Crash
  BY <1>5, CrashRefines DEF Store!Next
<1>6. CASE UNCHANGED metadataVars
  BY <1>6 DEF metadataVars, asking
<1> QED BY <1>1, <1>2, <1>3, <1>4, <1>5, <1>6 DEF MetadataNext

(* Each call of setExecutionMetadata takes effect in one step: the lock,   *)
(* the cache and the removal from it implement the plain store.            *)
THEOREM RefinesTheStore == MetadataSpec => CallsAreAtomic
<1>1. MetadataInit => Store!Init
  BY InitRefines
<1>2. IInv /\ [MetadataNext]_metadataVars => [Store!Next]_(Store!storeVars)
  BY StepRefines DEF Store!storeVars
<1> QED BY <1>1, <1>2, Invariance, PTL DEF MetadataSpec, CallsAreAtomic, Store!Spec

=============================================================================
