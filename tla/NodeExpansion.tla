----------------------------- MODULE NodeExpansion -----------------------------
(***************************************************************************)
(* Expansion of the nodeRef nodes of a workflow against the registry of    *)
(* executors: every node is resolved to an executor entry of the expanded  *)
(* YAML, which is saved as the snapshot of the execution.  A continue      *)
(* expands the nodes added since then into the saved entries, while the    *)
(* registry may have changed in between, or changes while it runs.         *)
(*                                                                         *)
(* cfg.Nodes is a Go map: the order of its nodes is arbitrary.             *)
(*                                                                         *)
(* Simplifications: the YAML brings no executors of its own; a registered  *)
(* config has no image (validateExecutor refuses the key) and an inline    *)
(* executor of a package no config; the queries for the candidate types of *)
(* one node are one step; no instance is called <package>-executor, the    *)
(* name of an anonymous entry; the short hash and the cleaned parts of a   *)
(* name do not collide; parameters, scripts and assets are left out.       *)
(***************************************************************************)
EXTENDS ExecutorRegistry, Sequences

CONSTANTS
    Nodes,        \* nodes of the workflow
    Images,       \* container images
    Tag,          \* Tag[i]: the last path segment of image i
    Workflows,    \* what workflow and package say of each node
    None          \* nothing declared, an empty part of a name

(***************************************************************************)
(* package: the name of the package the node refers to; two nodes may      *)
(* refer to two versions of it, which differ in all that follows.          *)
(* selectRef, selectType: config.executor of the workflow's node.          *)
(* kind, of: the executor of the package, which names an instance, a type, *)
(* a list of types with the preferred one first, or nothing (node_import   *)
(* refuses combinations).  image: the image of the package.                *)
(***************************************************************************)
Declared(d) ==
    /\ d.package \notin Names
    /\ d.selectRef \in Names \cup {None} /\ d.selectType \in Types \cup {None}
    /\ \/ d.kind = "ref" /\ d.of \in Names
       \/ d.kind = "inline" /\ d.of \in Types
       \/ d.kind = "portable" /\ d.of \in Seq(Types) /\ d.of # <<>>
       \/ d.kind = "plain" /\ d.of = None
    /\ d.image \in Images \cup {None}

ASSUME WorkflowsAssumption == \A w \in Workflows, n \in Nodes : Declared(w[n])
ASSUME NoneAssumption ==
    /\ None \notin Names /\ None \notin Types /\ None \notin Images
    /\ \A i \in Images : Tag[i] # None

VARIABLES
    declared, \* the declaration of each node
    todo,     \* the nodes that the expansion under way has left
    entries,  \* its Executors map
    placed,   \* the entry and the type each expanded node got
    saved     \* entries and placed in the snapshot

expansionVars == <<declared, todo, entries, placed, saved>>
allVars == <<registryVars, expansionVars>>

Range(seq) == {seq[k] : k \in DOMAIN seq}

\* Names: an instance, an instance and an image, the same with a hash, a package.
Plain(name)           == <<name, None, None, None>>
Tagged(name, image)   == <<name, Tag[image], None, None>>
Hashed(name, entry)   == <<name, Tag[entry.image], entry.config, entry.image>>
Anonymous(package)    == <<package, None, None, None>>

Unplaced == [name |-> None, type |-> None, registered |-> FALSE]
NoEntries == [name \in {} |-> None]

ExpansionInit ==
    /\ RegistryInit
    /\ declared \in Workflows
    /\ todo = {}
    /\ entries = NoEntries
    /\ placed = [n \in Nodes |-> Unplaced]
    /\ saved = [entries |-> entries, placed |-> placed]

-----------------------------------------------------------------------------
(* Which executor: resolveNodeExecutor                                     *)

FromRegistry(ids) == {[type |-> rows[i].type, row |-> rows[i]] : i \in ids}
MadeUp(type)      == {[type |-> type, row |-> Gone]}
Either(ids, type) == IF ids # {} THEN FromRegistry(ids) ELSE MadeUp(type)

\* Mutant: a selected instance is taken whatever the package supports.
AllowsAnything(d, type) == TRUE

Allows(d, type) == d.kind # "portable" \/ type \in Range(d.of)

SelectedRef(d) ==
    FromRegistry({i \in ByName(d.selectRef) :
                    /\ d.selectType \in {None, rows[i].type}
                    /\ Allows(d, rows[i].type)})

SelectedType(d) ==
    IF Allows(d, d.selectType) THEN Either(ByType(d.selectType), d.selectType) ELSE {}

\* The first candidate type that has an instance, else a made up one.
Portable(d) ==
    LET able == {k \in DOMAIN d.of : ByType(d.of[k]) # {}}
    IN  IF able = {} THEN MadeUp(d.of[1])
        ELSE FromRegistry(ByType(d.of[CHOOSE k \in able : \A j \in able : k <= j]))

DockerDefault == {i \in Defaults : rows[i].type = "docker"}

\* The empty set is an error.
Resolutions(d) ==
    CASE d.selectRef # None -> SelectedRef(d)
      [] d.selectRef = None /\ d.selectType # None -> SelectedType(d)
      [] d.selectRef = None /\ d.selectType = None ->
           CASE d.kind = "ref"      -> FromRegistry(ByName(d.of))
             [] d.kind = "inline"   -> MadeUp(d.of)
             [] d.kind = "portable" -> Portable(d)
             [] d.kind = "plain" /\ d.image # None -> Either(DockerDefault, "docker")
             [] d.kind = "plain" /\ d.image = None -> FromRegistry(Defaults)

-----------------------------------------------------------------------------
(* Which entry: addRegisteredExecutor, addAnonymousExecutor                *)

PutEntry(name, entry) ==
    [x \in DOMAIN entries \cup {name} |-> IF x = name THEN entry ELSE entries[x]]

\* Mutants: an entry is refreshed from the registry; no hash is appended.
AddPlainRefreshed(row) ==
    {[name |-> Plain(row.name),
      entries |-> PutEntry(Plain(row.name), [type |-> row.type, config |-> row.config,
                                        image |-> None])]}

AddTaggedUnhashed(row, image) ==
    LET entry == [type |-> row.type, config |-> row.config, image |-> image]
    IN  {[name |-> Tagged(row.name, image), entries |-> PutEntry(Tagged(row.name, image), entry)]}

\* An entry of that name is used as it is.
AddPlain(row) ==
    {[name |-> Plain(row.name),
      entries |-> IF Plain(row.name) \in DOMAIN entries THEN entries
                  ELSE PutEntry(Plain(row.name), [type |-> row.type, config |-> row.config,
                                             image |-> None])]}

\* An equal entry is shared; otherwise the node's image goes into a copy.
AddTagged(row, image) ==
    LET entry == [type |-> row.type, config |-> row.config, image |-> image]
        equal == {x \in DOMAIN entries : entries[x] = entry}
        name  == IF Tagged(row.name, image) \in DOMAIN entries
                 THEN Hashed(row.name, entry) ELSE Tagged(row.name, image)
    IN  IF equal # {} THEN {[name |-> x, entries |-> entries] : x \in equal}
        ELSE {[name |-> name, entries |-> PutEntry(name, entry)]}

\* The plain name is looked up first, then the image counts.
AddRegistered(row, image) ==
    IF Plain(row.name) \notin DOMAIN entries /\ row.type = "docker" /\ image # None
    THEN AddTagged(row, image) ELSE AddPlain(row)

\* Mutant: the entry is not written.
AddAnonymousUnwritten(n, type) ==
    {[name |-> Anonymous(declared[n].package), entries |-> entries]}

\* An entry of the package's own name, written over what is there.
MadeEntry(d, type) == [type |-> type, config |-> SeedConfig,
                       image |-> IF type = "docker" THEN d.image ELSE None]
AddAnonymous(n, type) ==
    LET name == Anonymous(declared[n].package)
    IN  {[name |-> name, entries |-> PutEntry(name, MadeEntry(declared[n], type))]}

Adds(n, choice) ==
    IF choice.row = Gone THEN AddAnonymous(n, choice.type)
    ELSE AddRegistered(choice.row, declared[n].image)

-----------------------------------------------------------------------------
(* expandWorkflowConfig                                                    *)

\* A run expands all its nodes, a continue those that are new.
Begin(nodes) ==
    /\ todo = {} /\ nodes # {}
    /\ \A n \in nodes : placed[n] = Unplaced
    /\ todo' = nodes
    /\ UNCHANGED <<declared, entries, placed, saved, registryVars>>

Expand(n) ==
    /\ n \in todo
    /\ todo' = todo \ {n}
    /\ \E choice \in Resolutions(declared[n]) : \E add \in Adds(n, choice) :
         /\ entries' = add.entries
         /\ placed' = [placed EXCEPT ![n] = [name |-> add.name, type |-> choice.type,
                                             registered |-> choice.row # Gone]]
    /\ saved' = IF todo' = {} THEN [entries |-> entries', placed |-> placed'] ELSE saved
    /\ UNCHANGED <<declared, registryVars>>

\* One node that does not resolve fails the whole expansion.
Refuse(n) ==
    /\ n \in todo
    /\ Resolutions(declared[n]) = {}
    /\ todo' = {}
    /\ entries' = saved.entries
    /\ placed' = saved.placed
    /\ UNCHANGED <<declared, saved, registryVars>>

Expansion ==
    \/ \E nodes \in SUBSET Nodes : Begin(nodes)
    \/ \E n \in Nodes : Expand(n) \/ Refuse(n)

ExpansionNext ==
    \/ RegistryNext /\ UNCHANGED expansionVars
    \/ Expansion

ExpansionSpec == ExpansionInit /\ [][ExpansionNext]_allVars

-----------------------------------------------------------------------------
(* Properties                                                              *)

Entry == [type : Types, config : Configs, image : Images \cup {None}]

ExpansionTypeOK ==
    /\ RegistryTypeOK
    /\ declared \in Workflows
    /\ todo \subseteq Nodes
    /\ \A x \in DOMAIN entries : entries[x] \in Entry
    /\ \A n \in Nodes : placed[n] # Unplaced => placed[n].name \in DOMAIN entries
    /\ todo = {} => saved = [entries |-> entries, placed |-> placed]

(* The anonymous entry of a package is written for each of its nodes that  *)
(* needs one; two versions of the package, or two types selected by the    *)
(* workflow, write different entries under the same name.                  *)
Made(n) == placed[n] # Unplaced /\ ~placed[n].registered
Rewritten(name) ==
    \E m, n \in Nodes :
        /\ Made(m) /\ Made(n) /\ placed[m].name = name /\ placed[n].name = name
        /\ MadeEntry(declared[m], placed[m].type) # MadeEntry(declared[n], placed[n].type)

(* A node never runs in the image of another one: its entry has its own    *)
(* image and the type it was expanded for, or no image; and one without an *)
(* instance runs in what was made for it.  The exception is an anonymous   *)
(* entry that two nodes write differently, which also is the wrong one for *)
(* the nodes of registered instances that share it (synthesizedExecutor-   *)
(* Name, findCompatibleExecutor and the hash of addRegisteredExecutor,     *)
(* although an image gives only its last segment to the name and configs   *)
(* change between two expansions).                                         *)
NoForeignImage ==
    \A n \in Nodes :
        placed[n] # Unplaced /\ ~Rewritten(placed[n].name) =>
            LET entry == entries[placed[n].name]
            IN  /\ entry.image # None => entry.image = declared[n].image /\ entry.type = placed[n].type
                /\ Made(n) => entry = MadeEntry(declared[n], placed[n].type)

(* A node runs only on a type that its package supports, whatever the      *)
(* workflow selects and the registry degrades to.                          *)
SupportedTypeOnly ==
    \A n \in Nodes :
        placed[n] # Unplaced /\ declared[n].kind = "portable"
            => placed[n].type \in Range(declared[n].of)

(* The entries of registered executors in a snapshot are only ever added   *)
(* to: the engine refuses a continue that changes one, and the registry    *)
(* may have changed since the snapshot was taken.                          *)
SharedEntriesAreAdditive ==
    [][\A x \in DOMAIN saved.entries :
         x[1] \in Names => x \in DOMAIN saved'.entries /\ saved'.entries[x] = saved.entries[x]
      ]_saved

=============================================================================
