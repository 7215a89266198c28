--------------------------- MODULE ExecutorRegistry ---------------------------
(***************************************************************************)
(* The executors table: named executor instances of type local or docker,  *)
(* at most one of them local, exactly one of them the default, some        *)
(* disabled.  ExecutorService reads the row of a request in one SQL        *)
(* statement, checks it, and writes in another one, so what it checked may *)
(* be stale when it writes.  SetDefault clears and sets in a transaction,  *)
(* which holds the only connection of the pool and so is one step.         *)
(*                                                                         *)
(* Simplifications: a name is its rank in the ORDER BY of List; a config   *)
(* is a member of a small set; descriptions, time stamps, audit records    *)
(* and events are left out; a request whose first check fails leaves no    *)
(* trace and is not an action; SQL statements do not fail.                 *)
(***************************************************************************)
EXTENDS Naturals, FiniteSets

CONSTANTS
    Names,      \* instance names, by rank
    Configs,    \* config objects
    MaxId,      \* bound: rows ever inserted (ids are never used again)
    Requests,   \* concurrent HTTP requests
    MaxCalls,   \* bound: requests that pass their check
    SeedName,   \* "local"
    SeedConfig, \* "{}", the empty config
    Keep,       \* an update that carries no config
    Gone        \* no row

Types == {"local", "docker"}
Ids   == 1 .. MaxId

ASSUME RegistryAssumption ==
    /\ Names \subseteq Nat
    /\ MaxId \in Nat \ {0} /\ MaxCalls \in Nat
    /\ SeedName \in Names /\ SeedConfig \in Configs
    /\ Keep \notin Configs

Executor == [name : Names, type : Types, config : Configs,
             isDefault : BOOLEAN, disabled : BOOLEAN]

ASSUME GoneAssumption == Gone \notin Executor

VARIABLES
    rows,   \* the executors table
    lastId, \* its AUTOINCREMENT counter
    req,    \* what each request is about to write, and the row it read
    calls   \* requests so far

registryVars == <<rows, lastId, req, calls>>

Ops  == {"update", "delete", "disable", "enable", "default"}
Idle == [op |-> "none", id |-> 1, seen |-> Gone, config |-> Keep]

RegistryTypeOK ==
    /\ rows \in [Ids -> Executor \cup {Gone}]
    /\ lastId \in Ids
    /\ req \in [Requests -> [op : Ops \cup {"none"}, id : Ids,
                             seen : Executor \cup {Gone},
                             config : Configs \cup {Keep}]]
    /\ calls \in Nat

Present == {i \in Ids : rows[i] # Gone}

\* Migration 010 seeds the local executor as the default.
RegistryInit ==
    /\ rows = [i \in Ids |->
                 IF i = 1 THEN [name |-> SeedName, type |-> "local", config |-> SeedConfig,
                                isDefault |-> TRUE, disabled |-> FALSE]
                 ELSE Gone]
    /\ lastId = 1
    /\ req = [r \in Requests |-> Idle]
    /\ calls = 0

-----------------------------------------------------------------------------
(* Requests                                                                *)

\* One INSERT, refused by the unique indexes on the name and on type local.
Create(name, type, config) ==
    /\ lastId < MaxId
    /\ \A i \in Present : rows[i].name # name
    /\ type = "local" => \A i \in Present : rows[i].type # "local"
    /\ lastId' = lastId + 1
    /\ rows' = [rows EXCEPT ![lastId + 1] =
                  [name |-> name, type |-> type, config |-> config,
                   isDefault |-> FALSE, disabled |-> FALSE]]
    /\ UNCHANGED <<req, calls>>

\* Mutant: the default executor can be deleted.
PassesDeleteUnchecked(op, row) ==
    /\ op \in {"disable", "default"} => ~row.isDefault /\ ~row.disabled
    /\ op = "enable" => row.disabled

\* What the service checks on the row it read, and when it has nothing to do.
Passes(op, row) ==
    /\ op \in {"delete", "disable", "default"} => ~row.isDefault
    /\ op \in {"disable", "default"} => ~row.disabled
    /\ op = "enable" => row.disabled

ReadRow(r, op, i, config) ==
    /\ req[r] = Idle
    /\ calls < MaxCalls /\ calls' = calls + 1
    /\ i \in Present
    /\ Passes(op, rows[i])
    /\ req' = [req EXCEPT ![r] =
                 [op |-> op, id |-> i, seen |-> rows[i], config |-> config]]
    /\ UNCHANGED <<rows, lastId>>

\* UPDATE or DELETE ... WHERE id = ?: a row that is gone is not written.
Writes(r, op) ==
    /\ req[r].op = op
    /\ req' = [req EXCEPT ![r] = Idle]
    /\ UNCHANGED <<lastId, calls>>

\* A request without a config writes back the one it read.
Update(r) ==
    /\ Writes(r, "update")
    /\ rows' = [rows EXCEPT ![req[r].id] =
                  IF @ = Gone THEN Gone
                  ELSE [@ EXCEPT !.config = IF req[r].config = Keep THEN req[r].seen.config
                                            ELSE req[r].config]]

Delete(r) ==
    /\ Writes(r, "delete")
    /\ rows' = [rows EXCEPT ![req[r].id] = Gone]

SetDisabled(r, op) ==
    /\ op \in {"disable", "enable"}
    /\ Writes(r, op)
    /\ rows' = [rows EXCEPT ![req[r].id] =
                  IF @ = Gone THEN Gone ELSE [@ EXCEPT !.disabled = (op = "disable")]]

SetDefault(r) ==
    /\ Writes(r, "default")
    /\ rows' = [i \in Ids |-> IF rows[i] = Gone THEN Gone
                              ELSE [rows[i] EXCEPT !.isDefault = (i = req[r].id)]]

Request(r) ==
    \/ \E op \in Ops \ {"update"}, i \in Ids : ReadRow(r, op, i, Keep)
    \/ \E i \in Ids, config \in Configs \cup {Keep} : ReadRow(r, "update", i, config)
    \/ Update(r) \/ Delete(r) \/ SetDefault(r)
    \/ \E op \in Ops : SetDisabled(r, op)

RegistryNext ==
    \/ \E name \in Names, type \in Types, config \in Configs : Create(name, type, config)
    \/ \E r \in Requests : Request(r)

RegistrySpec == RegistryInit /\ [][RegistryNext]_registryVars

-----------------------------------------------------------------------------
(* Resolvers, each one query                                               *)

Defaults == {i \in Present : rows[i].isDefault}

\* ResolveForNode(ref): the enabled instance of that name.
ByName(name) == {i \in Present : rows[i].name = name /\ ~rows[i].disabled}

\* ResolveTypeForNode: the first enabled instance of the type in List order,
\* the default one before the others, then by name.
ByType(type) ==
    LET able  == {i \in Present : rows[i].type = type /\ ~rows[i].disabled}
        first == IF able \cap Defaults # {} THEN able \cap Defaults ELSE able
    IN  {i \in first : \A j \in first : rows[i].name <= rows[j].name}

-----------------------------------------------------------------------------
(* Properties                                                              *)

(* There is exactly one default executor, and it is enabled.               *)
OneDefault ==
    /\ \E i \in Defaults : ~rows[i].disabled
    /\ \A i, j \in Defaults : i = j

(* The default is only ever lost (deleted, disabled, or cleared without a  *)
(* successor) by a request that writes after the row it checked has        *)
(* changed: as long as no two requests overlap on a row, every node that   *)
(* names no executor has one (Delete, SetDisabled and SetDefault check the *)
(* row in one statement and write it in another).                          *)
OnlyStaleReadsLoseDefault ==
    [][OneDefault =>
         \/ OneDefault'
         \/ \E r \in Requests :
              /\ req[r] # Idle /\ req'[r] = Idle
              /\ req[r].seen # rows[req[r].id]]_registryVars

=============================================================================
