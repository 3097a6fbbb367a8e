----------------------------- MODULE DataSources -----------------------------
(***************************************************************************)
(* Clients whose data comes from the application: src/integrations,         *)
(* test_data.c and file_data.c, with the calls of client.c that start and   *)
(* close a data source.                                                     *)
(*                                                                          *)
(* Threads of the application change test data while clients start and      *)
(* close.  A lock guards the test data, but the new flag is passed to the   *)
(* clients after it is released, and a client registers its store after it  *)
(* has taken its copy.  The application is assumed to change one flag from  *)
(* one thread at a time, and to close no client while a change is passed    *)
(* on: otherwise the code reads memory that another thread has freed.       *)
(***************************************************************************)
EXTENDS FlagBuilder, FileData

CONSTANTS
    Keys,        \* the keys of flags
    Threads,     \* threads that change the test data
    Clients,     \* clients; each may have a data source
    Scripts,     \* flag key to the sequences of builder calls made on it
    FileLists,   \* lists of files passed to LDFileDataInit
    AppUsers,    \* users that flags are evaluated for
    MaxUpdates,  \* bound: changes of flags
    MaxFailures  \* bound: calls of LDStoreInit that fail

ASSUME SourcesBoundsAssumption == MaxUpdates \in Nat /\ MaxFailures \in Nat
\* An absent or malformed field is none of the things it is compared with.
ASSUME AbsentAssumption ==
    /\ Null \notin Int /\ Bad \notin Int /\ "salt" \notin {Null, Bad} /\ "in" # Bad
    /\ Bad \notin BOOLEAN /\ <<>> # Bad /\ TrueFalse \notin {Null, Bad}
    /\ Bad \notin [variation : Int, values : SUBSET STRING]
    /\ Bad \notin Seq([variation : Int, values : SUBSET STRING])
\* The arguments of builder calls have the types of the API, which has no
\* Boolean variant of the calls that set variations.
CallOK(call) ==
    /\ call.boolean \in BOOLEAN
    /\ call.op \in {"boolean", "on", "fallthrough", "off", "all", "value", "user",
                    "variations", "if", "and", "then"}
    /\ call.op \in {"fallthrough", "off", "all", "user", "then"} => call.arg \in Int
    /\ call.op = "on" => call.arg \in BOOLEAN
    /\ call.op = "user" => call.user \in STRING
    /\ call.op \in {"variations", "value"} =>
         /\ ~call.boolean
         /\ IsSeq(asJSONArray(call.arg)) /\ asJSONArray(call.arg) \notin {Null, Bad}
    /\ call.op \in {"if", "and"} =>
         /\ call.arg.negate \in BOOLEAN /\ call.arg.values # Bad
         /\ LDi_buildClauseJSON(call.arg) # Bad /\ call.arg.attribute # Bad
ASSUME ScriptsAssumption ==
    \A k \in Keys : \A script \in Scripts[k] :
        IsSeq(script) /\ \A i \in DOMAIN script : CallOK(script[i])
\* The elements of an array are no collections.
ASSUME AppUsersAssumption ==
    \A user \in AppUsers : \A a \in DOMAIN user.attrs :
        LET v == user.attrs[a] IN
        (v # Null /\ v.type = "array") =>
            /\ IsSeq(v.elements)
            /\ \A e \in Range(v.elements) : ~Nested(e)
ASSUME FilesAssumption ==
    \A list \in FileLists :
        /\ IsSeq(list)
        /\ \A n \in DOMAIN list : list[n] \notin {Null, Bad} =>
             /\ \A k \in DOMAIN list[n].flags : "variations" \in DOMAIN list[n].flags[k]
             /\ \A k \in DOMAIN list[n].flagValues :
                  <<list[n].flagValues[k]>> \notin {Null, Bad}

VARIABLES
    flagBuilders,  \* testData->flagBuilders, a map from the keys that have one
    currentFlags,  \* testData->currentFlags, likewise
    instances,     \* testData->instances, the newest first
    app,           \* what each thread is doing
    client,        \* the stage of each client's data source
    source,        \* the sort of the data source
    files,         \* the files of a file data source
    loaded,        \* how many of them LDFileDataInit has merged
    set,           \* what the data source puts into the store
    stores,        \* each client's store, a map from the keys of the flags in it
    updates, failures,
    logs,          \* history: the calls that made each builder
    since          \* history: the flags when the client had registered

testData == <<flagBuilders, currentFlags, logs>>
clientVars == <<instances, client, source, files, loaded, set, since>>
vars == <<testData, app, clientVars, stores, updates, failures>>

Idle == [at |-> "idle"]

NoFlags == [k \in {} |-> Null]

Init ==
    /\ flagBuilders = NoFlags /\ currentFlags = NoFlags
    /\ instances = <<>>
    /\ app = [t \in Threads |-> Idle]
    /\ client = [i \in Clients |-> "none"]
    /\ source = [i \in Clients |-> "none"]
    /\ files = [i \in Clients |-> <<>>]
    /\ loaded = [i \in Clients |-> 0]
    /\ set = [i \in Clients |-> EmptySet]
    /\ stores = [i \in Clients |-> NoFlags]
    /\ updates = 0 /\ failures = 0
    /\ logs = [k \in Keys |-> <<>>]
    /\ since = [i \in Clients |-> NoFlags]

-----------------------------------------------------------------------------
(* The application changes a flag.                                           *)

Busy(k) == \E t \in Threads : app[t].at # "idle" /\ app[t].key = k

\* LDTestDataFlag and the calls on the builder, which no one else can see.
LDTestDataFlag(t, k, script) ==
    LET b == IF k \in DOMAIN flagBuilders THEN flagBuilderDuplicate(flagBuilders[k])
             ELSE NewFlagBuilder
    IN  /\ app[t].at = "idle" /\ ~Busy(k)
        /\ updates < MaxUpdates /\ updates' = updates + 1
        /\ ~b.dangling
        /\ AllDefined(b, script)
        /\ app' = [app EXCEPT ![t] =
              [at |-> "built", key |-> k, builder |-> Builders(b, script)[Len(script)],
               log |-> logs[k] \o script]]
    /\ UNCHANGED <<testData, clientVars, stores, failures>>

\* No flag has a previous version.
NoPreviousVersion(k) == 0

LDi_getPreviousFlagVersion(k) ==
    IF k \in DOMAIN currentFlags THEN currentFlags[k].version ELSE 0

\* Of an object, and of the hash table of builders.
LDObjectSetKey(object, k, value) ==
    [x \in DOMAIN object \cup {k} |-> IF x = k THEN value ELSE object[x]]

\* The part of LDTestDataUpdate under the lock.
LDTestDataUpdate(t) ==
    LET k == app[t].key
        b == app[t].builder
        newFlag == LDFlagBuilderBuild(k, b, LDi_getPreviousFlagVersion(k) + 1)
    IN  /\ app[t].at = "built"
        /\ currentFlags' = LDObjectSetKey(currentFlags, k, newFlag)
        /\ flagBuilders' = LDObjectSetKey(flagBuilders, k, [b EXCEPT !.dangling = b.borrowed > 0])
        /\ logs' = [logs EXCEPT ![k] = app[t].log]
        /\ app' = [app EXCEPT ![t] = [at |-> "updated", key |-> k, flag |-> newFlag]]
    /\ UNCHANGED <<clientVars, stores, updates, failures>>

Notifying(k, flag, left) == [at |-> "notifying", key |-> k, flag |-> flag, left |-> left]

\* LDi_notifyDataInstances, without the lock.
BeginNotify(t) ==
    /\ app[t].at = "updated"
    /\ app' = [app EXCEPT ![t] = Notifying(app[t].key, app[t].flag, instances)]
    /\ UNCHANGED <<testData, clientVars, stores, updates, failures>>

\* Only the clients that have a newer flag keep it.
LDStoreUpsert(store, flag) ==
    IF flag.key \in DOMAIN store /\ store[flag.key].version >= flag.version THEN store
    ELSE LDObjectSetKey(store, flag.key, flag)

\* instance->store, which another thread sets.
HasStore(i) == client[i] = "started"

LDi_notifyDataInstances(t) ==
    /\ app[t].at = "notifying"
    /\ IF app[t].left = <<>>
       THEN /\ app' = [app EXCEPT ![t] = Idle]
            /\ UNCHANGED stores
       ELSE LET i == Head(app[t].left) IN
            /\ app' = [app EXCEPT ![t] =
                  Notifying(app[t].key, app[t].flag, Tail(app[t].left))]
            /\ stores' = IF HasStore(i)
                         THEN [stores EXCEPT ![i] = LDStoreUpsert(@, app[t].flag)]
                         ELSE stores
    /\ UNCHANGED <<testData, clientVars, updates, failures>>

-----------------------------------------------------------------------------
(* Clients.                                                                  *)

LDTestDataCreateDataSource(i) ==
    /\ client[i] = "none"
    /\ client' = [client EXCEPT ![i] = "created"]
    /\ source' = [source EXCEPT ![i] = "test"]
    /\ instances' = <<i>> \o instances
    /\ UNCHANGED <<testData, app, files, loaded, set, stores, updates, failures, since>>

\* LDFileDataInit: it begins with nothing, and adds one file after the other.
LDFileDataInit(i, list) ==
    /\ client[i] = "none"
    /\ client' = [client EXCEPT ![i] = "loading"]
    /\ source' = [source EXCEPT ![i] = "file"]
    /\ files' = [files EXCEPT ![i] = list]
    /\ UNCHANGED <<testData, instances, app, loaded, set, stores, updates, failures, since>>

LoadFile(i) ==
    /\ client[i] = "loading"
    /\ IF loaded[i] < Len(files[i])
       THEN /\ set' = [set EXCEPT ![i] = AddFile(@, files[i][loaded[i] + 1])]
            /\ loaded' = [loaded EXCEPT ![i] = @ + 1]
            /\ UNCHANGED client
       ELSE /\ client' = [client EXCEPT ![i] = "filling"]
            /\ UNCHANGED <<set, loaded>>
    /\ UNCHANGED <<testData, instances, app, source, files, stores, updates, failures, since>>

\* start of test_data.c, called by LDClientInit: the copy is taken under the
\* lock, the store filled and registered without it.
Copy(i) ==
    /\ client[i] = "created"
    /\ client' = [client EXCEPT ![i] = "filling"]
    /\ set' = [set EXCEPT ![i] = [features |-> currentFlags, segments |-> <<>>]]
    /\ UNCHANGED <<testData, instances, app, source, files, loaded, stores, updates, failures,
                   since>>

\* The flags in the store after LDStoreInit.
Filled(data) == data.features

\* LDStoreInit, for a file the whole of start.
Fill(i) ==
    /\ client[i] = "filling"
    /\ \/ /\ stores' = [stores EXCEPT ![i] = Filled(set[i])]
          /\ client' = [client EXCEPT ![i] =
                IF source[i] = "test" THEN "filled" ELSE "started"]
          /\ UNCHANGED failures
       \/ /\ failures < MaxFailures
          /\ failures' = failures + 1
          /\ client' = [client EXCEPT ![i] = "failed"]
          /\ UNCHANGED stores
    /\ UNCHANGED <<testData, instances, app, source, files, loaded, set, updates, since>>

Register(i) ==
    /\ client[i] = "filled"
    /\ client' = [client EXCEPT ![i] = "started"]
    /\ since' = [since EXCEPT ![i] = currentFlags]
    /\ UNCHANGED <<testData, instances, app, source, files, loaded, set, stores, updates,
                   failures>>

\* The list when nothing is taken out of it.
InstancesWith(i) == instances

\* LL_DELETE: a data source of another sort is not in the list.
InstancesWithout(i) ==
    IF i \notin Range(instances) THEN instances
    ELSE RemoveAt(instances, CHOOSE n \in DOMAIN instances : instances[n] = i)

\* close, called by LDClientClose before the store is destroyed.
Close(i) ==
    /\ client[i] \in {"started", "failed"}
    /\ \A t \in Threads : app[t].at \notin {"updated", "notifying"}
    /\ client' = [client EXCEPT ![i] = "closed"]
    /\ instances' = InstancesWithout(i)
    /\ stores' = [stores EXCEPT ![i] = NoFlags]
    /\ UNCHANGED <<testData, app, source, files, loaded, set, updates, failures, since>>

Next ==
    \/ \E t \in Threads :
         \/ \E k \in Keys : \E script \in Scripts[k] : LDTestDataFlag(t, k, script)
         \/ LDTestDataUpdate(t) \/ BeginNotify(t) \/ LDi_notifyDataInstances(t)
    \/ \E i \in Clients :
         \/ LDTestDataCreateDataSource(i)
         \/ \E list \in FileLists : LDFileDataInit(i, list)
         \/ LoadFile(i) \/ Copy(i) \/ Fill(i) \/ Register(i) \/ Close(i)

Spec == Init /\ [][Next]_vars

-----------------------------------------------------------------------------
(* Properties.                                                               *)

\* The types of the variables: builders and flags are kept under their keys,
\* and the clients whose test data source is open are the list of instances.
TypeOK ==
    /\ DOMAIN flagBuilders = DOMAIN currentFlags /\ DOMAIN currentFlags \subseteq Keys
    /\ \A k \in DOMAIN currentFlags : currentFlags[k].key = k
    /\ updates \in 0..MaxUpdates /\ failures \in 0..MaxFailures
    /\ Range(instances) = {i \in Clients : client[i] \notin {"none", "closed"}
                                           /\ source[i] = "test"}
    /\ \A t \in Threads : app[t].at \in {"idle", "built", "updated", "notifying"}

\* The value that a flag gives a user, Null when it has none.
ValueFor(flag, user) == EvaluateAlone(flag, user).value

\* The flags in the test data treat every user as the documented meaning of the
\* calls on the builder says, the calls on builders it was copied from included:
\* the last variation chosen for the user, else the newest rule whose clauses
\* all hold, else the fallthrough; the off variation when targeting is off; and
\* what a switch back to true and false resets.  Two uses of
\* LDFlagBuilderValueForAllUsers are excepted, which the code does not serve as
\* documented: an array as the value, and a flag turned off after the call.
Configured ==
    \A k \in DOMAIN currentFlags, user \in AppUsers :
        \/ ArrayForAllUsers(logs[k]) \/ OffAfterValue(logs[k])
        \/ ValueFor(currentFlags[k], user) = Intended(logs[k], user)

\* The flag was changed after the client had registered its store.
Changed(i, k) ==
    /\ k \in DOMAIN currentFlags
    /\ k \in DOMAIN since[i] => currentFlags[k] # since[i][k]

\* Once no change of a flag is being passed on, a client whose store was
\* registered before the last change has the flag that the application
\* configured, whatever other threads and clients did at the same time.  (A
\* change between the client's copy and its registration is missed until the
\* next change of that flag.)
ClientsFollow ==
    \A i \in Clients, k \in Keys :
        (client[i] = "started" /\ source[i] = "test" /\ ~Busy(k) /\ Changed(i, k)) =>
            k \in DOMAIN stores[i] /\ stores[i][k] = currentFlags[k]

\* File n of the list mentions the key, and no file before it does.
Mentions(list, n, k) ==
    /\ list[n] \notin {Null, Bad}
    /\ k \in DOMAIN list[n].flags \cup DOMAIN list[n].flagValues

FirstMention(list, n, k) == Mentions(list, n, k) /\ \A m \in 1..(n - 1) : ~Mentions(list, m, k)

\* A flag of a file data source is the one of the first file that has its key,
\* among the flags of that file or else among its flag values.
FirstFileWins ==
    \A i \in Clients : (client[i] = "started" /\ source[i] = "file") =>
        \A k \in Keys :
            LET list == files[i]
                body == stores[i][k]
            IN  /\ k \in DOMAIN stores[i] <=> \E n \in DOMAIN list : Mentions(list, n, k)
                /\ \A n \in DOMAIN list : FirstMention(list, n, k) =>
                     IF k \in DOMAIN list[n].flags
                     THEN body.variations = list[n].flags[k].variations
                     ELSE \A user \in AppUsers :
                            ValueFor(body, user) = list[n].flagValues[k]
=============================================================================
