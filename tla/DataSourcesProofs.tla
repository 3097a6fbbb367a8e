------------------------- MODULE DataSourcesProofs -------------------------
(***************************************************************************)
(* Proofs about DataSources for any flags, threads, clients, calls on      *)
(* builders and files.  What builder calls mean (Configured) is proved by  *)
(* induction over the calls: Fits says what a builder is after them.       *)
(***************************************************************************)
EXTENDS DataSources, WellFoundedInduction, TLAPS

-----------------------------------------------------------------------------
(* The inductive invariant.                                                 *)

Domains ==
    /\ DOMAIN app = Threads
    /\ DOMAIN client = Clients /\ DOMAIN source = Clients /\ DOMAIN files = Clients
    /\ DOMAIN loaded = Clients /\ DOMAIN set = Clients /\ DOMAIN stores = Clients
    /\ DOMAIN since = Clients

Flags ==
    /\ DOMAIN flagBuilders = DOMAIN currentFlags /\ DOMAIN currentFlags \subseteq Keys
    /\ \A k \in DOMAIN currentFlags :
         currentFlags[k].key = k /\ currentFlags[k].version \in Nat \ {0}

Bounds == updates \in 0..MaxUpdates /\ failures \in 0..MaxFailures

IsTest(i) == source[i] = "test"
IsFile(i) == source[i] = "file"

StageOf(i) ==
    /\ client[i] \in {"none", "created", "loading", "filling", "filled", "started",
                      "failed", "closed"}
    /\ client[i] = "none" =>
         /\ ~IsTest(i) /\ ~IsFile(i)
         /\ loaded[i] = 0 /\ set[i] = EmptySet /\ stores[i] = NoFlags
    /\ client[i] # "none" => IsTest(i) \/ IsFile(i)
    /\ client[i] \in {"created", "filled"} => IsTest(i)
    /\ client[i] = "loading" => IsFile(i)

\* No client is in the list twice, and those in it have a test data source.
Listed ==
    /\ instances \in Seq(Clients)
    /\ \A m, n \in DOMAIN instances : instances[m] = instances[n] => m = n
    /\ Range(instances) = {i \in Clients : client[i] \notin {"none", "closed"} /\ IsTest(i)}

\* A thread passes on the flag as it is: no other thread changes it meanwhile.
PassesOn(t) ==
    /\ app[t].key \in DOMAIN currentFlags
    /\ app[t].flag = currentFlags[app[t].key]

Applying ==
    /\ \A t \in Threads :
         /\ app[t].at \in {"idle", "built", "updated", "notifying"}
         /\ app[t].at # "idle" => app[t].key \in Keys
         /\ app[t].at \in {"updated", "notifying"} => PassesOn(t)
         /\ app[t].at = "notifying" =>
              /\ app[t].left \in Seq(Clients)
              /\ \A n \in DOMAIN app[t].left : IsTest(app[t].left[n])
    /\ \A t, u \in Threads :
         (app[t].at # "idle" /\ app[u].at # "idle" /\ app[t].key = app[u].key) => t = u

\* Flags that are or were those of the test data.
Past(f) ==
    /\ DOMAIN f \subseteq DOMAIN currentFlags
    /\ \A k \in DOMAIN f :
         \/ f[k] = currentFlags[k]
         \/ f[k].version \in Nat /\ f[k].version < currentFlags[k].version

CopyOf(i) ==
    /\ Past(since[i])
    /\ IsTest(i) => Past(stores[i])
    /\ IsTest(i) /\ client[i] = "filling" => Past(set[i].features)

\* A change is on its way to a client.
Coming(i, k) ==
    \E t \in Threads :
        /\ app[t].at \in {"updated", "notifying"} /\ app[t].key = k
        /\ app[t].at = "notifying" => i \in Range(app[t].left)

HasCurrent(i, k) == k \in DOMAIN stores[i] /\ stores[i][k] = currentFlags[k]

PassedTo(i) ==
    \A k \in Keys :
        (client[i] = "started" /\ IsTest(i) /\ Changed(i, k)) => HasCurrent(i, k) \/ Coming(i, k)

\* The flags of the first n files of a list.
Merged(list, n, features) ==
    \A k \in Keys :
        /\ k \in DOMAIN features <=> \E m \in 1..n : Mentions(list, m, k)
        /\ \A m \in 1..n : FirstMention(list, m, k) =>
             IF k \in DOMAIN list[m].flags
             THEN features[k].variations = list[m].flags[k].variations
             ELSE features[k] = expandSimpleFlags(list[m].flagValues)[k]

LoadingOf(i) ==
    IsFile(i) =>
        /\ files[i] \in FileLists
        /\ loaded[i] \in 0..Len(files[i])
        /\ Merged(files[i], loaded[i], set[i].features)
        /\ client[i] # "loading" => loaded[i] = Len(files[i])
        /\ client[i] = "started" => stores[i] = set[i].features

Stages == \A i \in Clients : StageOf(i)
Copies == \A i \in Clients : CopyOf(i)
Passed == \A i \in Clients : PassedTo(i)
Loading == \A i \in Clients : LoadingOf(i)

IInv ==
    /\ Domains /\ Flags /\ Bounds /\ Stages /\ Listed /\ Applying /\ Copies /\ Passed
    /\ Loading

-----------------------------------------------------------------------------
(* Maps and lists.                                                          *)

\* LL_DELETE takes one client out of the list and leaves the others.
LEMMA Deleted ==
  ASSUME NEW i, Listed
  PROVE  /\ InstancesWithout(i) \in Seq(Clients)
         /\ \A m, n \in DOMAIN InstancesWithout(i) :
              InstancesWithout(i)[m] = InstancesWithout(i)[n] => m = n
         /\ Range(InstancesWithout(i)) = Range(instances) \ {i}
<1>1. CASE i \notin Range(instances)
  BY <1>1 DEF InstancesWithout, Listed
<1>2. CASE i \in Range(instances)
  <2> DEFINE n == CHOOSE m \in DOMAIN instances : instances[m] = i
             r == InstancesWithout(i)
  <2>1. n \in DOMAIN instances /\ instances[n] = i
    BY <1>2 DEF Range
  <2>2. r = SubSeq(instances, 1, n - 1) \o SubSeq(instances, n + 1, Len(instances))
    BY <1>2 DEF InstancesWithout, RemoveAt
  <2>3. instances \in Seq(Clients) /\ n \in 1..Len(instances)
    BY <2>1 DEF Listed
  <2> HIDE DEF n, r
  <2>4. /\ r \in Seq(Clients) /\ Len(r) = Len(instances) - 1
        /\ \A m \in 1..Len(r) : r[m] = IF m < n THEN instances[m] ELSE instances[m + 1]
    <3> DEFINE a == SubSeq(instances, 1, n - 1)
               b == SubSeq(instances, n + 1, Len(instances))
    <3>1. /\ a \in Seq(Clients) /\ Len(a) = n - 1
          /\ \A m \in 1..(n - 1) : a[m] = instances[m]
      BY <2>3
    <3>2. /\ b \in Seq(Clients) /\ Len(b) = Len(instances) - n
          /\ \A m \in 1..(Len(instances) - n) : b[m] = instances[m + n]
      BY <2>3
    <3>3. r = a \o b
      BY <2>2
    <3> HIDE DEF a, b
    <3>4. /\ r \in Seq(Clients) /\ Len(r) = Len(a) + Len(b)
          /\ \A m \in 1..Len(a) : r[m] = a[m]
          /\ \A m \in 1..Len(b) : r[m + Len(a)] = b[m]
      <4>0. a \in Seq(Clients) /\ b \in Seq(Clients)
        BY <3>1, <3>2
      <4>1. r \in Seq(Clients)
        BY <4>0, <3>3
      <4>2. Len(r) = Len(a) + Len(b)
        BY <4>0, <3>3
      <4>3. ASSUME NEW m \in 1..Len(a) PROVE r[m] = a[m]
        BY <4>0, <3>3
      <4>4. ASSUME NEW m \in 1..Len(b) PROVE r[m + Len(a)] = b[m]
        BY <4>0, <3>3
      <4> QED
        BY <4>1, <4>2, <4>3, <4>4
    <3>5. Len(r) = Len(instances) - 1
      BY <3>1, <3>2, <3>4, <2>3
    <3>6. ASSUME NEW m \in 1..Len(r), m < n PROVE r[m] = instances[m]
      BY <3>1, <3>4, <3>6, <2>3
    <3>7. ASSUME NEW m \in 1..Len(r), ~(m < n) PROVE r[m] = instances[m + 1]
      <4> DEFINE l == m - n + 1
      <4>1. l \in 1..Len(b) /\ l + Len(a) = m /\ l + n = m + 1
        BY <3>1, <3>2, <3>5, <3>7, <2>3
      <4> HIDE DEF l
      <4> QED
        BY <4>1, <3>2, <3>4
    <3> QED
      BY <3>4, <3>5, <3>6, <3>7
  <2>5. \A m, l \in DOMAIN r : r[m] = r[l] => m = l
    <3> SUFFICES ASSUME NEW m \in 1..Len(r), NEW l \in 1..Len(r), r[m] = r[l] PROVE m = l
      BY <2>4
    <3> DEFINE at(j) == IF j < n THEN j ELSE j + 1
    <3>1. at(m) \in DOMAIN instances /\ at(l) \in DOMAIN instances
      BY <2>3, <2>4
    <3>2. r[m] = instances[at(m)] /\ r[l] = instances[at(l)]
      BY <2>4
    <3>3. at(m) = at(l)
      <4> HIDE DEF at
      <4> QED
        BY <3>1, <3>2 DEF Listed
    <3> QED
      BY <3>3, <2>3, <2>4
  <2>6. Range(r) \subseteq Range(instances) \ {i}
    <3> SUFFICES ASSUME NEW m \in DOMAIN r PROVE r[m] \in Range(instances) \ {i}
      BY DEF Range
    <3> QED
      BY <2>1, <2>3, <2>4 DEF Listed, Range
  <2>7. Range(instances) \ {i} \subseteq Range(r)
    <3> SUFFICES ASSUME NEW m \in DOMAIN instances, instances[m] # i
                 PROVE  instances[m] \in Range(r)
      BY DEF Range
    <3>1. CASE m < n
      <4>1. m \in DOMAIN r /\ r[m] = instances[m]
        BY <3>1, <2>3, <2>4
      <4> QED
        BY <4>1 DEF Range
    <3>2. CASE m > n
      <4>1. m - 1 \in DOMAIN r /\ r[m - 1] = instances[m]
        BY <3>2, <2>3, <2>4
      <4> QED
        BY <4>1 DEF Range
    <3> QED
      BY <3>1, <3>2, <2>1, <2>3
  <2> QED
    BY <2>4, <2>5, <2>6, <2>7 DEF r
<1> QED
  BY <1>1, <1>2

-----------------------------------------------------------------------------
(* Files.                                                                   *)

LEMMA Older ==
  ASSUME NEW known, NEW section
  PROVE  /\ DOMAIN MergeOlder(known, section) = DOMAIN known \cup DOMAIN section
         /\ \A k \in DOMAIN known : MergeOlder(known, section)[k] = known[k]
         /\ \A k \in DOMAIN section :
              k \notin DOMAIN known => MergeOlder(known, section)[k] = section[k]
  BY DEF MergeOlder, LDObjectMerge

\* One more file is merged.
LEMMA FileMerged ==
  ASSUME NEW list \in FileLists, NEW n \in Nat, n < Len(list), NEW old,
         Merged(list, n, old.features)
  PROVE  Merged(list, n + 1, AddFile(old, list[n + 1]).features)
<1> DEFINE file == list[n + 1]
           new == AddFile(old, file)
           Has(m, k) == Mentions(list, m, k)
<1>1. n + 1 \in DOMAIN list /\ 1..(n + 1) = 1..n \cup {n + 1}
  BY FilesAssumption DEF IsSeq
<1>2. CASE file \in {Null, Bad}
  <2>1. new.features = old.features
    BY <1>2 DEF AddFile
  <2>2. \A k : ~Has(n + 1, k)
    BY <1>2 DEF Mentions
  <2> HIDE DEF new
  <2>3. ASSUME NEW k \in Keys
        PROVE  /\ k \in DOMAIN new.features <=> \E m \in 1..(n + 1) : Mentions(list, m, k)
               /\ \A m \in 1..(n + 1) : FirstMention(list, m, k) =>
                    IF k \in DOMAIN list[m].flags
                    THEN new.features[k].variations = list[m].flags[k].variations
                    ELSE new.features[k] = expandSimpleFlags(list[m].flagValues)[k]
    BY <1>1, <2>1, <2>2 DEF Merged, FirstMention
  <2> QED
    BY <2>3 DEF Merged, new
<1>3. CASE file \notin {Null, Bad}
  <2> DEFINE F == old.features
             own == Versioned(file.flags)
             simple == expandSimpleFlags(file.flagValues)
             G == MergeOlder(F, own)
             H == MergeOlder(G, simple)
  <2>1. new.features = H
    BY <1>3 DEF AddFile
  <2>2. DOMAIN own = DOMAIN file.flags /\ DOMAIN simple = DOMAIN file.flagValues
    BY DEF Versioned, expandSimpleFlags
  <2>3. \A k \in DOMAIN file.flags : own[k].variations = file.flags[k].variations
    <3> SUFFICES ASSUME NEW k \in DOMAIN file.flags
                 PROVE  own[k].variations = file.flags[k].variations
      OBVIOUS
    <3>1. "variations" \in DOMAIN file.flags[k]
      BY <1>1, <1>3, FilesAssumption
    <3> QED
      BY <3>1 DEF Versioned
  <2>4. /\ DOMAIN G = DOMAIN F \cup DOMAIN own
        /\ \A k \in DOMAIN F : G[k] = F[k]
        /\ \A k \in DOMAIN own : k \notin DOMAIN F => G[k] = own[k]
    BY Older
  <2>5. /\ DOMAIN H = DOMAIN G \cup DOMAIN simple
        /\ \A k \in DOMAIN G : H[k] = G[k]
        /\ \A k \in DOMAIN simple : k \notin DOMAIN G => H[k] = simple[k]
    BY Older
  <2>6. \A k : Has(n + 1, k) <=> k \in DOMAIN own \cup DOMAIN simple
    BY <1>3, <2>2 DEF Mentions
  <2> HIDE DEF new, F, own, simple, G, H, Has, file
  <2>7. ASSUME NEW k \in Keys
        PROVE  k \in DOMAIN H <=> \E m \in 1..(n + 1) : Has(m, k)
    <3>1. k \in DOMAIN F <=> \E m \in 1..n : Has(m, k)
      BY DEF Merged, Has, F
    <3> QED
      BY <1>1, <2>4, <2>5, <2>6, <3>1
  <2>8. ASSUME NEW k \in Keys, NEW m \in 1..n, FirstMention(list, m, k)
        PROVE  IF k \in DOMAIN list[m].flags
               THEN H[k].variations = list[m].flags[k].variations
               ELSE H[k] = expandSimpleFlags(list[m].flagValues)[k]
    <3>1. k \in DOMAIN F
      BY <2>8 DEF Merged, FirstMention, F
    <3>2. H[k] = F[k]
      BY <3>1, <2>4, <2>5
    <3> QED
      BY <2>8, <3>2 DEF Merged, F
  <2>9. ASSUME NEW k \in Keys, FirstMention(list, n + 1, k)
        PROVE  IF k \in DOMAIN list[n + 1].flags
               THEN H[k].variations = list[n + 1].flags[k].variations
               ELSE H[k] = expandSimpleFlags(list[n + 1].flagValues)[k]
    <3>1. ~ \E m \in 1..n : Has(m, k)
      BY <2>9 DEF FirstMention, Has
    <3>2. k \notin DOMAIN F
      BY <3>1 DEF Merged, Has, F
    <3>3. Has(n + 1, k)
      BY <2>9 DEF FirstMention, Has
    <3>4. CASE k \in DOMAIN own
      <4>1. H[k] = own[k]
        BY <3>2, <3>4, <2>4, <2>5
      <4> QED
        BY <3>4, <4>1, <2>2, <2>3 DEF file
    <3>5. CASE k \notin DOMAIN own
      <4>1. H[k] = simple[k]
        BY <3>2, <3>3, <3>5, <2>4, <2>5, <2>6
      <4> QED
        BY <3>5, <4>1, <2>2 DEF file, simple
    <3> QED
      BY <3>4, <3>5
  <2>10. Merged(list, n + 1, H)
    <3>1. ASSUME NEW k \in Keys, NEW m \in 1..(n + 1), FirstMention(list, m, k)
          PROVE  IF k \in DOMAIN list[m].flags
                 THEN H[k].variations = list[m].flags[k].variations
                 ELSE H[k] = expandSimpleFlags(list[m].flagValues)[k]
      BY <3>1, <1>1, <2>8, <2>9
    <3> QED
      BY <3>1, <2>7 DEF Merged, Has
  <2> QED
    BY <2>1, <2>10 DEF new, file
<1> QED
  BY <1>2, <1>3

\* A simple flag gives everybody its value.
LEMMA SimpleValue ==
  ASSUME NEW values, NEW k \in DOMAIN values, NEW user, <<values[k]>> \notin {Null, Bad}
  PROVE  ValueFor(expandSimpleFlags(values)[k], user) = values[k]
<1> DEFINE v == values[k]
           flag == expandSimpleFlags(values)[k]
<1>1. /\ flag.key = k /\ flag.variations = <<v>> /\ flag.on = TRUE /\ flag.salt = "salt"
      /\ flag.fallthrough = [variation |-> 0, rollout |-> Null]
      /\ flag.targets = <<>> /\ flag.rules = <<>>
  BY DEF expandSimpleFlags
<1> HIDE DEF flag
<1>2. EvaluateOn(flag) = Undecided
  BY <1>1, AbsentAssumption DEF EvaluateOn
<1>3. EvaluateTargets(flag, user) = Undecided
  BY <1>1, AbsentAssumption DEF EvaluateTargets, SelectInSeq
<1>4. EvaluateAlone(flag, user) = EvaluateFallthrough(flag, user)
  BY <1>1, <1>2, <1>3 DEF EvaluateAlone, SelectInSeq
<1>5. LDi_getIndexForVariationOrRollout(flag, flag.fallthrough, user)
        = [ok |-> TRUE, index |-> 0, inExperiment |-> FALSE]
  BY <1>1, AbsentAssumption DEF LDi_getIndexForVariationOrRollout, LDi_variationIndexForUser
<1>6. getValue(flag, 0) = v
  BY <1>1, AbsentAssumption DEF getValue
<1>7. \A details : addValue(flag, details, 0, "MATCH").value = v
  BY <1>6 DEF addValue, Result
<1>8. EvaluateFallthrough(flag, user).value = v
  BY <1>5, <1>7 DEF EvaluateFallthrough
<1> QED
  BY <1>4, <1>8 DEF ValueFor, flag

-----------------------------------------------------------------------------
(* The application's threads.                                               *)

LEMMA InitInv == Init => IInv
<1> SUFFICES ASSUME Init PROVE IInv
  OBVIOUS
<1>1. DOMAIN NoFlags = {}
  BY DEF NoFlags
<1>2. Domains
  BY DEF Init, Domains
<1>3. Flags /\ Bounds
  BY <1>1, SourcesBoundsAssumption DEF Init, Flags, Bounds
<1>4. \A i \in Clients : source[i] = "none" /\ client[i] = "none"
  BY DEF Init
<1>5. Stages
  BY <1>4 DEF Init, Stages, StageOf, IsTest, IsFile
<1>6. Listed
  BY <1>4 DEF Init, Listed, Range
<1>7. Applying
  BY DEF Init, Applying, Idle
<1>8. Copies
  BY <1>1, <1>4 DEF Init, Copies, CopyOf, Past, IsTest
<1>9. Passed /\ Loading
  BY <1>4 DEF Passed, PassedTo, Loading, LoadingOf, IsFile
<1> QED
  BY <1>2, <1>3, <1>5, <1>6, <1>7, <1>8, <1>9 DEF IInv

\* A step of a thread leaves what is known of the clients alone, but for what
\* their stores hold.
LEMMA ThreadStep ==
  ASSUME IInv, UNCHANGED clientVars
  PROVE  Listed' /\ (UNCHANGED stores => Stages' /\ Loading')
<1>1. Listed'
  BY DEF IInv, clientVars, Listed, IsTest
<1>2. ASSUME UNCHANGED stores PROVE Stages' /\ Loading'
  BY <1>2 DEF IInv, clientVars, Stages, StageOf, Loading, LoadingOf, IsTest, IsFile
<1> QED
  BY <1>1, <1>2

LEMMA SameCopies ==
  ASSUME IInv, UNCHANGED <<currentFlags, stores, clientVars>>
  PROVE  Copies'
  BY DEF IInv, Copies, CopyOf, clientVars, Past, IsTest

LEMMA FlagStep ==
  ASSUME IInv, NEW t \in Threads, NEW k \in Keys, NEW script, LDTestDataFlag(t, k, script)
  PROVE  IInv'
<1> DEFINE b == IF k \in DOMAIN flagBuilders THEN flagBuilderDuplicate(flagBuilders[k])
                ELSE NewFlagBuilder
           new == [at |-> "built", key |-> k, builder |-> Builders(b, script)[Len(script)],
                   log |-> logs[k] \o script]
<1>1. /\ app[t].at = "idle" /\ ~Busy(k)
      /\ app' = [app EXCEPT ![t] = new]
      /\ updates < MaxUpdates /\ updates' = updates + 1
      /\ UNCHANGED <<testData, clientVars, stores, failures>>
  BY DEF LDTestDataFlag
<1>2. new.at = "built" /\ new.key = k
  OBVIOUS
<1> HIDE DEF b, new
<1>3. /\ DOMAIN app' = Threads /\ app'[t] = new
      /\ \A u \in Threads \ {t} : app'[u] = app[u]
  BY <1>1 DEF IInv, Domains
<1>4. Domains' /\ Flags'
  BY <1>1, <1>3 DEF IInv, Domains, Flags, testData, clientVars
<1>5. Bounds'
  BY <1>1, SourcesBoundsAssumption DEF IInv, Bounds
<1>6. Stages' /\ Listed' /\ Loading'
  BY <1>1, ThreadStep
<1>7. Applying'
  <2>1. ASSUME NEW u \in Threads, app'[u].at \in {"updated", "notifying"}
        PROVE  PassesOn(u)' /\ app'[u] = app[u]
    BY <2>1, <1>1, <1>2, <1>3 DEF IInv, Applying, PassesOn, testData
  <2>2. ASSUME NEW u \in Threads, app'[u].at = "notifying"
        PROVE  /\ app'[u].left \in Seq(Clients)
               /\ \A n \in DOMAIN app'[u].left : source'[app'[u].left[n]] = "test"
    BY <2>1, <2>2, <1>1 DEF IInv, Applying, IsTest, clientVars
  <2>3. ASSUME NEW u \in Threads
        PROVE  /\ app'[u].at \in {"idle", "built", "updated", "notifying"}
               /\ app'[u].at # "idle" => app'[u].key \in Keys
    BY <1>2, <1>3 DEF IInv, Applying
  <2>4. ASSUME NEW u \in Threads, NEW w \in Threads,
               app'[u].at # "idle", app'[w].at # "idle", app'[u].key = app'[w].key
        PROVE  u = w
    BY <2>4, <1>1, <1>2, <1>3 DEF IInv, Applying, Busy
  <2> QED
    BY <2>1, <2>2, <2>3, <2>4 DEF Applying, IsTest
<1>8. Copies'
  BY <1>1, SameCopies DEF testData
<1>9. Passed'
  <2> SUFFICES ASSUME NEW i \in Clients, NEW x \in Keys,
                      (client[i] = "started" /\ IsTest(i) /\ Changed(i, x))'
               PROVE  HasCurrent(i, x)' \/ Coming(i, x)'
    BY DEF Passed, PassedTo
  <2>1. HasCurrent(i, x) \/ Coming(i, x)
    BY <1>1 DEF IInv, Passed, PassedTo, Changed, IsTest, clientVars, testData
  <2>2. ASSUME Coming(i, x) PROVE Coming(i, x)'
    BY <2>2, <1>1, <1>3 DEF Coming
  <2> QED
    BY <2>1, <2>2, <1>1 DEF HasCurrent, testData
<1> QED
  BY <1>4, <1>5, <1>6, <1>7, <1>8, <1>9 DEF IInv

\* A change makes every earlier state of the flag older.
LEMMA UpdateStep ==
  ASSUME IInv, NEW t \in Threads, LDTestDataUpdate(t)
  PROVE  IInv'
<1> DEFINE k == app[t].key
           v == LDi_getPreviousFlagVersion(k) + 1
           newFlag == LDFlagBuilderBuild(k, app[t].builder, v)
           new == [at |-> "updated", key |-> k, flag |-> newFlag]
           bld == [app[t].builder EXCEPT !.dangling = app[t].builder.borrowed > 0]
<1>1. /\ app[t].at = "built"
      /\ currentFlags' = LDObjectSetKey(currentFlags, k, newFlag)
      /\ flagBuilders' = LDObjectSetKey(flagBuilders, k, bld)
      /\ app' = [app EXCEPT ![t] = new]
      /\ UNCHANGED <<clientVars, stores, updates, failures>>
  BY DEF LDTestDataUpdate
<1>2. newFlag.key = k /\ newFlag.version = v
  BY DEF LDFlagBuilderBuild
<1>3. new.at = "updated" /\ new.key = k /\ new.flag = newFlag
  OBVIOUS
<1>4. k \in Keys
  BY <1>1 DEF IInv, Applying
<1>5. v \in Nat \ {0} /\ (k \in DOMAIN currentFlags => v = currentFlags[k].version + 1)
  BY DEF IInv, Flags, LDi_getPreviousFlagVersion
<1> HIDE DEF v, newFlag, new, bld
<1>6. /\ DOMAIN app' = Threads /\ app'[t] = new
      /\ \A u \in Threads \ {t} : app'[u] = app[u]
  BY <1>1 DEF IInv, Domains
<1>7. /\ DOMAIN currentFlags' = DOMAIN currentFlags \cup {k}
      /\ currentFlags'[k] = newFlag
      /\ \A x \in DOMAIN currentFlags : x # k => currentFlags'[x] = currentFlags[x]
      /\ DOMAIN flagBuilders' = DOMAIN flagBuilders \cup {k}
  <2> HIDE DEF k
  <2>1. /\ DOMAIN LDObjectSetKey(currentFlags, k, newFlag) = DOMAIN currentFlags \cup {k}
        /\ LDObjectSetKey(currentFlags, k, newFlag)[k] = newFlag
        /\ \A x \in DOMAIN currentFlags :
             x # k => LDObjectSetKey(currentFlags, k, newFlag)[x] = currentFlags[x]
    BY DEF LDObjectSetKey
  <2>2. DOMAIN LDObjectSetKey(flagBuilders, k, bld) = DOMAIN flagBuilders \cup {k}
    BY DEF LDObjectSetKey
  <2> QED
    BY <1>1, <2>1, <2>2
<1>8. Domains'
  BY <1>1, <1>6 DEF IInv, Domains, clientVars
<1>9. Flags'
  BY <1>2, <1>4, <1>5, <1>7 DEF IInv, Flags
<1>10. Bounds'
  BY <1>1 DEF IInv, Bounds
<1>11. Stages' /\ Listed' /\ Loading'
  BY <1>1, ThreadStep
<1>12. Applying'
  <2>1. ASSUME NEW u \in Threads \ {t}, app[u].at # "idle" PROVE app[u].key # k
    BY <2>1, <1>1 DEF IInv, Applying
  <2>2. ASSUME NEW u \in Threads, app'[u].at \in {"updated", "notifying"} PROVE PassesOn(u)'
    <3>1. CASE u = t
      BY <3>1, <1>3, <1>6, <1>7 DEF PassesOn
    <3>2. CASE u # t
      BY <3>2, <2>1, <2>2, <1>6, <1>7 DEF IInv, Applying, PassesOn
    <3> QED
      BY <3>1, <3>2
  <2>3. ASSUME NEW u \in Threads, app'[u].at = "notifying"
        PROVE  /\ app'[u].left \in Seq(Clients)
               /\ \A n \in DOMAIN app'[u].left : source'[app'[u].left[n]] = "test"
    BY <2>3, <1>1, <1>3, <1>6 DEF IInv, Applying, IsTest, clientVars
  <2>4. ASSUME NEW u \in Threads
        PROVE  /\ app'[u].at \in {"idle", "built", "updated", "notifying"}
               /\ app'[u].at # "idle" => app'[u].key \in Keys
    BY <1>3, <1>4, <1>6 DEF IInv, Applying
  <2>5. ASSUME NEW u \in Threads, NEW w \in Threads,
               app'[u].at # "idle", app'[w].at # "idle", app'[u].key = app'[w].key
        PROVE  u = w
    BY <2>1, <2>5, <1>3, <1>6 DEF IInv, Applying
  <2> QED
    BY <2>2, <2>3, <2>4, <2>5 DEF Applying, IsTest
<1>13. ASSUME NEW f, Past(f)
       PROVE  /\ DOMAIN f \subseteq DOMAIN currentFlags'
              /\ \A x \in DOMAIN f :
                   \/ f[x] = currentFlags'[x]
                   \/ f[x].version \in Nat /\ f[x].version < currentFlags'[x].version
  <2>1. DOMAIN f \subseteq DOMAIN currentFlags
    BY <1>13 DEF Past
  <2>2. ASSUME NEW x \in DOMAIN f, x # k
        PROVE  \/ f[x] = currentFlags'[x]
               \/ f[x].version \in Nat /\ f[x].version < currentFlags'[x].version
    BY <2>1, <2>2, <1>7, <1>13 DEF Past
  <2>3. ASSUME k \in DOMAIN f
        PROVE  f[k].version \in Nat /\ f[k].version < currentFlags'[k].version
    <3>1. currentFlags[k].version \in Nat /\ currentFlags'[k].version = currentFlags[k].version + 1
      BY <2>1, <2>3, <1>2, <1>5, <1>7 DEF IInv, Flags
    <3>2. f[k] = currentFlags[k] \/ (f[k].version \in Nat /\ f[k].version < currentFlags[k].version)
      BY <2>3, <1>13 DEF Past
    <3> HIDE DEF k
    <3> QED
      BY <3>1, <3>2
  <2> QED
    BY <2>1, <2>2, <2>3, <1>7
<1>14. Copies'
  <2> SUFFICES ASSUME NEW i \in Clients
               PROVE  /\ Past(since[i])'
                      /\ IsTest(i)' => Past(stores[i])'
                      /\ (IsTest(i) /\ client[i] = "filling")' => Past(set[i].features)'
    BY DEF Copies, CopyOf
  <2>1. /\ since'[i] = since[i] /\ stores'[i] = stores[i] /\ set'[i].features = set[i].features
        /\ source'[i] = source[i] /\ client'[i] = client[i]
    BY <1>1 DEF clientVars
  <2>2. /\ Past(since[i])
        /\ IsTest(i) => Past(stores[i])
        /\ IsTest(i) /\ client[i] = "filling" => Past(set[i].features)
    BY DEF IInv, Copies, CopyOf
  <2>3. Past(since[i])'
    BY <1>13, <2>1, <2>2 DEF Past
  <2>4. IsTest(i)' => Past(stores[i])'
    BY <1>13, <2>1, <2>2 DEF Past, IsTest
  <2>5. (IsTest(i) /\ client[i] = "filling")' => Past(set[i].features)'
    BY <1>13, <2>1, <2>2 DEF Past, IsTest
  <2> QED
    BY <2>3, <2>4, <2>5
<1>15. Passed'
  <2> SUFFICES ASSUME NEW i \in Clients, NEW x \in Keys,
                      (client[i] = "started" /\ IsTest(i) /\ Changed(i, x))'
               PROVE  HasCurrent(i, x)' \/ Coming(i, x)'
    BY DEF Passed, PassedTo
  <2>1. CASE x = k
    <3>1. app'[t].at = "updated" /\ app'[t].key = x
      BY <2>1, <1>3, <1>6
    <3> QED
      BY <3>1 DEF Coming
  <2>2. CASE x # k
    <3>1. x \in DOMAIN currentFlags /\ currentFlags'[x] = currentFlags[x]
      BY <2>2, <1>7 DEF Changed
    <3>2. Changed(i, x)
      BY <3>1, <1>1 DEF Changed, clientVars
    <3>3. HasCurrent(i, x) \/ Coming(i, x)
      BY <3>2, <1>1 DEF IInv, Passed, PassedTo, IsTest, clientVars
    <3>4. ASSUME Coming(i, x) PROVE Coming(i, x)'
      BY <3>4, <1>1, <1>6 DEF Coming
    <3> QED
      BY <3>1, <3>3, <3>4, <1>1 DEF HasCurrent
  <2> QED
    BY <2>1, <2>2
<1> QED
  BY <1>8, <1>9, <1>10, <1>11, <1>12, <1>14, <1>15 DEF IInv

LEMMA BeginStep ==
  ASSUME IInv, NEW t \in Threads, BeginNotify(t)
  PROVE  IInv'
<1> DEFINE new == Notifying(app[t].key, app[t].flag, instances)
<1>1. /\ app[t].at = "updated"
      /\ app' = [app EXCEPT ![t] = new]
      /\ UNCHANGED <<testData, clientVars, stores, updates, failures>>
  BY DEF BeginNotify
<1>2. /\ new.at = "notifying" /\ new.key = app[t].key /\ new.flag = app[t].flag
      /\ new.left = instances
  BY DEF Notifying
<1> HIDE DEF new
<1>3. /\ DOMAIN app' = Threads /\ app'[t] = new
      /\ \A u \in Threads \ {t} : app'[u] = app[u]
  BY <1>1 DEF IInv, Domains
<1>4. Domains' /\ Flags' /\ Bounds'
  BY <1>1, <1>3 DEF IInv, Domains, Flags, Bounds, testData, clientVars
<1>5. Stages' /\ Listed' /\ Loading'
  BY <1>1, ThreadStep
<1>6. Applying'
  <2>1. ASSUME NEW u \in Threads, app'[u].at \in {"updated", "notifying"} PROVE PassesOn(u)'
    BY <2>1, <1>1, <1>2, <1>3 DEF IInv, Applying, PassesOn, testData
  <2>2. \A n \in DOMAIN instances : source[instances[n]] = "test"
    BY DEF IInv, Listed, Range, IsTest
  <2>3. ASSUME NEW u \in Threads, app'[u].at = "notifying"
        PROVE  /\ app'[u].left \in Seq(Clients)
               /\ \A n \in DOMAIN app'[u].left : source'[app'[u].left[n]] = "test"
    <3>1. CASE u = t
      BY <3>1, <2>2, <1>1, <1>2, <1>3 DEF IInv, Listed, clientVars
    <3>2. CASE u # t
      BY <3>2, <2>3, <1>1, <1>3 DEF IInv, Applying, IsTest, clientVars
    <3> QED
      BY <3>1, <3>2
  <2>4. ASSUME NEW u \in Threads
        PROVE  /\ app'[u].at \in {"idle", "built", "updated", "notifying"}
               /\ app'[u].at # "idle" => app'[u].key \in Keys
               /\ app'[u].key = app[u].key /\ (app'[u].at = "idle" <=> app[u].at = "idle")
    BY <1>1, <1>2, <1>3 DEF IInv, Applying
  <2>5. ASSUME NEW u \in Threads, NEW w \in Threads,
               app'[u].at # "idle", app'[w].at # "idle", app'[u].key = app'[w].key
        PROVE  u = w
    BY <2>4, <2>5 DEF IInv, Applying
  <2> QED
    BY <2>1, <2>3, <2>4, <2>5 DEF Applying, IsTest
<1>7. Copies'
  BY <1>1, SameCopies DEF testData
<1>8. Passed'
  <2> SUFFICES ASSUME NEW i \in Clients, NEW x \in Keys,
                      (client[i] = "started" /\ IsTest(i) /\ Changed(i, x))'
               PROVE  HasCurrent(i, x)' \/ Coming(i, x)'
    BY DEF Passed, PassedTo
  <2>1. HasCurrent(i, x) \/ Coming(i, x)
    BY <1>1 DEF IInv, Passed, PassedTo, Changed, IsTest, clientVars, testData
  <2>2. i \in Range(instances)
    BY <1>1 DEF IInv, Listed, IsTest, clientVars
  <2>3. ASSUME Coming(i, x) PROVE Coming(i, x)'
    BY <2>2, <2>3, <1>1, <1>2, <1>3 DEF Coming
  <2> QED
    BY <2>1, <2>3, <1>1 DEF HasCurrent, testData
<1> QED
  BY <1>4, <1>5, <1>6, <1>7, <1>8 DEF IInv

\* LDStoreUpsert leaves the store with the current flag, whatever it held.
LEMMA Upserted ==
  ASSUME IInv, NEW store, Past(store), NEW k \in DOMAIN currentFlags
  PROVE  LET new == LDStoreUpsert(store, currentFlags[k])
         IN  /\ Past(new)
             /\ k \in DOMAIN new /\ new[k] = currentFlags[k]
             /\ \A x \in DOMAIN store : x # k => x \in DOMAIN new /\ new[x] = store[x]
<1> DEFINE flag == currentFlags[k]
           new == LDStoreUpsert(store, flag)
<1>1. flag.key = k /\ flag.version \in Nat
  BY DEF IInv, Flags
<1>2. CASE k \in DOMAIN store /\ store[k].version >= flag.version
  <2>1. new = store
    BY <1>1, <1>2 DEF LDStoreUpsert
  <2>2. store[k] = currentFlags[k]
    BY <1>1, <1>2 DEF Past
  <2> QED
    BY <1>2, <2>1, <2>2
<1>3. CASE ~(k \in DOMAIN store /\ store[k].version >= flag.version)
  <2>1. new = LDObjectSetKey(store, k, flag)
    BY <1>1, <1>3 DEF LDStoreUpsert
  <2>2. /\ DOMAIN new = DOMAIN store \cup {k} /\ new[k] = flag
        /\ \A x \in DOMAIN store : x # k => new[x] = store[x]
    BY <2>1 DEF LDObjectSetKey
  <2> HIDE DEF new
  <2> QED
    BY <2>2 DEF Past, new
<1> QED
  BY <1>2, <1>3

LEMMA NotifyStep ==
  ASSUME IInv, NEW t \in Threads, LDi_notifyDataInstances(t)
  PROVE  IInv'
<1> DEFINE k == app[t].key
           left == app[t].left
           j == Head(left)
<1>1. /\ app[t].at = "notifying" /\ DOMAIN app' = Threads
      /\ \A u \in Threads \ {t} : app'[u] = app[u]
      /\ UNCHANGED <<testData, clientVars, updates, failures>>
  BY DEF LDi_notifyDataInstances, IInv, Domains
<1>2. /\ k \in DOMAIN currentFlags /\ k \in Keys /\ app[t].flag = currentFlags[k]
      /\ left \in Seq(Clients)
      /\ \A n \in DOMAIN left : source[left[n]] = "test"
  BY <1>1 DEF IInv, Applying, PassesOn, IsTest
<1>3. Listed'
  BY <1>1, ThreadStep
<1>4. Flags' /\ Bounds'
  BY <1>1 DEF IInv, Flags, Bounds, testData
<1>5. CASE left = <<>>
  <2>1. app'[t] = Idle /\ UNCHANGED stores
    BY <1>5 DEF LDi_notifyDataInstances, IInv, Domains
  <2>2. app'[t].at = "idle"
    BY <2>1 DEF Idle
  <2>3. Domains' /\ Copies' /\ Stages' /\ Loading'
    BY <2>1, <1>1, SameCopies, ThreadStep DEF IInv, Domains, clientVars, testData
  <2>4. Applying'
    <3>1. ASSUME NEW u \in Threads, app'[u].at # "idle" PROVE u # t /\ app'[u] = app[u]
      BY <3>1, <2>2, <1>1
    <3>2. ASSUME NEW u \in Threads
          PROVE  /\ app'[u].at \in {"idle", "built", "updated", "notifying"}
                 /\ app'[u].at # "idle" => app'[u].key \in Keys
                 /\ app'[u].at \in {"updated", "notifying"} => PassesOn(u)'
                 /\ app'[u].at = "notifying" =>
                      /\ app'[u].left \in Seq(Clients)
                      /\ \A n \in DOMAIN app'[u].left : source'[app'[u].left[n]] = "test"
      BY <3>1, <2>2, <1>1 DEF IInv, Applying, PassesOn, IsTest, testData, clientVars
    <3> QED
      BY <3>1, <3>2 DEF IInv, Applying, IsTest
  <2>5. Passed'
    <3> SUFFICES ASSUME NEW i \in Clients, NEW x \in Keys,
                        (client[i] = "started" /\ IsTest(i) /\ Changed(i, x))'
                 PROVE  HasCurrent(i, x)' \/ Coming(i, x)'
      BY DEF Passed, PassedTo
    <3>1. HasCurrent(i, x) \/ Coming(i, x)
      BY <1>1 DEF IInv, Passed, PassedTo, Changed, IsTest, clientVars, testData
    <3>2. ASSUME Coming(i, x) PROVE Coming(i, x)'
      <4>1. i \notin Range(left)
        BY <1>5 DEF Range
      <4>2. PICK u \in Threads :
                 /\ app[u].at \in {"updated", "notifying"} /\ app[u].key = x
                 /\ app[u].at = "notifying" => i \in Range(app[u].left)
        BY <3>2 DEF Coming
      <4>3. u # t
        BY <4>1, <4>2, <1>1
      <4> QED
        BY <4>2, <4>3, <1>1 DEF Coming
    <3> QED
      BY <3>1, <3>2, <2>1, <1>1 DEF HasCurrent, testData
  <2> QED
    BY <1>3, <1>4, <2>3, <2>4, <2>5 DEF IInv
<1>6. CASE left # <<>>
  <2> DEFINE new == Notifying(k, app[t].flag, Tail(left))
             up == LDStoreUpsert(stores[j], currentFlags[k])
  <2>1. /\ app' = [app EXCEPT ![t] = new]
        /\ stores' = IF HasStore(j) THEN [stores EXCEPT ![j] = up] ELSE stores
    BY <1>2, <1>6 DEF LDi_notifyDataInstances
  <2>2. app'[t] = new
    BY <2>1 DEF IInv, Domains
  <2>3. new.at = "notifying" /\ new.key = k /\ new.flag = app[t].flag /\ new.left = Tail(left)
    BY DEF Notifying
  <2>4. /\ j \in Clients /\ source[j] = "test" /\ Tail(left) \in Seq(Clients)
        /\ \A n \in DOMAIN Tail(left) : n + 1 \in DOMAIN left /\ Tail(left)[n] = left[n + 1]
        /\ \A n \in DOMAIN left : n # 1 => n - 1 \in DOMAIN Tail(left) /\ left[n] = Tail(left)[n - 1]
    BY <1>2, <1>6
  <2>5. /\ Past(up) /\ k \in DOMAIN up /\ up[k] = currentFlags[k]
        /\ \A x \in DOMAIN stores[j] : x # k => x \in DOMAIN up /\ up[x] = stores[j][x]
    <3>1. Past(stores[j])
      BY <2>4 DEF IInv, Copies, CopyOf, IsTest
    <3> QED
      BY <3>1, <1>2, Upserted
  <2> HIDE DEF new, up, j, k, left
  <2>6. /\ DOMAIN stores' = Clients
        /\ \A i \in Clients \ {j} : stores'[i] = stores[i]
        /\ HasStore(j) => stores'[j] = up
        /\ ~HasStore(j) => stores'[j] = stores[j]
    BY <2>1, <2>4 DEF IInv, Domains
  <2>7. Domains'
    BY <2>6, <1>1 DEF IInv, Domains, clientVars
  <2>8. Stages' /\ Loading'
    <3>1. ASSUME NEW i \in Clients, IsFile(i) PROVE stores'[i] = stores[i]
      BY <3>1, <2>4, <2>6 DEF IsFile
    <3>2. ASSUME NEW i \in Clients, client[i] = "none" PROVE stores'[i] = stores[i]
      BY <3>2, <2>6 DEF HasStore
    <3>3. Stages'
      BY <3>2, <1>1 DEF IInv, Stages, StageOf, IsTest, IsFile, clientVars
    <3>4. Loading'
      BY <3>1, <1>1 DEF IInv, Loading, LoadingOf, IsFile, clientVars
    <3> QED
      BY <3>3, <3>4
  <2>9. Copies'
    <3> SUFFICES ASSUME NEW i \in Clients
                 PROVE  /\ Past(since[i])'
                        /\ IsTest(i)' => Past(stores[i])'
                        /\ (IsTest(i) /\ client[i] = "filling")' => Past(set[i].features)'
      BY DEF Copies, CopyOf
    <3>1. Past(since[i])' /\ ((IsTest(i) /\ client[i] = "filling")' => Past(set[i].features)')
      BY <1>1 DEF IInv, Copies, CopyOf, Past, IsTest, clientVars, testData
    <3>2. IsTest(i)' => Past(stores'[i])
      BY <2>5, <2>6, <1>1 DEF IInv, Copies, CopyOf, IsTest, clientVars
    <3> QED
      BY <3>1, <3>2, <1>1 DEF Past, testData
  <2>10. Applying'
    <3>1. ASSUME NEW u \in Threads
          PROVE  app'[u].at = app[u].at /\ app'[u].key = app[u].key
                 /\ (app[u].at \in {"updated", "notifying"} => app'[u].flag = app[u].flag)
      BY <2>2, <2>3, <1>1 DEF k
    <3>2. ASSUME NEW u \in Threads, app'[u].at \in {"updated", "notifying"} PROVE PassesOn(u)'
      BY <3>1, <3>2, <1>1 DEF IInv, Applying, PassesOn, testData
    <3>3. ASSUME NEW u \in Threads, app'[u].at = "notifying"
          PROVE  /\ app'[u].left \in Seq(Clients)
                 /\ \A n \in DOMAIN app'[u].left : source'[app'[u].left[n]] = "test"
      <4>1. CASE u = t
        BY <4>1, <2>2, <2>3, <2>4, <1>1, <1>2 DEF clientVars
      <4>2. CASE u # t
        BY <4>2, <3>3, <1>1 DEF IInv, Applying, IsTest, clientVars
      <4> QED
        BY <4>1, <4>2
    <3>4. ASSUME NEW u \in Threads
          PROVE  /\ app'[u].at \in {"idle", "built", "updated", "notifying"}
                 /\ app'[u].at # "idle" => app'[u].key \in Keys
      BY <3>1 DEF IInv, Applying
    <3>5. ASSUME NEW u \in Threads, NEW w \in Threads,
                 app'[u].at # "idle", app'[w].at # "idle", app'[u].key = app'[w].key
          PROVE  u = w
      BY <3>1, <3>5 DEF IInv, Applying
    <3> QED
      BY <3>2, <3>3, <3>4, <3>5 DEF Applying, IsTest
  <2>11. Passed'
    <3> SUFFICES ASSUME NEW i \in Clients, NEW x \in Keys,
                        (client[i] = "started" /\ IsTest(i) /\ Changed(i, x))'
                 PROVE  HasCurrent(i, x)' \/ Coming(i, x)'
      BY DEF Passed, PassedTo
    <3>1. /\ client[i] = "started" /\ IsTest(i) /\ Changed(i, x)
          /\ HasCurrent(i, x) \/ Coming(i, x)
      BY <1>1 DEF IInv, Passed, PassedTo, Changed, IsTest, clientVars, testData
    <3>2. ASSUME HasCurrent(i, x) PROVE HasCurrent(i, x)'
      BY <3>2, <2>5, <2>6, <1>1 DEF HasCurrent, testData
    <3>3. ASSUME Coming(i, x) PROVE HasCurrent(i, x)' \/ Coming(i, x)'
      <4>1. PICK u \in Threads :
                 /\ app[u].at \in {"updated", "notifying"} /\ app[u].key = x
                 /\ app[u].at = "notifying" => i \in Range(app[u].left)
        BY <3>3 DEF Coming
      <4>2. CASE u # t
        BY <4>1, <4>2, <1>1 DEF Coming
      <4>3. CASE u = t /\ i = j
        BY <4>1, <4>3, <3>1, <2>5, <2>6, <1>1 DEF HasCurrent, HasStore, testData, k
      <4>4. CASE u = t /\ i # j
        <5>1. PICK n \in DOMAIN left : left[n] = i
          BY <4>1, <4>4, <1>1 DEF Range, left
        <5>2. n # 1
          BY <5>1, <4>4, <1>2, <1>6 DEF j
        <5>3. i \in Range(Tail(left))
          BY <5>1, <5>2, <2>4 DEF Range
        <5> QED
          BY <5>3, <4>1, <4>4, <2>2, <2>3 DEF Coming, k
      <4> QED
        BY <4>2, <4>3, <4>4
    <3> QED
      BY <3>1, <3>2, <3>3
  <2> QED
    BY <1>3, <1>4, <2>7, <2>8, <2>9, <2>10, <2>11 DEF IInv
<1> QED
  BY <1>5, <1>6

-----------------------------------------------------------------------------
(* Clients.                                                                 *)

\* Only client i has changed.
OthersKept(i) ==
    \A j \in Clients \ {i} :
        /\ client'[j] = client[j] /\ source'[j] = source[j] /\ files'[j] = files[j]
        /\ loaded'[j] = loaded[j] /\ set'[j] = set[j] /\ stores'[j] = stores[j]
        /\ since'[j] = since[j]

\* A step of client i keeps the invariant if it keeps what it says of i.
LEMMA ClientStep ==
  ASSUME IInv, NEW i \in Clients, UNCHANGED <<testData, app, updates>>,
         failures' \in 0..MaxFailures, Domains', OthersKept(i), IsTest(i) => IsTest(i)',
         Listed', StageOf(i)', CopyOf(i)', PassedTo(i)', LoadingOf(i)'
  PROVE  IInv'
<1>1. Flags' /\ Bounds'
  BY DEF IInv, Flags, Bounds, testData
<1>2. ASSUME NEW j \in Clients, IsTest(j) PROVE source'[j] = "test"
  BY <1>2 DEF IsTest, OthersKept
<1>3. Applying'
  <2>1. ASSUME NEW t \in Threads, app[t].at = "notifying"
        PROVE  \A n \in DOMAIN app[t].left : source'[app[t].left[n]] = "test"
    <3>1. app[t].left \in Seq(Clients) /\ \A n \in DOMAIN app[t].left : IsTest(app[t].left[n])
      BY <2>1 DEF IInv, Applying
    <3> QED
      BY <3>1, <1>2
  <2> QED
    BY <2>1 DEF IInv, Applying, PassesOn, IsTest, testData
<1>4. ASSUME NEW j \in Clients PROVE StageOf(j)'
  <2>1. CASE j = i
    BY <2>1
  <2>2. CASE j # i
    BY <2>2 DEF IInv, Stages, StageOf, OthersKept, IsTest, IsFile
  <2> QED
    BY <2>1, <2>2
<1>5. ASSUME NEW j \in Clients PROVE CopyOf(j)'
  <2>1. CASE j = i
    BY <2>1
  <2>2. CASE j # i
    BY <2>2 DEF IInv, Copies, CopyOf, OthersKept, IsTest, Past, testData
  <2> QED
    BY <2>1, <2>2
<1>6. ASSUME NEW j \in Clients PROVE PassedTo(j)'
  <2>1. CASE j = i
    BY <2>1
  <2>2. CASE j # i
    BY <2>2 DEF IInv, Passed, PassedTo, OthersKept, IsTest, Changed, HasCurrent, Coming, testData
  <2> QED
    BY <2>1, <2>2
<1>7. ASSUME NEW j \in Clients PROVE LoadingOf(j)'
  <2>1. CASE j = i
    BY <2>1
  <2>2. CASE j # i
    BY <2>2 DEF IInv, Loading, LoadingOf, OthersKept, IsFile
  <2> QED
    BY <2>1, <2>2
<1> QED
  BY <1>1, <1>3, <1>4, <1>5, <1>6, <1>7 DEF IInv, Stages, Copies, Passed, Loading

\* The list stays right when no data source is opened or closed.
LEMMA SameList ==
  ASSUME IInv, NEW i \in Clients, UNCHANGED <<instances, source>>, OthersKept(i),
         client[i] \notin {"none", "closed"}, client'[i] \notin {"none", "closed"}
  PROVE  Listed'
<1>1. ASSUME NEW j \in Clients
      PROVE  client[j] \in {"none", "closed"} <=> client'[j] \in {"none", "closed"}
  BY DEF OthersKept
<1> QED
  BY <1>1 DEF IInv, Listed, IsTest

LEMMA CreateStep ==
  ASSUME IInv, NEW i \in Clients, LDTestDataCreateDataSource(i)
  PROVE  IInv'
<1>1. /\ client[i] = "none" /\ client'[i] = "created" /\ source'[i] = "test"
      /\ instances' = <<i>> \o instances
      /\ UNCHANGED <<testData, app, files, loaded, set, stores, updates, failures, since>>
      /\ OthersKept(i) /\ Domains'
  BY DEF LDTestDataCreateDataSource, IInv, Domains, OthersKept
<1>2. i \notin Range(instances)
  BY <1>1 DEF IInv, Listed
<1>3. Listed'
  <2>1. instances \in Seq(Clients) /\ <<i>> \in Seq(Clients)
    BY DEF IInv, Listed
  <2>2. /\ instances' \in Seq(Clients) /\ Len(instances') = Len(instances) + 1
        /\ instances'[1] = i
        /\ \A n \in 2..Len(instances') : instances'[n] = instances[n - 1]
    BY <2>1, <1>1
  <2>3. ASSUME NEW m \in DOMAIN instances', NEW n \in DOMAIN instances',
               instances'[m] = instances'[n]
        PROVE  m = n
    <3>1. ASSUME NEW l \in 2..Len(instances') PROVE instances'[l] # i
      <4>1. l - 1 \in DOMAIN instances
        BY <2>1, <2>2
      <4> QED
        BY <4>1, <2>2, <1>2 DEF Range
    <3>2. CASE m = 1 \/ n = 1
      BY <3>1, <3>2, <2>2, <2>3
    <3>3. CASE m # 1 /\ n # 1
      <4>1. m - 1 \in DOMAIN instances /\ n - 1 \in DOMAIN instances
        BY <3>3, <2>1, <2>2
      <4>2. instances[m - 1] = instances[n - 1]
        BY <3>3, <2>2, <2>3
      <4>3. m - 1 = n - 1
        BY <4>1, <4>2 DEF IInv, Listed
      <4> QED
        BY <4>3, <2>2
    <3> QED
      BY <3>2, <3>3
  <2>4. Range(instances') = Range(instances) \cup {i}
    <3>1. ASSUME NEW n \in DOMAIN instances' PROVE instances'[n] \in Range(instances) \cup {i}
      <4>1. CASE n = 1
        BY <4>1, <2>2
      <4>2. CASE n # 1
        <5>1. n - 1 \in DOMAIN instances /\ instances'[n] = instances[n - 1]
          BY <4>2, <2>1, <2>2
        <5> QED
          BY <5>1 DEF Range
      <4> QED
        BY <4>1, <4>2
    <3>2. ASSUME NEW n \in DOMAIN instances PROVE instances[n] \in Range(instances')
      <4>1. n + 1 \in DOMAIN instances' /\ instances'[n + 1] = instances[n]
        BY <2>1, <2>2
      <4> QED
        BY <4>1 DEF Range
    <3>3. i \in Range(instances')
      BY <2>1, <2>2 DEF Range
    <3> QED
      BY <3>1, <3>2, <3>3 DEF Range
  <2>5. {j \in Clients : client'[j] \notin {"none", "closed"} /\ source'[j] = "test"}
          = {j \in Clients : client[j] \notin {"none", "closed"} /\ source[j] = "test"} \cup {i}
    BY <1>1 DEF OthersKept
  <2> QED
    BY <2>2, <2>3, <2>4, <2>5 DEF IInv, Listed, IsTest
<1>4. StageOf(i)' /\ PassedTo(i)' /\ LoadingOf(i)'
  BY <1>1 DEF StageOf, PassedTo, LoadingOf, IsTest, IsFile
<1>5. CopyOf(i)'
  <2>1. stores[i] = NoFlags
    BY <1>1 DEF IInv, Stages, StageOf
  <2> QED
    BY <2>1, <1>1 DEF IInv, Copies, CopyOf, Past, NoFlags, IsTest, testData
<1> QED
  BY <1>1, <1>3, <1>4, <1>5, ClientStep DEF IInv, Bounds, IsTest

LEMMA FileInitStep ==
  ASSUME IInv, NEW i \in Clients, NEW list \in FileLists, LDFileDataInit(i, list)
  PROVE  IInv'
<1>1. /\ client[i] = "none" /\ client'[i] = "loading" /\ source'[i] = "file"
      /\ files'[i] = list
      /\ UNCHANGED <<testData, instances, app, loaded, set, stores, updates, failures, since>>
      /\ OthersKept(i) /\ Domains'
  BY DEF LDFileDataInit, IInv, Domains, OthersKept
<1>2. ~IsTest(i) /\ loaded[i] = 0 /\ set[i] = EmptySet
  BY <1>1 DEF IInv, Stages, StageOf
<1>3. Listed'
  <2>1. ASSUME NEW j \in Clients
        PROVE  client'[j] \notin {"none", "closed"} /\ source'[j] = "test"
                 <=> client[j] \notin {"none", "closed"} /\ source[j] = "test"
    BY <1>1, <1>2 DEF OthersKept, IsTest
  <2> QED
    BY <2>1, <1>1 DEF IInv, Listed, IsTest
<1>4. StageOf(i)' /\ PassedTo(i)'
  BY <1>1 DEF StageOf, PassedTo, IsTest, IsFile
<1>5. CopyOf(i)'
  BY <1>1 DEF IInv, Copies, CopyOf, Past, IsTest, testData
<1>6. LoadingOf(i)'
  <2>1. Merged(list, 0, EmptySet.features)
    BY DEF Merged, EmptySet
  <2>2. Len(list) \in Nat
    BY FilesAssumption DEF IsSeq
  <2> QED
    BY <2>1, <2>2, <1>1, <1>2 DEF LoadingOf
<1> QED
  BY <1>1, <1>2, <1>3, <1>4, <1>5, <1>6, ClientStep DEF IInv, Bounds

LEMMA LoadStep ==
  ASSUME IInv, NEW i \in Clients, LoadFile(i)
  PROVE  IInv'
<1>1. /\ client[i] = "loading" /\ IsFile(i) /\ ~IsTest(i)
      /\ UNCHANGED <<testData, instances, app, source, files, stores, updates, failures, since>>
  BY DEF LoadFile, IInv, Stages, StageOf, IsTest, IsFile
<1>2. /\ files[i] \in FileLists /\ loaded[i] \in 0..Len(files[i]) /\ Len(files[i]) \in Nat
      /\ Merged(files[i], loaded[i], set[i].features)
  BY <1>1, FilesAssumption DEF IsSeq, IInv, Loading, LoadingOf
<1>3. OthersKept(i) /\ Domains'
  BY DEF LoadFile, IInv, Domains, OthersKept
<1>4. client'[i] \in {"loading", "filling"}
  BY <1>1 DEF LoadFile, IInv, Domains
<1>5. Listed'
  BY <1>1, <1>3, <1>4, SameList
<1>6. StageOf(i)' /\ PassedTo(i)'
  BY <1>1, <1>4 DEF StageOf, PassedTo, IsTest, IsFile
<1>7. CopyOf(i)'
  BY <1>1 DEF IInv, Copies, CopyOf, Past, IsTest, testData
<1>8. LoadingOf(i)'
  <2>1. CASE loaded[i] < Len(files[i])
    <3>1. /\ set'[i] = AddFile(set[i], files[i][loaded[i] + 1])
          /\ loaded'[i] = loaded[i] + 1 /\ client'[i] = "loading"
      BY <2>1, <1>1 DEF LoadFile, IInv, Domains
    <3>2. Merged(files[i], loaded[i] + 1, set'[i].features)
      BY <2>1, <3>1, <1>2, FileMerged
    <3> QED
      BY <2>1, <3>1, <3>2, <1>1, <1>2 DEF LoadingOf
  <2>2. CASE ~(loaded[i] < Len(files[i]))
    <3>1. set' = set /\ loaded' = loaded /\ client'[i] = "filling"
      BY <2>2, <1>1 DEF LoadFile, IInv, Domains
    <3> QED
      BY <2>2, <3>1, <1>1, <1>2 DEF LoadingOf
  <2> QED
    BY <2>1, <2>2
<1> QED
  BY <1>1, <1>3, <1>5, <1>6, <1>7, <1>8, ClientStep DEF IInv, Bounds

LEMMA CopyStep ==
  ASSUME IInv, NEW i \in Clients, Copy(i)
  PROVE  IInv'
<1>1. /\ client[i] = "created" /\ client'[i] = "filling" /\ IsTest(i) /\ ~IsFile(i)
      /\ set'[i].features = currentFlags
      /\ UNCHANGED <<testData, instances, app, source, files, loaded, stores, updates, failures,
                     since>>
      /\ OthersKept(i) /\ Domains'
  BY DEF Copy, IInv, Domains, OthersKept, Stages, StageOf, IsTest, IsFile
<1>2. Listed'
  BY <1>1, SameList
<1>3. StageOf(i)' /\ PassedTo(i)' /\ LoadingOf(i)' /\ IsTest(i)'
  BY <1>1 DEF StageOf, PassedTo, LoadingOf, IsTest, IsFile
<1>4. CopyOf(i)'
  BY <1>1 DEF IInv, Copies, CopyOf, Past, IsTest, testData
<1> QED
  BY <1>1, <1>2, <1>3, <1>4, ClientStep DEF IInv, Bounds

LEMMA FillStep ==
  ASSUME IInv, NEW i \in Clients, Fill(i)
  PROVE  IInv'
<1>1. /\ client[i] = "filling"
      /\ UNCHANGED <<testData, instances, app, source, files, loaded, set, updates, since>>
      /\ OthersKept(i) /\ Domains' /\ failures' \in 0..MaxFailures
  BY SourcesBoundsAssumption DEF Fill, IInv, Bounds, Domains, OthersKept
<1>2. \/ /\ stores'[i] = set[i].features
         /\ client'[i] = IF source[i] = "test" THEN "filled" ELSE "started"
      \/ stores' = stores /\ client'[i] = "failed"
  BY DEF Fill, Filled, IInv, Domains
<1>3. Listed'
  BY <1>1, <1>2, SameList
<1>4. StageOf(i)' /\ PassedTo(i)' /\ (IsTest(i) => IsTest(i)')
  BY <1>1, <1>2 DEF IInv, Stages, StageOf, PassedTo, IsTest, IsFile
<1>5. CopyOf(i)'
  BY <1>1, <1>2 DEF IInv, Copies, CopyOf, Past, IsTest, testData
<1>6. LoadingOf(i)'
  BY <1>1, <1>2 DEF IInv, Loading, LoadingOf, IsFile
<1> QED
  BY <1>1, <1>3, <1>4, <1>5, <1>6, ClientStep

LEMMA RegisterStep ==
  ASSUME IInv, NEW i \in Clients, Register(i)
  PROVE  IInv'
<1>1. /\ client[i] = "filled" /\ client'[i] = "started" /\ IsTest(i) /\ ~IsFile(i)
      /\ since'[i] = currentFlags
      /\ UNCHANGED <<testData, instances, app, source, files, loaded, set, stores, updates,
                     failures>>
      /\ OthersKept(i) /\ Domains'
  BY DEF Register, IInv, Domains, OthersKept, Stages, StageOf, IsTest, IsFile
<1>2. Listed'
  BY <1>1, SameList
<1>3. StageOf(i)' /\ LoadingOf(i)' /\ IsTest(i)'
  BY <1>1 DEF StageOf, LoadingOf, IsTest, IsFile
<1>4. CopyOf(i)'
  BY <1>1 DEF IInv, Copies, CopyOf, Past, IsTest, testData
<1>5. PassedTo(i)'
  BY <1>1 DEF PassedTo, Changed, testData
<1> QED
  BY <1>1, <1>2, <1>3, <1>4, <1>5, ClientStep DEF IInv, Bounds

LEMMA CloseStep ==
  ASSUME IInv, NEW i \in Clients, Close(i)
  PROVE  IInv'
<1>1. /\ client[i] \in {"started", "failed"} /\ client'[i] = "closed"
      /\ instances' = InstancesWithout(i) /\ stores'[i] = NoFlags
      /\ UNCHANGED <<testData, app, source, files, loaded, set, updates, failures, since>>
      /\ OthersKept(i) /\ Domains'
  BY DEF Close, IInv, Domains, OthersKept
<1>2. Listed'
  <2>1. /\ InstancesWithout(i) \in Seq(Clients)
        /\ \A m, n \in DOMAIN InstancesWithout(i) :
              InstancesWithout(i)[m] = InstancesWithout(i)[n] => m = n
        /\ Range(InstancesWithout(i)) = Range(instances) \ {i}
    BY Deleted DEF IInv
  <2>2. {j \in Clients : client'[j] \notin {"none", "closed"} /\ source'[j] = "test"}
          = {j \in Clients : client[j] \notin {"none", "closed"} /\ source[j] = "test"} \ {i}
    BY <1>1 DEF OthersKept
  <2> QED
    BY <2>1, <2>2, <1>1 DEF IInv, Listed, IsTest
<1>3. StageOf(i)' /\ PassedTo(i)' /\ LoadingOf(i)' /\ (IsTest(i) => IsTest(i)')
  BY <1>1 DEF IInv, Stages, StageOf, PassedTo, Loading, LoadingOf, IsTest, IsFile
<1>4. CopyOf(i)'
  BY <1>1 DEF IInv, Copies, CopyOf, Past, NoFlags, IsTest, testData
<1> QED
  BY <1>1, <1>2, <1>3, <1>4, ClientStep DEF IInv, Bounds

-----------------------------------------------------------------------------
(* The theorems.                                                            *)

LEMMA StutterStep ==
  ASSUME IInv, UNCHANGED vars
  PROVE  IInv'
<1>1. Domains' /\ Flags' /\ Bounds'
  BY DEF IInv, Domains, Flags, Bounds, vars, testData, clientVars
<1>2. Stages' /\ Listed' /\ Loading'
  BY ThreadStep DEF vars
<1>3. Copies'
  BY SameCopies DEF vars, testData
<1>4. Applying'
  BY DEF IInv, Applying, PassesOn, IsTest, vars, testData, clientVars
<1>5. Passed'
  BY DEF IInv, Passed, PassedTo, Changed, HasCurrent, Coming, IsTest, vars, testData, clientVars
<1> QED
  BY <1>1, <1>2, <1>3, <1>4, <1>5 DEF IInv

LEMMA NextInv == IInv /\ [Next]_vars => IInv'
<1> SUFFICES ASSUME IInv, [Next]_vars PROVE IInv'
  OBVIOUS
<1>1. CASE UNCHANGED vars
  BY <1>1, StutterStep
<1>2. ASSUME NEW t \in Threads, NEW k \in Keys, NEW script \in Scripts[k],
             LDTestDataFlag(t, k, script)
      PROVE  IInv'
  BY <1>2, FlagStep
<1>3. ASSUME NEW t \in Threads,
             LDTestDataUpdate(t) \/ BeginNotify(t) \/ LDi_notifyDataInstances(t)
      PROVE  IInv'
  BY <1>3, UpdateStep, BeginStep, NotifyStep
<1>4. ASSUME NEW i \in Clients, NEW list \in FileLists, LDFileDataInit(i, list)
      PROVE  IInv'
  BY <1>4, FileInitStep
<1>5. ASSUME NEW i \in Clients,
             \/ LDTestDataCreateDataSource(i) \/ LoadFile(i) \/ Copy(i) \/ Fill(i)
             \/ Register(i) \/ Close(i)
      PROVE  IInv'
  BY <1>5, CreateStep, LoadStep, CopyStep, FillStep, RegisterStep, CloseStep
<1> QED
  BY <1>1, <1>2, <1>3, <1>4, <1>5 DEF Next

LEMMA InvHolds == Spec => []IInv
  BY InitInv, NextInv, PTL DEF Spec

\* TypeOK holds for any flags, threads and clients: the list of instances is
\* the clients whose test data source is open.
THEOREM TypeCorrect == Spec => []TypeOK
<1>1. IInv => TypeOK
  BY DEF IInv, Flags, Bounds, Listed, Applying, TypeOK, IsTest
<1> QED
  BY <1>1, InvHolds, PTL

\* A change that LDTestDataUpdate has passed on is in the store of every client
\* that had registered before it, for any number of threads, clients and flags.
THEOREM ChangesArrive == Spec => []ClientsFollow
<1>1. ASSUME IInv PROVE ClientsFollow
  <2> SUFFICES ASSUME NEW i \in Clients, NEW k \in Keys, client[i] = "started",
                      source[i] = "test", ~Busy(k), Changed(i, k)
               PROVE  k \in DOMAIN stores[i] /\ stores[i][k] = currentFlags[k]
    BY DEF ClientsFollow
  <2>1. HasCurrent(i, k) \/ Coming(i, k)
    BY <1>1 DEF IInv, Passed, PassedTo, IsTest
  <2>2. ~Coming(i, k)
    BY DEF Busy, Coming
  <2> QED
    BY <2>1, <2>2 DEF HasCurrent
<1> QED
  BY <1>1, InvHolds, PTL

\* LDFileDataInit takes a flag from the first file that has it, and there from
\* the flags before the flag values, for any files and any number of them.
THEOREM FirstFileTaken == Spec => []FirstFileWins
<1>1. ASSUME IInv PROVE FirstFileWins
  <2> SUFFICES ASSUME NEW i \in Clients, client[i] = "started", source[i] = "file",
                      NEW k \in Keys
               PROVE  /\ k \in DOMAIN stores[i]
                           <=> \E n \in DOMAIN files[i] : Mentions(files[i], n, k)
                      /\ \A n \in DOMAIN files[i] : FirstMention(files[i], n, k) =>
                           IF k \in DOMAIN files[i][n].flags
                           THEN stores[i][k].variations = files[i][n].flags[k].variations
                           ELSE \A user \in AppUsers :
                                  ValueFor(stores[i][k], user) = files[i][n].flagValues[k]
    BY DEF FirstFileWins
  <2>1. /\ files[i] \in FileLists
        /\ Merged(files[i], Len(files[i]), stores[i])
    BY <1>1 DEF IInv, Loading, LoadingOf, IsFile
  <2>2. DOMAIN files[i] = 1..Len(files[i])
    BY <2>1, FilesAssumption DEF IsSeq
  <2>3. ASSUME NEW n \in DOMAIN files[i], FirstMention(files[i], n, k),
               k \notin DOMAIN files[i][n].flags, NEW user \in AppUsers
        PROVE  ValueFor(stores[i][k], user) = files[i][n].flagValues[k]
    <3>1. stores[i][k] = expandSimpleFlags(files[i][n].flagValues)[k]
      BY <2>1, <2>2, <2>3 DEF Merged
    <3>2. k \in DOMAIN files[i][n].flagValues /\ files[i][n] \notin {Null, Bad}
      BY <2>3 DEF FirstMention, Mentions
    <3>3. <<files[i][n].flagValues[k]>> \notin {Null, Bad}
      BY <2>1, <3>2, FilesAssumption
    <3> QED
      BY <3>1, <3>2, <3>3, SimpleValue
  <2> QED
    BY <2>1, <2>2, <2>3 DEF Merged
<1> QED
  BY <1>1, InvHolds, PTL

-----------------------------------------------------------------------------
(* Numbers and lists, for the inductions.                                  *)

\* A set of numbers that is not empty has a least element.
LEMMA LeastNat ==
  ASSUME NEW S \in SUBSET Nat, S # {}
  PROVE  \E x \in S : \A y \in S : x <= y
<1> DEFINE R == {ss \in Nat \X Nat : ss[1] < ss[2]}
<1>1. IsWellFoundedOn(R, Nat)
  BY NatLessThanWellFounded DEF OpToRel
<1> HIDE DEF R
<1>2. PICK x \in S : \A y \in S : <<y, x>> \notin R
  BY <1>1, WFMin
<1>3. ASSUME NEW y \in S PROVE x <= y
  <2>1. <<y, x>> \notin R
    BY <1>2
  <2> QED
    BY <2>1 DEF R
<1> QED
  BY <1>3

LEMMA MinIsLeast ==
  ASSUME NEW S \in SUBSET Nat, S # {}
  PROVE  Min(S) \in S /\ \A y \in S : Min(S) <= y
  BY LeastNat DEF Min

\* A bounded set of numbers that is not empty has a greatest element.
LEMMA MaxIsGreatest ==
  ASSUME NEW n \in Nat, NEW S, S \subseteq 1..n, S # {}
  PROVE  Max(S) \in S /\ Max(S) \in 1..n /\ \A y \in S : y <= Max(S)
<1> DEFINE T == {x \in 0..n : n - x \in S}
<1>1. PICK s \in S : TRUE
  OBVIOUS
<1>2. n - s \in T
  BY <1>1
<1>3. PICK x \in T : \A y \in T : x <= y
  <2> HIDE DEF T
  <2>1. T \in SUBSET Nat
    BY DEF T
  <2> QED
    BY <1>2, <2>1, LeastNat
<1>4. n - x \in S /\ x \in 0..n
  BY <1>3
<1>5. ASSUME NEW y \in S PROVE n - y \in T
  <2>1. y \in 1..n
    OBVIOUS
  <2>2. n - y \in 0..n /\ n - (n - y) = y
    BY <2>1
  <2> QED
    BY <2>2
<1>6. ASSUME NEW y \in S PROVE n - x >= y
  <2>1. x <= n - y /\ y \in 1..n
    BY <1>3, <1>5
  <2> QED
    BY <1>4, <2>1
<1>7. \E m \in S : \A y \in S : m >= y
  BY <1>4, <1>6
<1>8. Max(S) \in S /\ \A y \in S : Max(S) >= y
  BY <1>7 DEF Max
<1>9. PICK m : m = Max(S)
  OBVIOUS
<1> QED
  BY <1>8, <1>9

\* The greatest element is known when it is seen.
LEMMA MaxIs ==
  ASSUME NEW n \in Nat, NEW S, S \subseteq 1..n, NEW x \in S, \A y \in S : y <= x
  PROVE  Max(S) = x
<1>1. PICK m : m = Max(S)
  OBVIOUS
<1>2. m \in S /\ m \in 1..n /\ x <= m
  BY <1>1, MaxIsGreatest
<1> QED
  BY <1>1, <1>2

LEMMA Induction ==
  ASSUME NEW S, 0 \in S, \A n \in Nat : n \in S => n + 1 \in S
  PROVE  Nat \subseteq S
<1> SUFFICES ASSUME Nat \ S # {} PROVE FALSE
  OBVIOUS
<1>1. PICK x \in Nat \ S : \A y \in Nat \ S : x <= y
  BY LeastNat
<1>2. x # 0 /\ x - 1 \in Nat
  BY <1>1
<1>3. x - 1 \in S
  BY <1>1, <1>2
<1> QED
  BY <1>1, <1>2, <1>3

\* Lists.
LEMMA IsSeqLen ==
  ASSUME NEW s, IsSeq(s)
  PROVE  Len(s) \in Nat /\ DOMAIN s = 1..Len(s)
  BY DEF IsSeq

LEMMA IsSeqOf ==
  ASSUME NEW n \in Nat, NEW s, DOMAIN s = 1..n, s = [i \in 1..n |-> s[i]]
  PROVE  IsSeq(s) /\ Len(s) = n
<1>1. s \in [1..n -> Range(s)]
  BY DEF Range
<1> QED
  BY <1>1 DEF IsSeq

LEMMA Prepended ==
  ASSUME NEW x, NEW s, IsSeq(s)
  PROVE  /\ IsSeq(<<x>> \o s) /\ Len(<<x>> \o s) = Len(s) + 1
         /\ (<<x>> \o s)[1] = x
         /\ \A i \in 1..Len(s) : (<<x>> \o s)[i + 1] = s[i]
<1> DEFINE T == Range(s) \cup {x}
           r == <<x>> \o s
<1>1. s \in Seq(T)
  <2>1. s \in Seq(Range(s)) /\ Range(s) \subseteq T
    BY DEF IsSeq
  <2> HIDE DEF T
  <2> QED
    BY <2>1
<1>2. <<x>> \in Seq(T) /\ Len(<<x>>) = 1 /\ <<x>>[1] = x
  OBVIOUS
<1> HIDE DEF T
<1>3. r \in Seq(T) /\ Len(r) = Len(s) + 1
  BY <1>1, <1>2
<1>4. r[1] = x
  BY <1>1, <1>2
<1>5. \A i \in 1..Len(s) : r[i + 1] = s[i]
  BY <1>1, <1>2
<1> HIDE DEF r
<1>6. IsSeq(r)
  BY <1>3 DEF IsSeq, Range
<1> QED
  BY <1>3, <1>4, <1>5, <1>6 DEF r

LEMMA Appended ==
  ASSUME NEW x, NEW s, IsSeq(s)
  PROVE  /\ IsSeq(Append(s, x)) /\ Len(Append(s, x)) = Len(s) + 1
         /\ Append(s, x)[Len(s) + 1] = x
         /\ \A i \in 1..Len(s) : Append(s, x)[i] = s[i]
<1> DEFINE T == Range(s) \cup {x}
           r == Append(s, x)
<1>1. s \in Seq(T) /\ x \in T
  <2>1. s \in Seq(Range(s)) /\ Range(s) \subseteq T
    BY DEF IsSeq
  <2>2. x \in T
    OBVIOUS
  <2> HIDE DEF T
  <2> QED
    BY <2>1, <2>2
<1> HIDE DEF T
<1>3. r \in Seq(T) /\ Len(r) = Len(s) + 1
  BY <1>1
<1>4. r[Len(s) + 1] = x
  BY <1>1
<1>5. \A i \in 1..Len(s) : r[i] = s[i]
  BY <1>1
<1> HIDE DEF r
<1>6. IsSeq(r)
  BY <1>3 DEF IsSeq, Range
<1> QED
  BY <1>3, <1>4, <1>5, <1>6 DEF r

-----------------------------------------------------------------------------
\* next is calls, n of them, and one call more.
More(n, calls, call, next) ==
    /\ n \in Nat /\ IsSeq(calls) /\ IsSeq(next)
    /\ Len(calls) = n /\ DOMAIN calls = 1..n
    /\ Len(next) = n + 1 /\ DOMAIN next = 1..(n + 1)
    /\ next[n + 1] = call /\ \A i \in 1..n : next[i] = calls[i]

\* The calls of some kinds, when there is one call more.
LEMMA OfMore ==
  ASSUME NEW n, NEW calls, NEW call, NEW next, More(n, calls, call, next), NEW ops
  PROVE  /\ Of(calls, ops) \subseteq 1..n
         /\ call.op \notin ops => Of(next, ops) = Of(calls, ops)
         /\ call.op \in ops =>
              /\ Of(next, ops) = Of(calls, ops) \cup {n + 1}
              /\ Of(next, ops) # {} /\ Max(Of(next, ops)) = n + 1
<1>1. n \in Nat /\ DOMAIN next = 1..n \cup {n + 1}
  BY DEF More
<1>2. Of(calls, ops) \subseteq 1..n
  BY DEF Of, More
<1>3. call.op \notin ops => Of(next, ops) = Of(calls, ops)
  BY <1>1 DEF Of, More
<1>4. ASSUME call.op \in ops
      PROVE  Of(next, ops) = Of(calls, ops) \cup {n + 1}
  BY <1>1, <1>4 DEF Of, More
<1>5. ASSUME call.op \in ops
      PROVE  Max(Of(next, ops)) = n + 1
  <2> DEFINE S == Of(next, ops)
  <2>1. S \subseteq 1..(n + 1) /\ n + 1 \in S
    BY <1>1, <1>2, <1>4, <1>5
  <2> HIDE DEF S
  <2>2. \A y \in S : y <= n + 1
    BY <1>1, <2>1
  <2>3. n + 1 \in Nat
    BY <1>1
  <2>4. Max(S) = n + 1
    BY <2>1, <2>2, <2>3, MaxIs
  <2> QED
    BY <2>4 DEF S
<1> QED
  BY <1>2, <1>3, <1>4, <1>5

\* The calls that made the flag boolean stay those; the new one may be another.
LEMMA ResetsMore ==
  ASSUME NEW n, NEW calls, NEW call, NEW next, More(n, calls, call, next)
  PROVE  /\ Resets(calls) \subseteq 1..n
         /\ Resets(next) \ {n + 1} = Resets(calls)
         /\ Resets(next) \subseteq 1..(n + 1)
<1> DEFINE V == {"variations", "value"}
           makes(c, i) == \E j \in Of(c, V) :
             /\ j < i /\ Given(c[j]) # TrueFalse
             /\ \A l \in (j + 1)..(i - 1) : ~c[l].boolean /\ c[l].op \notin V
<1>1. /\ n \in Nat /\ DOMAIN next = 1..n \cup {n + 1} /\ n + 1 \notin 1..n
  BY DEF More
<1>2. Resets(calls) \subseteq 1..n /\ Resets(next) \subseteq 1..(n + 1)
  BY DEF Resets, More
<1>3. ASSUME NEW i \in 1..n
      PROVE  i \in Resets(next) <=> i \in Resets(calls)
  <2>1. \A j \in 1..n : j < i => \A l \in (j + 1)..(i - 1) : l \in 1..n
    BY <1>1
  <2>2. \A j : j \in Of(next, V) /\ j < i <=> j \in Of(calls, V) /\ j < i
    BY <1>1 DEF Of, More
  <2>3. \A j \in Of(calls, V) : j \in 1..n
    BY DEF Of, More
  <2>4. i \in DOMAIN next /\ i \in DOMAIN calls /\ next[i] = calls[i]
    BY <1>1 DEF More
  <2>5. \A l \in 1..n : next[l] = calls[l]
    BY DEF More
  <2>6. makes(next, i) <=> makes(calls, i)
    <3>1. ASSUME makes(next, i) PROVE makes(calls, i)
      <4>1. PICK j \in Of(next, V) :
               /\ j < i /\ Given(next[j]) # TrueFalse
               /\ \A l \in (j + 1)..(i - 1) : ~next[l].boolean /\ next[l].op \notin V
        BY <3>1
      <4>2. j \in Of(calls, V) /\ j \in 1..n
        BY <4>1, <2>2, <2>3
      <4> QED
        BY <4>1, <4>2, <2>1, <2>5
    <3>2. ASSUME makes(calls, i) PROVE makes(next, i)
      <4>1. PICK j \in Of(calls, V) :
               /\ j < i /\ Given(calls[j]) # TrueFalse
               /\ \A l \in (j + 1)..(i - 1) : ~calls[l].boolean /\ calls[l].op \notin V
        BY <3>2
      <4>2. j \in Of(next, V) /\ j \in 1..n
        BY <4>1, <2>2, <2>3
      <4> QED
        BY <4>1, <4>2, <2>1, <2>5
    <3> QED
      BY <3>1, <3>2
  <2>7. i \in Resets(next) <=> next[i].boolean /\ makes(next, i)
    BY <2>4 DEF Resets
  <2>8. i \in Resets(calls) <=> calls[i].boolean /\ makes(calls, i)
    BY <2>4 DEF Resets
  <2> QED
    BY <2>4, <2>6, <2>7, <2>8
<1> QED
  BY <1>1, <1>2, <1>3

\* A boolean call resets the flag when its variations are others.
LEMMA ResetNow ==
  ASSUME NEW n, NEW calls, NEW call, NEW next, More(n, calls, call, next)
  PROVE  n + 1 \in Resets(next) <=> call.boolean /\ IntendedVariations(calls) # TrueFalse
<1> DEFINE V == {"variations", "value"}
           last == Of(calls, V)
<1>1. /\ n \in Nat /\ DOMAIN next = 1..n \cup {n + 1} /\ n + 1 \notin 1..n
      /\ next[n + 1] = call /\ \A i \in 1..n : next[i] = calls[i]
  BY DEF More
<1>2. last \subseteq 1..n
  BY DEF More, Of
<1>3. \A j : j \in Of(next, V) /\ j < n + 1 <=> j \in last
  <2>1. \A j \in Of(next, V) : j < n + 1 => j \in 1..n
    BY <1>1 DEF Of
  <2> QED
    BY <1>1, <1>2, <2>1 DEF Of, More
<1>4. n + 1 \in Resets(next) <=>
        /\ call.boolean
        /\ \E j \in last :
             /\ Given(calls[j]) # TrueFalse
             /\ \A l \in (j + 1)..n : ~calls[l].boolean /\ calls[l].op \notin V
  <2>1. PICK x : x = n + 1
    OBVIOUS
  <2>2. x \in DOMAIN next /\ x - 1 = n /\ next[x] = call
    BY <1>1, <2>1
  <2>3. x \in Resets(next) <=>
        /\ next[x].boolean
        /\ \E j \in Of(next, V) :
             /\ j < x /\ Given(next[j]) # TrueFalse
             /\ \A l \in (j + 1)..(x - 1) : ~next[l].boolean /\ next[l].op \notin V
    BY <2>2 DEF Resets
  <2>4. \A j \in 1..n : \A l \in (j + 1)..n : l \in 1..n
    BY <1>1
  <2>5. \A j : j \in Of(next, V) /\ j < x <=> j \in last
    BY <1>3, <2>1
  <2> HIDE DEF last
  <2>6. \A j \in last : next[j] = calls[j] /\ \A l \in (j + 1)..n : next[l] = calls[l]
    BY <1>1, <1>2, <2>4
  <2>7. (\E j \in Of(next, V) :
             /\ j < x /\ Given(next[j]) # TrueFalse
             /\ \A l \in (j + 1)..(x - 1) : ~next[l].boolean /\ next[l].op \notin V)
        <=> \E j \in last :
             /\ Given(calls[j]) # TrueFalse
             /\ \A l \in (j + 1)..n : ~calls[l].boolean /\ calls[l].op \notin V
    <3>1. ASSUME NEW j \in Of(next, V), j < x, Given(next[j]) # TrueFalse,
                 \A l \in (j + 1)..(x - 1) : ~next[l].boolean /\ next[l].op \notin V
          PROVE  \E i \in last :
                   /\ Given(calls[i]) # TrueFalse
                   /\ \A l \in (i + 1)..n : ~calls[l].boolean /\ calls[l].op \notin V
      <4>1. j \in last
        BY <2>5, <3>1
      <4> QED
        BY <2>2, <2>6, <3>1, <4>1
    <3>2. ASSUME NEW j \in last, Given(calls[j]) # TrueFalse,
                 \A l \in (j + 1)..n : ~calls[l].boolean /\ calls[l].op \notin V
          PROVE  \E i \in Of(next, V) :
                   /\ i < x /\ Given(next[i]) # TrueFalse
                   /\ \A l \in (i + 1)..(x - 1) : ~next[l].boolean /\ next[l].op \notin V
      <4>1. j \in Of(next, V) /\ j < x
        BY <2>5, <3>2
      <4> QED
        BY <2>2, <2>6, <3>2, <4>1
    <3> QED
      BY <3>1, <3>2
  <2> QED
    BY <2>1, <2>2, <2>3, <2>7
<1>5. CASE last = {}
  <2>1. IntendedVariations(calls) = TrueFalse
    BY <1>5 DEF IntendedVariations
  <2> QED
    BY <1>4, <1>5, <2>1
<1>6. CASE last # {}
  <2>1. PICK m : m = Max(last)
    OBVIOUS
  <2>2. m \in last /\ m \in 1..n /\ \A y \in last : y <= m
    BY <1>1, <1>2, <1>6, <2>1, MaxIsGreatest
  <2>3. ASSUME NEW l \in (m + 1)..n PROVE l \in 1..n /\ calls[l].op \notin V
    <3>1. l \in 1..n /\ ~(l <= m)
      BY <1>1, <2>2
    <3>2. l \notin last
      BY <2>2, <3>1
    <3> QED
      BY <3>1, <3>2 DEF Of, More
  <2>4. IntendedVariations(calls) =
          IF \E i \in Resets(calls) : i > m THEN TrueFalse ELSE Given(calls[m])
    BY <1>6, <2>1 DEF IntendedVariations
  <2>5. ASSUME NEW j \in last,
               \A l \in (j + 1)..n : ~calls[l].boolean /\ calls[l].op \notin V
        PROVE  j = m
    <3>1. j \in 1..n /\ j <= m
      BY <1>2, <2>2
    <3>2. calls[m].op \in V
      BY <2>2 DEF Of
    <3>3. m \notin (j + 1)..n
      BY <2>5, <3>2
    <3> QED
      BY <1>1, <2>2, <3>1, <3>3
  <2>6. n + 1 \in Resets(next) <=>
          /\ call.boolean /\ Given(calls[m]) # TrueFalse
          /\ \A l \in (m + 1)..n : ~calls[l].boolean
    BY <1>4, <2>2, <2>3, <2>5
  <2>7. Resets(calls) \subseteq 1..n /\ \A i \in Resets(calls) : calls[i].boolean
    BY DEF Resets, More
  <2>8. ASSUME NEW x \in (m + 1)..n, calls[x].boolean, Given(calls[m]) # TrueFalse
        PROVE  \E i \in Resets(calls) : i > m
    <3> DEFINE S == {l \in (m + 1)..n : calls[l].boolean}
    <3>1. x \in S /\ S \in SUBSET Nat
      BY <1>1, <2>2, <2>8
    <3> HIDE DEF S
    <3>2. PICK i \in S : \A y \in S : i <= y
      BY <3>1, LeastNat
    <3>3. i \in (m + 1)..n /\ calls[i].boolean
      BY <3>2 DEF S
    <3>4. i \in 1..n /\ m < i
      BY <1>1, <2>2, <3>3
    <3>5. ASSUME NEW l \in (m + 1)..(i - 1)
          PROVE  ~calls[l].boolean /\ calls[l].op \notin V
      <4>1. l \in (m + 1)..n /\ ~(i <= l)
        BY <1>1, <2>2, <3>4
      <4>2. l \notin S
        BY <3>2, <4>1
      <4> QED
        BY <2>3, <4>1, <4>2 DEF S
    <3>6. i \in DOMAIN calls
      BY <3>4 DEF More
    <3>7. i \in Resets(calls)
      <4> HIDE DEF last
      <4>1. m \in Of(calls, V)
        BY <2>2 DEF last
      <4> QED
        BY <2>8, <3>3, <3>4, <3>5, <3>6, <4>1 DEF Resets
    <3> QED
      BY <1>1, <2>2, <3>4, <3>7
  <2>9. ASSUME NEW i \in Resets(calls), i > m
        PROVE  i \in (m + 1)..n /\ calls[i].boolean
    BY <1>1, <2>2, <2>7, <2>9
  <2>10. CASE \E i \in Resets(calls) : i > m
    <3>1. IntendedVariations(calls) = TrueFalse
      BY <2>4, <2>10
    <3> QED
      BY <2>6, <2>9, <2>10, <3>1
  <2>11. CASE ~ \E i \in Resets(calls) : i > m
    <3>1. IntendedVariations(calls) = Given(calls[m])
      BY <2>4, <2>11
    <3>2. Given(calls[m]) # TrueFalse => \A l \in (m + 1)..n : ~calls[l].boolean
      BY <2>8, <2>11
    <3> QED
      BY <2>6, <3>1, <3>2
  <2> QED
    BY <2>10, <2>11
<1> QED
  BY <1>5, <1>6

-----------------------------------------------------------------------------
(* The settings that one more call leaves.                                 *)

\* A setting after one call more: what the call sets, what a switch back to
\* true and false resets, or what it was.
LEMMA SettingMore ==
  ASSUME NEW n, NEW calls, NEW call, NEW next, More(n, calls, call, next), NEW ops,
         NEW default
  PROVE  Setting(next, ops, default) =
           IF call.op \in ops THEN Choice(call)
           ELSE IF n + 1 \in Resets(next) THEN default
           ELSE Setting(calls, ops, default)
<1> DEFINE old == Of(calls, ops)
           new == Of(next, ops)
<1>1. n \in Nat /\ next[n + 1] = call /\ \A i \in 1..n : next[i] = calls[i]
  BY DEF More
<1>2. /\ old \subseteq 1..n
      /\ call.op \notin ops => new = old
      /\ call.op \in ops => new # {} /\ Max(new) = n + 1
  BY OfMore
<1>3. /\ Resets(calls) \subseteq 1..n /\ Resets(next) \ {n + 1} = Resets(calls)
      /\ Resets(next) \subseteq 1..(n + 1)
  BY ResetsMore
<1>4. Setting(next, ops, default) =
        IF new = {} \/ \E i \in Resets(next) : i > Max(new) THEN default
        ELSE Choice(next[Max(new)])
  BY DEF Setting
<1>5. Setting(calls, ops, default) =
        IF old = {} \/ \E i \in Resets(calls) : i > Max(old) THEN default
        ELSE Choice(calls[Max(old)])
  BY DEF Setting
<1> HIDE DEF old, new
<1>6. CASE call.op \in ops
  <2>1. ~ \E i \in Resets(next) : i > n + 1
    BY <1>1, <1>3
  <2> QED
    BY <1>1, <1>2, <1>4, <1>6, <2>1
<1>7. CASE call.op \notin ops
  <2>1. new = old
    BY <1>2, <1>7
  <2>2. CASE old = {}
    BY <1>4, <1>5, <1>7, <2>1, <2>2
  <2>3. CASE old # {}
    <3>1. PICK m : m = Max(old)
      OBVIOUS
    <3>2. m \in 1..n
      BY <1>1, <1>2, <2>3, <3>1, MaxIsGreatest
    <3>3. next[m] = calls[m] /\ n + 1 > m
      BY <1>1, <3>2
    <3>4. (\E i \in Resets(next) : i > m)
            <=> n + 1 \in Resets(next) \/ \E i \in Resets(calls) : i > m
      BY <1>3, <3>3
    <3> QED
      BY <1>4, <1>5, <1>7, <2>1, <2>3, <3>1, <3>3, <3>4
  <2> QED
    BY <2>2, <2>3
<1> QED
  BY <1>6, <1>7

\* The variations after one call more.
LEMMA VariationsMore ==
  ASSUME NEW n, NEW calls, NEW call, NEW next, More(n, calls, call, next),
         call.op \in {"variations", "value"} => ~call.boolean
  PROVE  IntendedVariations(next) =
           IF call.op \in {"variations", "value"} THEN Given(call)
           ELSE IF call.boolean THEN TrueFalse
           ELSE IntendedVariations(calls)
<1> DEFINE ops == {"variations", "value"}
           old == Of(calls, ops)
           new == Of(next, ops)
<1>1. n \in Nat /\ next[n + 1] = call /\ \A i \in 1..n : next[i] = calls[i]
  BY DEF More
<1>2. /\ old \subseteq 1..n
      /\ call.op \notin ops => new = old
      /\ call.op \in ops => new # {} /\ Max(new) = n + 1
  BY OfMore
<1>3. /\ Resets(calls) \subseteq 1..n /\ Resets(next) \ {n + 1} = Resets(calls)
      /\ Resets(next) \subseteq 1..(n + 1)
  BY ResetsMore
<1>4. IntendedVariations(next) =
        IF new = {} \/ \E i \in Resets(next) : i > Max(new) THEN TrueFalse
        ELSE Given(next[Max(new)])
  BY DEF IntendedVariations
<1>5. IntendedVariations(calls) =
        IF old = {} \/ \E i \in Resets(calls) : i > Max(old) THEN TrueFalse
        ELSE Given(calls[Max(old)])
  BY DEF IntendedVariations
<1>8. n + 1 \in Resets(next) <=> call.boolean /\ IntendedVariations(calls) # TrueFalse
  BY ResetNow
<1> HIDE DEF old, new
<1>6. CASE call.op \in ops
  <2>1. ~ \E i \in Resets(next) : i > n + 1
    BY <1>1, <1>3
  <2> QED
    BY <1>1, <1>2, <1>4, <1>6, <2>1
<1>7. CASE call.op \notin ops
  <2>1. new = old
    BY <1>2, <1>7
  <2>2. CASE old = {}
    BY <1>4, <1>5, <1>7, <2>1, <2>2
  <2>3. CASE old # {}
    <3>1. PICK m : m = Max(old)
      OBVIOUS
    <3>2. m \in 1..n
      BY <1>1, <1>2, <2>3, <3>1, MaxIsGreatest
    <3>3. next[m] = calls[m] /\ n + 1 > m
      BY <1>1, <3>2
    <3>4. (\E i \in Resets(next) : i > m)
            <=> n + 1 \in Resets(next) \/ \E i \in Resets(calls) : i > m
      BY <1>3, <3>3
    <3> QED
      BY <1>4, <1>5, <1>7, <1>8, <2>1, <2>3, <3>1, <3>3, <3>4
  <2> QED
    BY <2>2, <2>3
<1> QED
  BY <1>6, <1>7

\* Whether targeting is on after one call more.
LEMMA OnMore ==
  ASSUME NEW n, NEW calls, NEW call, NEW next, More(n, calls, call, next),
         call.op = "on" => call.arg \in BOOLEAN
  PROVE  IntendedOn(next) <=>
           IF call.op = "on" THEN call.arg
           ELSE IF call.op \in {"all", "value"} THEN TRUE
           ELSE IntendedOn(calls)
<1> DEFINE ops == {"on", "all", "value"}
           old == Of(calls, ops)
           new == Of(next, ops)
<1>1. n \in Nat /\ next[n + 1] = call /\ \A i \in 1..n : next[i] = calls[i]
  BY DEF More
<1>2. /\ old \subseteq 1..n
      /\ call.op \notin ops => new = old
      /\ call.op \in ops => new # {} /\ Max(new) = n + 1
  BY OfMore
<1>3. IntendedOn(next) <=> new = {} \/ next[Max(new)].op # "on" \/ next[Max(new)].arg
  BY DEF IntendedOn
<1>4. IntendedOn(calls) <=> old = {} \/ calls[Max(old)].op # "on" \/ calls[Max(old)].arg
  BY DEF IntendedOn
<1> HIDE DEF old, new
<1>6. CASE call.op \in ops
  BY <1>1, <1>2, <1>3, <1>6
<1>7. CASE call.op \notin ops
  <2>1. new = old
    BY <1>2, <1>7
  <2>2. CASE old = {}
    BY <1>3, <1>4, <1>7, <2>1, <2>2
  <2>3. CASE old # {}
    <3>1. PICK m : m = Max(old)
      OBVIOUS
    <3>2. m \in 1..n
      BY <1>1, <1>2, <2>3, <3>1, MaxIsGreatest
    <3>3. next[m] = calls[m]
      BY <1>1, <3>2
    <3> QED
      BY <1>3, <1>4, <1>7, <2>1, <2>3, <3>1, <3>3
  <2> QED
    BY <2>2, <2>3
<1> QED
  BY <1>6, <1>7

\* The fallthrough after one call more.
LEMMA FallthroughMore ==
  ASSUME NEW n, NEW calls, NEW call, NEW next, More(n, calls, call, next)
  PROVE  IntendedFallthrough(next) =
           IF call.op = "value" THEN 0
           ELSE IF call.op \in {"fallthrough", "all"} THEN call.arg
           ELSE IF n + 1 \in Resets(next) THEN 0
           ELSE IntendedFallthrough(calls)
<1>1. Setting(next, {"fallthrough", "all", "value"}, 0) =
           IF call.op \in {"fallthrough", "all", "value"} THEN Choice(call)
           ELSE IF n + 1 \in Resets(next) THEN 0
           ELSE Setting(calls, {"fallthrough", "all", "value"}, 0)
  BY SettingMore
<1> QED
  BY <1>1 DEF IntendedFallthrough, Choice

-----------------------------------------------------------------------------
IsTarget(t) == t \in [variation : Int, users : SUBSET STRING]
IsRule(r) ==
    /\ r = [variation |-> r.variation, clauses |-> r.clauses]
    /\ r.variation \in Int /\ IsSeq(r.clauses)

IsBuilder(b) ==
    /\ b = [on |-> b.on, variations |-> b.variations,
            fallthroughVariation |-> b.fallthroughVariation,
            offVariation |-> b.offVariation, targets |-> b.targets, rules |-> b.rules,
            borrowed |-> b.borrowed, dangling |-> b.dangling]
    /\ b.on \in BOOLEAN /\ b.fallthroughVariation \in Int /\ b.offVariation \in Int
    /\ IsSeq(b.variations) /\ b.variations \notin {Null, Bad} /\ b.borrowed \in Nat
    /\ IsSeq(b.targets) /\ \A i \in DOMAIN b.targets : IsTarget(b.targets[i])
    /\ IsSeq(b.rules) /\ \A i \in DOMAIN b.rules : IsRule(b.rules[i])

\* A value for all users that is an array.
GivesArray(call) == call.op = "value" /\ call.arg.type = "array"

\* The settings are those that the calls mean, but that no value for all users
\* changes the off variation.
ScalarsFit(b, calls) ==
    /\ b.on = TRUE <=> IntendedOn(calls)
    /\ b.variations = IntendedVariations(calls)
    /\ b.fallthroughVariation = IntendedFallthrough(calls)
    /\ b.offVariation = Setting(calls, {"off"}, 1)

LEMMA TrueFalseIs ==
  IsSeq(TrueFalse) /\ TrueFalse \notin {Null, Bad} /\ asJSONArray(JSONArray(TrueFalse)) = TrueFalse
<1>1. PICK yes : yes = [type |-> "boolean", n |-> 1]
  OBVIOUS
<1>2. PICK no : no = [type |-> "boolean", n |-> 0]
  OBVIOUS
<1>3. TrueFalse = <<yes, no>>
  BY <1>1, <1>2 DEF TrueFalse
<1>4. TrueFalse \in Seq({yes, no}) /\ Range(TrueFalse) = {yes, no}
  BY <1>3 DEF Range
<1>5. asJSONArray(JSONArray(TrueFalse)) = TrueFalse
  BY DEF asJSONArray, JSONArray
<1> QED
  BY <1>4, <1>5, AbsentAssumption DEF IsSeq

Booleaned(b, call) == IF call.boolean THEN LDFlagBuilderBooleanFlag(b) ELSE b

\* LDFlagBuilderBooleanFlag touches the variations and the two settings only.
LEMMA BooleanedIs ==
  ASSUME NEW b, NEW call, IsBuilder(b)
  PROVE  LET c == Booleaned(b, call) IN
         /\ IsBuilder(c)
         /\ c.on = b.on /\ c.targets = b.targets /\ c.rules = b.rules
         /\ c.borrowed = b.borrowed
         /\ c.variations = IF call.boolean THEN TrueFalse ELSE b.variations
         /\ c.fallthroughVariation =
              IF call.boolean /\ b.variations # TrueFalse THEN 0 ELSE b.fallthroughVariation
         /\ c.offVariation =
              IF call.boolean /\ b.variations # TrueFalse THEN 1 ELSE b.offVariation
<1> DEFINE c == Booleaned(b, call)
<1>1. CASE ~call.boolean \/ b.variations = TrueFalse
  <2>1. c = b
    BY <1>1 DEF Booleaned, LDFlagBuilderBooleanFlag, LDi_isBooleanFlag
  <2> HIDE DEF c
  <2>2. b.variations = IF call.boolean THEN TrueFalse ELSE b.variations
    BY <1>1
  <2> QED
    BY <1>1, <2>1, <2>2 DEF c
<1>2. CASE call.boolean /\ b.variations # TrueFalse
  <2>1. c = [[[b EXCEPT !.variations = TrueFalse] EXCEPT !.fallthroughVariation = 0]
               EXCEPT !.offVariation = 1]
    BY <1>2, TrueFalseIs DEF Booleaned, LDFlagBuilderBooleanFlag, LDi_isBooleanFlag,
      LDFlagBuilderOffVariation, LDFlagBuilderFallthroughVariation, LDFlagBuilderVariations
  <2>2. c = [on |-> b.on, variations |-> TrueFalse, fallthroughVariation |-> 0,
            offVariation |-> 1, targets |-> b.targets, rules |-> b.rules,
            borrowed |-> b.borrowed, dangling |-> b.dangling]
    BY <2>1 DEF IsBuilder
  <2> HIDE DEF c
  <2>3. IsBuilder(c)
    BY <2>2, TrueFalseIs DEF IsBuilder
  <2> QED
    BY <1>2, <2>2, <2>3 DEF c
<1> QED
  BY <1>1, <1>2

-----------------------------------------------------------------------------
(* One call on a builder.                                                  *)

\* What LDFlagBuilderVariationForUser makes of the targets.
Retargeted(targets, user, n) ==
    LET all == IF \E i \in DOMAIN targets : targets[i].variation = n
               THEN targets
               ELSE Append(targets, [variation |-> n, users |-> {}])
    IN  [i \in DOMAIN all |->
            [all[i] EXCEPT !.users =
                IF all[i].variation = n THEN @ \cup {user} ELSE @ \ {user}]]

\* The user is in the targets of the variation n and in no others; the other
\* users stay where they are.
LEMMA RetargetedIs ==
  ASSUME NEW targets, IsSeq(targets), \A i \in DOMAIN targets : IsTarget(targets[i]),
         NEW user \in STRING, NEW n \in Int
  PROVE  LET new == Retargeted(targets, user, n) IN
         /\ IsSeq(new) /\ \A i \in DOMAIN new : IsTarget(new[i])
         /\ \A i \in DOMAIN new : user \in new[i].users <=> new[i].variation = n
         /\ \E i \in DOMAIN new : new[i].variation = n
         /\ \A i \in DOMAIN targets :
              /\ i \in DOMAIN new /\ new[i].variation = targets[i].variation
              /\ \A u : u # user => (u \in new[i].users <=> u \in targets[i].users)
         /\ \A i \in DOMAIN new : i \notin DOMAIN targets => new[i].users \subseteq {user}
<1> DEFINE all == IF \E i \in DOMAIN targets : targets[i].variation = n
                  THEN targets
                  ELSE Append(targets, [variation |-> n, users |-> {}])
           new == Retargeted(targets, user, n)
<1>1. /\ IsSeq(all) /\ \A i \in DOMAIN all : IsTarget(all[i])
      /\ \E i \in DOMAIN all : all[i].variation = n
      /\ \A i \in DOMAIN targets : i \in DOMAIN all /\ all[i] = targets[i]
      /\ \A i \in DOMAIN all : i \notin DOMAIN targets => all[i].users = {}
  <2>1. CASE \E i \in DOMAIN targets : targets[i].variation = n
    BY <2>1
  <2>2. CASE ~ \E i \in DOMAIN targets : targets[i].variation = n
    <3>1. PICK t : t = [variation |-> n, users |-> {}]
      OBVIOUS
    <3>2. IsTarget(t) /\ t.users = {} /\ t.variation = n
      BY <3>1 DEF IsTarget
    <3>3. all = Append(targets, t)
      BY <2>2, <3>1
    <3> HIDE DEF all
    <3>4. /\ IsSeq(all) /\ Len(all) = Len(targets) + 1 /\ all[Len(targets) + 1] = t
          /\ \A i \in 1..Len(targets) : all[i] = targets[i]
      BY <3>3, Appended
    <3>5. /\ Len(targets) \in Nat /\ DOMAIN targets = 1..Len(targets)
          /\ DOMAIN all = 1..Len(all)
      BY <3>4, IsSeqLen
    <3>6. DOMAIN all = DOMAIN targets \cup {Len(targets) + 1}
      BY <3>4, <3>5
    <3> QED
      BY <3>2, <3>4, <3>5, <3>6
  <2> QED
    BY <2>1, <2>2
<1>2. new = [i \in DOMAIN all |->
            [all[i] EXCEPT !.users =
                IF all[i].variation = n THEN @ \cup {user} ELSE @ \ {user}]]
  BY DEF Retargeted
<1> HIDE DEF all, new
<1>3. ASSUME NEW i \in DOMAIN all
      PROVE  /\ IsTarget(new[i]) /\ new[i].variation = all[i].variation
             /\ user \in new[i].users <=> new[i].variation = n
             /\ \A u : u # user => (u \in new[i].users <=> u \in all[i].users)
  <2>1. PICK t : t = all[i]
    OBVIOUS
  <2>2. new[i] = [t EXCEPT !.users =
                    IF t.variation = n THEN t.users \cup {user} ELSE t.users \ {user}]
    BY <1>2, <2>1
  <2>3. t = [variation |-> t.variation, users |-> t.users] /\ t.variation \in Int
        /\ t.users \subseteq STRING
    BY <1>1, <2>1 DEF IsTarget
  <2>4. new[i] = [variation |-> t.variation,
                  users |-> IF t.variation = n THEN t.users \cup {user} ELSE t.users \ {user}]
    BY <2>2, <2>3
  <2>5. IsTarget(new[i])
    BY <2>3, <2>4 DEF IsTarget
  <2> QED
    BY <2>1, <2>4, <2>5
<1>4. DOMAIN new = DOMAIN all
  BY <1>2
<1>5. IsSeq(new)
  <2>1. Len(all) \in Nat /\ DOMAIN all = 1..Len(all)
    BY <1>1, IsSeqLen
  <2>2. new = [i \in 1..Len(all) |-> new[i]]
    BY <1>2, <2>1
  <2> QED
    BY <1>4, <2>1, <2>2, IsSeqOf
<1>6. ASSUME NEW i \in DOMAIN new, i \notin DOMAIN targets PROVE new[i].users \subseteq {user}
  <2>1. all[i].users = {} /\ i \in DOMAIN all
    BY <1>1, <1>4, <1>6
  <2> QED
    BY <1>3, <2>1
<1>7. ASSUME NEW i \in DOMAIN targets
      PROVE  /\ i \in DOMAIN new /\ new[i].variation = targets[i].variation
             /\ \A u : u # user => (u \in new[i].users <=> u \in targets[i].users)
  BY <1>1, <1>3, <1>4
<1>8. \E i \in DOMAIN new : new[i].variation = n
  BY <1>1, <1>3, <1>4
<1>9. \A i \in DOMAIN new : IsTarget(new[i]) /\ (user \in new[i].users <=> new[i].variation = n)
  BY <1>3, <1>4
<1> QED
  BY <1>5, <1>6, <1>7, <1>8, <1>9 DEF new

\* What the calls make of the rules: the first one is the newest.
Reruled(rules, call) ==
    CASE call.op = "if" -> <<[variation |-> 0, clauses |-> <<call.arg>>]>> \o rules
      [] call.op = "and" -> [rules EXCEPT ![1].clauses = <<call.arg>> \o @]
      [] call.op = "then" -> [rules EXCEPT ![1].variation = call.arg]
      [] OTHER -> rules

\* A rule is begun in front of the others, and later calls change the first.
LEMMA ReruledIs ==
  ASSUME NEW rules, IsSeq(rules), \A i \in DOMAIN rules : IsRule(rules[i]),
         NEW call, CallOK(call), call.op \in {"and", "then"} => Len(rules) > 0
  PROVE  LET new == Reruled(rules, call) IN
         /\ IsSeq(new) /\ \A i \in DOMAIN new : IsRule(new[i])
         /\ call.op = "if" =>
              /\ Len(new) = Len(rules) + 1
              /\ new[1] = [variation |-> 0, clauses |-> <<call.arg>>]
              /\ \A i \in 1..Len(rules) : new[i + 1] = rules[i]
         /\ call.op \in {"and", "then"} =>
              /\ Len(new) = Len(rules) /\ 1 \in DOMAIN rules
              /\ \A i \in 2..Len(rules) : new[i] = rules[i]
         /\ call.op = "and" =>
              new[1] = [variation |-> rules[1].variation,
                        clauses |-> <<call.arg>> \o rules[1].clauses]
         /\ call.op = "then" =>
              new[1] = [variation |-> call.arg, clauses |-> rules[1].clauses]
         /\ call.op \notin {"if", "and", "then"} => new = rules
<1> DEFINE new == Reruled(rules, call)
<1>1. Len(rules) \in Nat /\ DOMAIN rules = 1..Len(rules)
  BY IsSeqLen
<1>2. CASE call.op = "if"
  <2>1. PICK r : r = [variation |-> 0, clauses |-> <<call.arg>>]
    OBVIOUS
  <2>2. IsRule(r)
    <3>1. IsSeq(<<call.arg>>)
      BY DEF IsSeq, Range
    <3> QED
      BY <2>1, <3>1 DEF IsRule
  <2>3. new = <<r>> \o rules
    BY <1>2, <2>1 DEF Reruled
  <2> HIDE DEF new
  <2>4. /\ IsSeq(new) /\ Len(new) = Len(rules) + 1 /\ new[1] = r
        /\ \A i \in 1..Len(rules) : new[i + 1] = rules[i]
    BY <2>3, Prepended
  <2>5. DOMAIN new = 1..(Len(rules) + 1)
    BY <2>4, IsSeqLen
  <2>6. ASSUME NEW i \in DOMAIN new PROVE IsRule(new[i])
    <3>1. CASE i = 1
      BY <2>2, <2>4, <3>1
    <3>2. CASE i # 1
      <4>1. i - 1 \in 1..Len(rules) /\ (i - 1) + 1 = i
        BY <1>1, <2>5, <3>2
      <4>2. new[i] = rules[i - 1]
        BY <2>4, <4>1
      <4> QED
        BY <1>1, <4>1, <4>2
    <3> QED
      BY <3>1, <3>2
  <2> QED
    BY <1>2, <2>1, <2>4, <2>6 DEF new
<1>3. CASE call.op \in {"and", "then"}
  <2>1. PICK r : r = rules[1]
    OBVIOUS
  <2>2. 1 \in DOMAIN rules /\ 1 \in 1..Len(rules)
    BY <1>1, <1>3
  <2>3. IsRule(r)
    BY <2>1, <2>2
  <2>12. PICK clauses : clauses = <<call.arg>> \o r.clauses
    OBVIOUS
  <2>4. PICK s : s = IF call.op = "and"
                     THEN [variation |-> r.variation, clauses |-> clauses]
                     ELSE [variation |-> call.arg, clauses |-> r.clauses]
    OBVIOUS
  <2>5. IsRule(s)
    <3>1. CASE call.op = "and"
      <4>1. IsSeq(clauses)
        BY <2>3, <2>12, Prepended DEF IsRule
      <4> QED
        BY <2>3, <2>4, <3>1, <4>1 DEF IsRule
    <3>2. CASE call.op = "then"
      <4>1. call.arg \in Int
        BY <3>2 DEF CallOK
      <4> QED
        BY <2>3, <2>4, <3>2, <4>1 DEF IsRule
    <3> QED
      BY <1>3, <3>1, <3>2
  <2>6. new = [rules EXCEPT ![1] = s]
    <3>0. r = [variation |-> r.variation, clauses |-> r.clauses]
      BY <2>3 DEF IsRule
    <3>1. CASE call.op = "and"
      <4>1. new = [rules EXCEPT ![1] = [r EXCEPT !.clauses = clauses]]
        BY <2>1, <2>2, <2>12, <3>1 DEF Reruled
      <4>2. [r EXCEPT !.clauses = clauses] = s
        BY <2>4, <3>0, <3>1
      <4> QED
        BY <4>1, <4>2
    <3>2. CASE call.op = "then"
      <4>1. new = [rules EXCEPT ![1] = [r EXCEPT !.variation = call.arg]]
        BY <2>1, <2>2, <3>2 DEF Reruled
      <4>2. [r EXCEPT !.variation = call.arg] = s
        BY <2>4, <3>0, <3>2
      <4> QED
        BY <4>1, <4>2
    <3> QED
      BY <1>3, <3>1, <3>2
  <2> HIDE DEF new
  <2>7. DOMAIN new = 1..Len(rules) /\ new = [i \in 1..Len(rules) |-> new[i]]
    BY <1>1, <2>6
  <2>8. IsSeq(new) /\ Len(new) = Len(rules)
    BY <1>1, <2>7, IsSeqOf
  <2>9. new[1] = s /\ \A i \in 1..Len(rules) : i # 1 => new[i] = rules[i]
    BY <1>1, <2>2, <2>6
  <2>10. \A i \in DOMAIN new : IsRule(new[i])
    BY <1>1, <2>5, <2>7, <2>9
  <2>11. \A i \in 2..Len(rules) : new[i] = rules[i]
    BY <1>1, <2>9
  <2> QED
    BY <1>3, <2>1, <2>2, <2>4, <2>8, <2>9, <2>10, <2>11, <2>12 DEF new
<1>4. CASE call.op \notin {"if", "and", "then"}
  <2>1. new = rules
    BY <1>4 DEF Reruled
  <2> HIDE DEF new
  <2> QED
    BY <1>4, <2>1 DEF new
<1> QED
  BY <1>2, <1>3, <1>4

-----------------------------------------------------------------------------
Record(on, variations, fallthrough, off, targets, rules, borrowed, dangling) ==
    [on |-> on, variations |-> variations, fallthroughVariation |-> fallthrough,
     offVariation |-> off, targets |-> targets, rules |-> rules,
     borrowed |-> borrowed, dangling |-> dangling]

IsRecord(c) ==
    c = Record(c.on, c.variations, c.fallthroughVariation, c.offVariation, c.targets, c.rules,
               c.borrowed, c.dangling)

\* A flag without targets and rules is set for all users.
LEMMA AllUsers ==
  ASSUME NEW d, IsRecord(d), d.targets = <<>>, d.rules = <<>>, NEW n
  PROVE  LDFlagBuilderVariationForAllUsers(d, n)
           = Record(TRUE, d.variations, n, d.offVariation, d.targets, d.rules, d.borrowed,
                    d.dangling)
<1>0. d = Record(d.on, d.variations, d.fallthroughVariation, d.offVariation, <<>>, <<>>,
                 d.borrowed, d.dangling)
  BY DEF IsRecord
<1>1. PICK e : e = [d EXCEPT !.targets = <<>>, !.rules = <<>>]
  OBVIOUS
<1>2. e = d
  <2>1. PICK f : f = [d EXCEPT !.targets = <<>>]
    OBVIOUS
  <2>2. f = d
    BY <1>0, <2>1 DEF Record
  <2>3. e = [f EXCEPT !.rules = <<>>]
    BY <1>1, <2>1
  <2> QED
    BY <1>0, <2>2, <2>3 DEF Record
<1>3. PICK f : f = [e EXCEPT !.on = TRUE]
  OBVIOUS
<1>4. f = Record(TRUE, d.variations, d.fallthroughVariation, d.offVariation, <<>>, <<>>,
                 d.borrowed, d.dangling)
  BY <1>0, <1>2, <1>3 DEF Record
<1>5. LDFlagBuilderVariationForAllUsers(d, n) = [f EXCEPT !.fallthroughVariation = n]
  BY <1>1, <1>3 DEF LDFlagBuilderVariationForAllUsers, LDFlagBuilderOn,
    LDFlagBuilderFallthroughVariation
<1> QED
  BY <1>4, <1>5 DEF Record

\* One call, field by field; c is the builder that the call found or made boolean.
Applied(c, call) ==
    Record(IF call.op = "on" THEN call.arg ELSE call.op \in {"all", "value"} \/ c.on,
           IF call.op \in {"variations", "value"} THEN asJSONArray(call.arg)
           ELSE c.variations,
           IF call.op = "value" THEN 0
           ELSE IF call.op \in {"fallthrough", "all"} THEN call.arg
           ELSE c.fallthroughVariation,
           IF call.op = "off" THEN call.arg ELSE c.offVariation,
           IF call.op = "user" THEN Retargeted(c.targets, call.user, call.arg)
           ELSE c.targets,
           Reruled(c.rules, call), c.borrowed, c.dangling)

\* Apply is the same call, field by field.
LEMMA ApplyIs ==
  ASSUME NEW b, IsBuilder(b), NEW call, CallOK(call), Defined(b, call)
  PROVE  Apply(b, call) = Applied(Booleaned(b, call), call)
<1>1. PICK c : c = Booleaned(b, call)
  OBVIOUS
<1>2. IsBuilder(c) /\ c.targets = b.targets /\ c.rules = b.rules
  BY <1>1, BooleanedIs
<1>3. c = Record(c.on, c.variations, c.fallthroughVariation, c.offVariation, c.targets,
                 c.rules, c.borrowed, c.dangling) /\ c.on \in BOOLEAN
  BY <1>2 DEF IsBuilder, Record
<1>4. call.op \in {"all", "value"} => c.targets = <<>> /\ c.rules = <<>>
  BY <1>2 DEF Defined
<1>5. /\ call.boolean \in BOOLEAN
      /\ call.op \in {"boolean", "on", "fallthrough", "off", "all", "value", "user",
                    "variations", "if", "and", "then"}
  BY DEF CallOK
<1>6. CASE call.op = "boolean"
  <2>1. Apply(b, call) = c
    BY <1>1, <1>6 DEF Apply, Booleaned
  <2>2. c = Applied(c, call)
    BY <1>3, <1>4, <1>6 DEF Record, Reruled, Applied
  <2> QED
    BY <1>1, <2>1, <2>2
<1>7. CASE call.op = "on"
  <2>1. Apply(b, call) = LDFlagBuilderOn(c, call.arg)
    BY <1>1, <1>7 DEF Apply, Booleaned
  <2>2. LDFlagBuilderOn(c, call.arg) = Applied(c, call)
    BY <1>3, <1>4, <1>7 DEF LDFlagBuilderOn, Record, Reruled, Applied
  <2> QED
    BY <1>1, <2>1, <2>2
<1>8. CASE call.op = "fallthrough"
  <2>1. Apply(b, call) = LDFlagBuilderFallthroughVariation(c, call.arg)
    BY <1>1, <1>8 DEF Apply, Booleaned
  <2>2. LDFlagBuilderFallthroughVariation(c, call.arg) = Applied(c, call)
    BY <1>3, <1>4, <1>8 DEF LDFlagBuilderFallthroughVariation, Record, Reruled, Applied
  <2> QED
    BY <1>1, <2>1, <2>2
<1>9. CASE call.op = "off"
  <2>1. Apply(b, call) = LDFlagBuilderOffVariation(c, call.arg)
    BY <1>1, <1>9 DEF Apply, Booleaned
  <2>2. LDFlagBuilderOffVariation(c, call.arg) = Applied(c, call)
    BY <1>3, <1>4, <1>9 DEF LDFlagBuilderOffVariation, Record, Reruled, Applied
  <2> QED
    BY <1>1, <2>1, <2>2
<1>10. CASE call.op = "all"
  <2>1. Apply(b, call) = LDFlagBuilderVariationForAllUsers(c, call.arg)
    BY <1>1, <1>10 DEF Apply, Booleaned
  <2>4. LDFlagBuilderVariationForAllUsers(c, call.arg)
          = Record(TRUE, c.variations, call.arg, c.offVariation, c.targets, c.rules,
                   c.borrowed, c.dangling)
    BY <1>3, <1>4, <1>10, AllUsers DEF IsRecord
  <2>2. LDFlagBuilderVariationForAllUsers(c, call.arg) = Applied(c, call)
    <3>1. Reruled(c.rules, call) = c.rules
      BY <1>10 DEF Reruled
    <3> QED
      BY <1>4, <1>10, <2>4, <3>1 DEF Applied
  <2> QED
    BY <1>1, <2>1, <2>2
<1>11. CASE call.op = "value"
  <2>1. Apply(b, call) = LDFlagBuilderValueForAllUsers(c, call.arg)
    BY <1>1, <1>11 DEF Apply, Booleaned
  <2>8. PICK array : array = asJSONArray(call.arg)
    OBVIOUS
  <2>3. PICK d : d = LDFlagBuilderVariations(c, call.arg)
    OBVIOUS
  <2>4. d = Record(c.on, array, c.fallthroughVariation, c.offVariation, c.targets,
                   c.rules, c.borrowed, c.dangling)
    BY <1>3, <2>3, <2>8 DEF LDFlagBuilderVariations, Record
  <2>6. /\ IsRecord(d) /\ d.variations = array /\ d.offVariation = c.offVariation
        /\ d.targets = c.targets /\ d.rules = c.rules /\ d.borrowed = c.borrowed
        /\ d.dangling = c.dangling
    BY <2>4 DEF Record, IsRecord
  <2>7. LDFlagBuilderVariationForAllUsers(d, 0)
          = Record(TRUE, d.variations, 0, d.offVariation, d.targets, d.rules, d.borrowed,
                   d.dangling)
    BY <1>4, <1>11, <2>6, AllUsers
  <2>5. LDFlagBuilderValueForAllUsers(c, call.arg)
          = Record(TRUE, array, 0, c.offVariation, c.targets, c.rules, c.borrowed,
                   c.dangling)
    BY <2>3, <2>6, <2>7 DEF LDFlagBuilderValueForAllUsers
  <2>2. LDFlagBuilderValueForAllUsers(c, call.arg) = Applied(c, call)
    <3>1. Reruled(c.rules, call) = c.rules
      BY <1>11 DEF Reruled
    <3> QED
      BY <1>4, <1>11, <2>5, <2>8, <3>1 DEF Applied
  <2> QED
    BY <1>1, <2>1, <2>2
<1>12. CASE call.op = "user"
  <2>1. Apply(b, call) = LDFlagBuilderVariationForUser(c, call.user, call.arg)
    BY <1>1, <1>12 DEF Apply, Booleaned
  <2>3. PICK q : q = Retargeted(c.targets, call.user, call.arg)
    OBVIOUS
  <2>4. LDFlagBuilderVariationForUser(c, call.user, call.arg) = [c EXCEPT !.targets = q]
    BY <2>3 DEF LDFlagBuilderVariationForUser, Retargeted
  <2>5. [c EXCEPT !.targets = q]
          = Record(c.on, c.variations, c.fallthroughVariation, c.offVariation, q, c.rules,
                   c.borrowed, c.dangling)
    BY <1>3 DEF Record
  <2>2. LDFlagBuilderVariationForUser(c, call.user, call.arg) = Applied(c, call)
    BY <1>3, <1>12, <2>3, <2>4, <2>5 DEF Applied, Reruled
  <2> QED
    BY <1>1, <2>1, <2>2
<1>13. CASE call.op = "variations"
  <2>1. Apply(b, call) = LDFlagBuilderVariations(c, call.arg)
    BY <1>1, <1>13 DEF Apply, Booleaned
  <2>2. LDFlagBuilderVariations(c, call.arg) = Applied(c, call)
    <3>1. PICK array : array = asJSONArray(call.arg)
      OBVIOUS
    <3>2. LDFlagBuilderVariations(c, call.arg) = [c EXCEPT !.variations = array]
      BY <3>1 DEF LDFlagBuilderVariations
    <3> QED
      BY <1>3, <1>4, <1>13, <3>1, <3>2 DEF Record, Reruled, Applied
  <2> QED
    BY <1>1, <2>1, <2>2
<1>14. CASE call.op = "if"
  <2>1. Apply(b, call) = LDFlagBuilderIfMatch(c, call.arg)
    BY <1>1, <1>14 DEF Apply, Booleaned
  <2>3. PICK q : q = <<[variation |-> 0, clauses |-> <<call.arg>>]>> \o c.rules
    OBVIOUS
  <2>4. LDFlagBuilderIfMatch(c, call.arg) = [c EXCEPT !.rules = q]
    BY <2>3 DEF LDFlagBuilderIfMatch
  <2>5. [c EXCEPT !.rules = q]
          = Record(c.on, c.variations, c.fallthroughVariation, c.offVariation, c.targets, q,
                   c.borrowed, c.dangling)
    BY <1>3 DEF Record
  <2>6. Reruled(c.rules, call) = q
    BY <1>14, <2>3 DEF Reruled
  <2>2. LDFlagBuilderIfMatch(c, call.arg) = Applied(c, call)
    BY <1>3, <1>14, <2>6, <2>4, <2>5 DEF Applied
  <2> QED
    BY <1>1, <2>1, <2>2
<1>15. CASE call.op = "and"
  <2>1. Apply(b, call) = LDFlagRuleBuilderAndMatch(c, call.arg)
    BY <1>1, <1>15 DEF Apply, Booleaned
  <2>2. LDFlagRuleBuilderAndMatch(c, call.arg) = Applied(c, call)
    BY <1>3, <1>4, <1>15 DEF LDFlagRuleBuilderAndMatch, Record, Reruled, Applied
  <2> QED
    BY <1>1, <2>1, <2>2
<1>16. CASE call.op = "then"
  <2>1. Apply(b, call) = LDFlagRuleBuilderThenReturn(c, call.arg)
    BY <1>1, <1>16 DEF Apply, Booleaned
  <2>2. LDFlagRuleBuilderThenReturn(c, call.arg) = Applied(c, call)
    BY <1>3, <1>4, <1>16 DEF LDFlagRuleBuilderThenReturn, Record, Reruled, Applied
  <2> QED
    BY <1>1, <2>1, <2>2
<1> QED
  BY <1>5, <1>6, <1>7, <1>8, <1>9, <1>10, <1>11, <1>12, <1>13, <1>14, <1>15, <1>16

-----------------------------------------------------------------------------
(* The builder stays one, with the settings and targets the calls mean.    *)

\* The builder of a call, the fields of which are known.
LEMMA AppliedFields ==
  ASSUME NEW c, NEW call
  PROVE  LET d == Applied(c, call) IN
         /\ d.on = (IF call.op = "on" THEN call.arg ELSE call.op \in {"all", "value"} \/ c.on)
         /\ d.variations = IF call.op \in {"variations", "value"} THEN asJSONArray(call.arg)
                           ELSE c.variations
         /\ d.fallthroughVariation =
              IF call.op = "value" THEN 0
              ELSE IF call.op \in {"fallthrough", "all"} THEN call.arg
              ELSE c.fallthroughVariation
         /\ d.offVariation = IF call.op = "off" THEN call.arg ELSE c.offVariation
         /\ d.targets = IF call.op = "user" THEN Retargeted(c.targets, call.user, call.arg)
                        ELSE c.targets
         /\ d.rules = Reruled(c.rules, call)
         /\ d.borrowed = c.borrowed
         /\ IsRecord(d)
  BY DEF Applied, Record, IsRecord

\* A builder stays a builder.
LEMMA ApplyBuilder ==
  ASSUME NEW b, IsBuilder(b), NEW call, CallOK(call), Defined(b, call)
  PROVE  IsBuilder(Apply(b, call))
<1>1. PICK c : c = Booleaned(b, call)
  OBVIOUS
<1>2. IsBuilder(c) /\ c.targets = b.targets /\ c.rules = b.rules /\ c.borrowed = b.borrowed
  BY <1>1, BooleanedIs
<1>3. PICK d : d = Apply(b, call)
  OBVIOUS
<1>4. d = Applied(c, call)
  BY <1>1, <1>3, ApplyIs
<1>5. IsRecord(d)
  BY <1>4, AppliedFields
<1>6. d.on \in BOOLEAN
  <2>1. d.on = (IF call.op = "on" THEN call.arg ELSE call.op \in {"all", "value"} \/ c.on)
    BY <1>4, AppliedFields
  <2> QED
    BY <2>1, <1>2 DEF CallOK, IsBuilder
<1>7. d.fallthroughVariation \in Int /\ d.offVariation \in Int /\ d.borrowed \in Nat
  <2>1. /\ d.fallthroughVariation =
              IF call.op = "value" THEN 0
              ELSE IF call.op \in {"fallthrough", "all"} THEN call.arg
              ELSE c.fallthroughVariation
        /\ d.offVariation = IF call.op = "off" THEN call.arg ELSE c.offVariation
        /\ d.borrowed = c.borrowed
    BY <1>4, AppliedFields
  <2> QED
    BY <2>1, <1>2 DEF CallOK, IsBuilder
<1>8. IsSeq(d.variations) /\ d.variations \notin {Null, Bad}
  <2>1. d.variations = IF call.op \in {"variations", "value"} THEN asJSONArray(call.arg)
                       ELSE c.variations
    BY <1>4, AppliedFields
  <2> QED
    BY <2>1, <1>2 DEF CallOK, IsBuilder
<1>9. IsSeq(d.targets) /\ \A i \in DOMAIN d.targets : IsTarget(d.targets[i])
  <2>1. d.targets = IF call.op = "user" THEN Retargeted(c.targets, call.user, call.arg)
                    ELSE c.targets
    BY <1>4, AppliedFields
  <2>2. IsSeq(c.targets) /\ \A i \in DOMAIN c.targets : IsTarget(c.targets[i])
    BY <1>2 DEF IsBuilder
  <2>3. CASE call.op = "user"
    <3>1. call.user \in STRING /\ call.arg \in Int
      BY <2>3 DEF CallOK
    <3>2. PICK new : new = Retargeted(c.targets, call.user, call.arg)
      OBVIOUS
    <3>3. IsSeq(new) /\ \A i \in DOMAIN new : IsTarget(new[i])
      BY <2>2, <3>1, <3>2, RetargetedIs
    <3> QED
      BY <2>1, <2>3, <3>2, <3>3
  <2>4. CASE call.op # "user"
    BY <2>1, <2>2, <2>4
  <2> QED
    BY <2>3, <2>4
<1>10. IsSeq(d.rules) /\ \A i \in DOMAIN d.rules : IsRule(d.rules[i])
  <2>1. d.rules = Reruled(c.rules, call)
    BY <1>4, AppliedFields
  <2>2. IsSeq(c.rules) /\ \A i \in DOMAIN c.rules : IsRule(c.rules[i])
    BY <1>2 DEF IsBuilder
  <2>3. call.op \in {"and", "then"} => Len(c.rules) > 0
    BY <1>2, <2>2, IsSeqLen DEF Defined, IsBuilder
  <2>4. PICK new : new = Reruled(c.rules, call)
    OBVIOUS
  <2>5. IsSeq(new) /\ \A i \in DOMAIN new : IsRule(new[i])
    BY <2>2, <2>3, <2>4, ReruledIs
  <2> QED
    BY <2>1, <2>4, <2>5
<1> QED
  BY <1>3, <1>5, <1>6, <1>7, <1>8, <1>9, <1>10 DEF IsBuilder, IsRecord, Record

\* The settings stay what the calls mean.
LEMMA ScalarsKept ==
  ASSUME NEW n, NEW calls, NEW call, NEW next, More(n, calls, call, next), CallOK(call),
         NEW b, IsBuilder(b), Defined(b, call), ScalarsFit(b, calls), ~GivesArray(call)
  PROVE  ScalarsFit(Apply(b, call), next)
<1>1. PICK c : c = Booleaned(b, call)
  OBVIOUS
<1>2. /\ IsBuilder(c) /\ c.on = b.on
      /\ c.variations = IF call.boolean THEN TrueFalse ELSE b.variations
      /\ c.fallthroughVariation =
           IF call.boolean /\ b.variations # TrueFalse THEN 0 ELSE b.fallthroughVariation
      /\ c.offVariation =
           IF call.boolean /\ b.variations # TrueFalse THEN 1 ELSE b.offVariation
  BY <1>1, BooleanedIs
<1>3. PICK d : d = Apply(b, call)
  OBVIOUS
<1>4. d = Applied(c, call)
  BY <1>1, <1>3, ApplyIs
<1>5. n + 1 \in Resets(next) <=> call.boolean /\ b.variations # TrueFalse
  BY ResetNow DEF ScalarsFit
<1>6. d.on = TRUE <=> IntendedOn(next)
  <2>1. d.on = (IF call.op = "on" THEN call.arg ELSE call.op \in {"all", "value"} \/ c.on)
    BY <1>4, AppliedFields
  <2>2. call.op = "on" => call.arg \in BOOLEAN
    BY DEF CallOK
  <2>3. IntendedOn(next) <=>
           IF call.op = "on" THEN call.arg
           ELSE IF call.op \in {"all", "value"} THEN TRUE
           ELSE IntendedOn(calls)
    BY <2>2, OnMore
  <2>4. b.on \in BOOLEAN /\ (b.on = TRUE <=> IntendedOn(calls)) /\ c.on = b.on
    BY <1>2 DEF IsBuilder, ScalarsFit
  <2> QED
    BY <2>1, <2>2, <2>3, <2>4
<1>7. d.variations = IntendedVariations(next)
  <2>1. d.variations = IF call.op \in {"variations", "value"} THEN Given(call)
                       ELSE c.variations
    <3>1. call.op \in {"variations", "value"} => asJSONArray(call.arg) = Given(call)
      BY DEF GivesArray, Given, asJSONArray
    <3> QED
      BY <1>4, <3>1, AppliedFields
  <2>2. call.op \in {"variations", "value"} => ~call.boolean
    BY DEF CallOK
  <2>3. IntendedVariations(next) =
           IF call.op \in {"variations", "value"} THEN Given(call)
           ELSE IF call.boolean THEN TrueFalse
           ELSE IntendedVariations(calls)
    BY <2>2, VariationsMore
  <2> QED
    BY <1>2, <2>1, <2>3 DEF ScalarsFit
<1>8. d.fallthroughVariation = IntendedFallthrough(next)
  <2>1. d.fallthroughVariation =
              IF call.op = "value" THEN 0
              ELSE IF call.op \in {"fallthrough", "all"} THEN call.arg
              ELSE c.fallthroughVariation
    BY <1>4, AppliedFields
  <2>2. IntendedFallthrough(next) =
           IF call.op = "value" THEN 0
           ELSE IF call.op \in {"fallthrough", "all"} THEN call.arg
           ELSE IF n + 1 \in Resets(next) THEN 0
           ELSE IntendedFallthrough(calls)
    BY FallthroughMore
  <2> QED
    BY <1>2, <1>5, <2>1, <2>2 DEF ScalarsFit
<1>9. d.offVariation = Setting(next, {"off"}, 1)
  <2>1. d.offVariation = IF call.op = "off" THEN call.arg ELSE c.offVariation
    BY <1>4, AppliedFields
  <2>2. Setting(next, {"off"}, 1) =
           IF call.op \in {"off"} THEN Choice(call)
           ELSE IF n + 1 \in Resets(next) THEN 1
           ELSE Setting(calls, {"off"}, 1)
    BY SettingMore
  <2> QED
    BY <1>2, <1>5, <2>1, <2>2 DEF ScalarsFit, Choice
<1> QED
  BY <1>3, <1>6, <1>7, <1>8, <1>9 DEF ScalarsFit

-----------------------------------------------------------------------------
Own(calls, key) == {i \in Of(calls, {"user"}) : calls[i].user = key}

\* A user is in the targets of the variation chosen last, and in no others.
TargetsFit(b, calls) ==
    /\ \A i \in DOMAIN b.targets : \A key \in b.targets[i].users :
         /\ Own(calls, key) # {}
         /\ b.targets[i].variation = calls[Max(Own(calls, key))].arg
    /\ \A key : Own(calls, key) # {} => \E i \in DOMAIN b.targets : key \in b.targets[i].users

\* The calls for one user, when there is one call more.
LEMMA OwnMore ==
  ASSUME NEW n, NEW calls, NEW call, NEW next, More(n, calls, call, next), NEW key
  PROVE  /\ call.op = "user" /\ call.user = key =>
              Own(next, key) # {} /\ Max(Own(next, key)) = n + 1
         /\ ~(call.op = "user" /\ call.user = key) =>
              /\ Own(next, key) = Own(calls, key)
              /\ Own(calls, key) # {} =>
                   next[Max(Own(calls, key))] = calls[Max(Own(calls, key))]
<1> DEFINE old == Own(calls, key)
           new == Own(next, key)
<1>1. n \in Nat /\ DOMAIN next = 1..n \cup {n + 1}
  BY DEF More
<1>2. old \subseteq 1..n
  BY DEF Own, Of, More
<1>3. new = IF call.op = "user" /\ call.user = key THEN old \cup {n + 1} ELSE old
  BY <1>1 DEF Own, Of, More
<1> HIDE DEF old, new
<1>4. ASSUME call.op = "user" /\ call.user = key
      PROVE  new # {} /\ Max(new) = n + 1
  <2>1. new = old \cup {n + 1}
    BY <1>3, <1>4
  <2>2. new \subseteq 1..(n + 1) /\ n + 1 \in new /\ n + 1 \in Nat
    BY <1>1, <1>2, <2>1
  <2>3. \A y \in new : y <= n + 1
    BY <1>1, <2>2
  <2> QED
    BY <2>2, <2>3, MaxIs
<1>5. ASSUME old # {} PROVE next[Max(old)] = calls[Max(old)]
  <2>1. PICK m : m = Max(old)
    OBVIOUS
  <2>2. m \in 1..n
    BY <1>1, <1>2, <1>5, <2>1, MaxIsGreatest
  <2> QED
    BY <2>1, <2>2 DEF More
<1> QED
  BY <1>3, <1>4, <1>5 DEF old, new

\* The targets stay what the calls mean.
LEMMA TargetsKept ==
  ASSUME NEW n, NEW calls, NEW call, NEW next, More(n, calls, call, next), CallOK(call),
         NEW b, IsBuilder(b), Defined(b, call), TargetsFit(b, calls)
  PROVE  TargetsFit(Apply(b, call), next)
<1>1. PICK c : c = Booleaned(b, call)
  OBVIOUS
<1>2. c.targets = b.targets
  BY <1>1, BooleanedIs
<1>3. PICK d : d = Apply(b, call)
  OBVIOUS
<1>4. d.targets = IF call.op = "user" THEN Retargeted(b.targets, call.user, call.arg)
                  ELSE b.targets
  <2>1. d = Applied(c, call)
    BY <1>1, <1>3, ApplyIs
  <2> QED
    BY <1>2, <2>1, AppliedFields
<1>5. ASSUME NEW key, ~(call.op = "user" /\ call.user = key)
      PROVE  /\ Own(next, key) = Own(calls, key)
             /\ Own(calls, key) # {} =>
                  next[Max(Own(next, key))] = calls[Max(Own(calls, key))]
  BY <1>5, OwnMore
<1>6. CASE call.op # "user"
  <2>1. d.targets = b.targets
    BY <1>4, <1>6
  <2>2. ASSUME NEW i \in DOMAIN d.targets, NEW key \in d.targets[i].users
        PROVE  /\ Own(next, key) # {}
               /\ d.targets[i].variation = next[Max(Own(next, key))].arg
    BY <1>5, <1>6, <2>1 DEF TargetsFit
  <2>3. ASSUME NEW key, Own(next, key) # {}
        PROVE  \E i \in DOMAIN d.targets : key \in d.targets[i].users
    BY <1>5, <1>6, <2>1, <2>3 DEF TargetsFit
  <2> QED
    BY <1>3, <2>2, <2>3 DEF TargetsFit
<1>7. CASE call.op = "user"
  <2>1. PICK old : old = b.targets
    OBVIOUS
  <2>2. PICK new : new = Retargeted(old, call.user, call.arg)
    OBVIOUS
  <2>3. d.targets = new
    BY <1>4, <1>7, <2>1, <2>2
  <2>4. call.user \in STRING /\ call.arg \in Int
    BY <1>7 DEF CallOK
  <2>5. IsSeq(old) /\ \A i \in DOMAIN old : IsTarget(old[i])
    BY <2>1 DEF IsBuilder
  <2>6. /\ \A i \in DOMAIN new : call.user \in new[i].users <=> new[i].variation = call.arg
        /\ \E i \in DOMAIN new : new[i].variation = call.arg
        /\ \A i \in DOMAIN old :
              /\ i \in DOMAIN new /\ new[i].variation = old[i].variation
              /\ \A u : u # call.user => (u \in new[i].users <=> u \in old[i].users)
        /\ \A i \in DOMAIN new : i \notin DOMAIN old => new[i].users \subseteq {call.user}
    BY <2>2, <2>4, <2>5, RetargetedIs
  <2>7. /\ Own(next, call.user) # {} /\ Max(Own(next, call.user)) = n + 1
        /\ next[n + 1] = call
    <3>1. PICK key : key = call.user
      OBVIOUS
    <3>2. Own(next, key) # {} /\ Max(Own(next, key)) = n + 1
      BY <1>7, <3>1, OwnMore
    <3> QED
      BY <3>1, <3>2 DEF More
  <2>8. ASSUME NEW i \in DOMAIN new, NEW key \in new[i].users
        PROVE  /\ Own(next, key) # {}
               /\ new[i].variation = next[Max(Own(next, key))].arg
    <3>1. CASE key = call.user
      BY <2>6, <2>7, <3>1
    <3>2. CASE key # call.user
      <4>1. i \in DOMAIN old
        BY <2>6, <3>2
      <4>2. key \in old[i].users /\ new[i].variation = old[i].variation
        BY <2>6, <3>2, <4>1
      <4>3. Own(calls, key) # {} /\ old[i].variation = calls[Max(Own(calls, key))].arg
        BY <2>1, <4>1, <4>2 DEF TargetsFit
      <4> QED
        BY <1>5, <3>2, <4>2, <4>3
    <3> QED
      BY <3>1, <3>2
  <2>9. ASSUME NEW key, Own(next, key) # {}
        PROVE  \E i \in DOMAIN new : key \in new[i].users
    <3>1. CASE key = call.user
      BY <2>6, <3>1
    <3>2. CASE key # call.user
      <4>1. Own(calls, key) # {}
        BY <1>5, <2>9, <3>2
      <4>2. PICK i \in DOMAIN old : key \in old[i].users
        BY <2>1, <4>1 DEF TargetsFit
      <4> QED
        BY <2>6, <3>2, <4>2
    <3> QED
      BY <3>1, <3>2
  <2> QED
    BY <1>3, <2>3, <2>8, <2>9 DEF TargetsFit
<1> QED
  BY <1>6, <1>7

-----------------------------------------------------------------------------
(* Rules.                                                                  *)

Thens(calls, i) == Of(calls, {"then"}) \cap RuleCalls(calls, i)
IsClauseOf(calls, i, j) == j \in RuleCalls(calls, i) /\ calls[j].op \in {"if", "and"}

\* The rule that the "if" at i has begun.
RuleFits(r, calls, i) ==
    /\ \A j : IsClauseOf(calls, i, j) => \E k \in DOMAIN r.clauses : r.clauses[k] = calls[j].arg
    /\ \A k \in DOMAIN r.clauses : \E j : IsClauseOf(calls, i, j) /\ r.clauses[k] = calls[j].arg
    /\ r.variation = IF Thens(calls, i) = {} THEN 0 ELSE calls[Max(Thens(calls, i))].arg

\* at gives the "if" of each rule; the newest is the first.
RulesAre(rules, calls, at) ==
    /\ \A r \in DOMAIN rules :
         at[r] \in Of(calls, {"if"}) /\ RuleFits(rules[r], calls, at[r])
    /\ \A r, s \in DOMAIN rules : r < s => at[s] < at[r]
    /\ \A i \in Of(calls, {"if"}) : \E r \in DOMAIN rules : at[r] = i

RulesFit(b, calls) == \E at : RulesAre(b.rules, calls, at)

\* No rule has begun since i.
LastIf(n, calls, i) == \A l \in (i + 1)..n : calls[l].op # "if"

\* The calls on a rule, when there is one call more.
LEMMA RuleCallsMore ==
  ASSUME NEW n, NEW calls, NEW call, NEW next, More(n, calls, call, next), NEW i \in 1..n
  PROVE  /\ RuleCalls(calls, i) \subseteq 1..n
         /\ call.op # "if" /\ LastIf(n, calls, i) =>
              RuleCalls(next, i) = RuleCalls(calls, i) \cup {n + 1}
         /\ ~(call.op # "if" /\ LastIf(n, calls, i)) => RuleCalls(next, i) = RuleCalls(calls, i)
<1>1. /\ n \in Nat /\ DOMAIN next = 1..n \cup {n + 1} /\ DOMAIN calls = 1..n /\ n + 1 \notin 1..n
      /\ next[n + 1] = call /\ \A j \in 1..n : next[j] = calls[j]
  BY DEF More
<1>2. RuleCalls(calls, i) \subseteq 1..n
  BY <1>1 DEF RuleCalls
<1>3. ASSUME NEW j \in 1..n PROVE j \in RuleCalls(next, i) <=> j \in RuleCalls(calls, i)
  <2>1. \A l \in (i + 1)..j : l \in 1..n
    BY <1>1
  <2>2. \A l \in (i + 1)..j : next[l] = calls[l]
    BY <1>1, <2>1
  <2>3. j \in DOMAIN next /\ j \in DOMAIN calls
    BY <1>1
  <2> QED
    BY <2>2, <2>3 DEF RuleCalls
<1>4. n + 1 \in RuleCalls(next, i) <=> call.op # "if" /\ LastIf(n, calls, i)
  <2>1. PICK x : x = n + 1
    OBVIOUS
  <2>2. x \in DOMAIN next /\ x >= i
    BY <1>1, <2>1
  <2>3. x \in RuleCalls(next, i) <=> \A l \in (i + 1)..x : next[l].op # "if"
    BY <2>2 DEF RuleCalls
  <2>4. (i + 1)..x = (i + 1)..n \cup {x} /\ \A l \in (i + 1)..n : l \in 1..n
    BY <1>1, <2>1
  <2>5. (\A l \in (i + 1)..x : next[l].op # "if")
          <=> next[x].op # "if" /\ \A l \in (i + 1)..n : next[l].op # "if"
    BY <2>4
  <2>6. \A l \in (i + 1)..n : next[l] = calls[l]
    BY <1>1, <2>4
  <2> QED
    BY <1>1, <2>1, <2>3, <2>5, <2>6 DEF LastIf
<1>5. RuleCalls(next, i) \subseteq 1..n \cup {n + 1}
  BY <1>1 DEF RuleCalls
<1>6. ASSUME call.op # "if" /\ LastIf(n, calls, i)
      PROVE  RuleCalls(next, i) = RuleCalls(calls, i) \cup {n + 1}
  BY <1>2, <1>3, <1>4, <1>5, <1>6
<1>7. ASSUME ~(call.op # "if" /\ LastIf(n, calls, i))
      PROVE  RuleCalls(next, i) = RuleCalls(calls, i)
  BY <1>2, <1>3, <1>4, <1>5, <1>7
<1> QED
  BY <1>2, <1>6, <1>7

\* The calls that a rule has had stay its calls.
LEMMA ClausesMore ==
  ASSUME NEW n, NEW calls, NEW call, NEW next, More(n, calls, call, next), NEW i \in 1..n
  PROVE  /\ \A j : IsClauseOf(calls, i, j) => IsClauseOf(next, i, j) /\ next[j] = calls[j]
         /\ \A j : IsClauseOf(next, i, j) =>
              \/ IsClauseOf(calls, i, j)
              \/ j = n + 1 /\ call.op = "and" /\ LastIf(n, calls, i)
         /\ call.op = "and" /\ LastIf(n, calls, i) => IsClauseOf(next, i, n + 1)
<1>1. n \in Nat /\ next[n + 1] = call /\ \A j \in 1..n : next[j] = calls[j]
  BY DEF More
<1>2. /\ RuleCalls(calls, i) \subseteq 1..n
      /\ call.op # "if" /\ LastIf(n, calls, i) =>
           RuleCalls(next, i) = RuleCalls(calls, i) \cup {n + 1}
      /\ ~(call.op # "if" /\ LastIf(n, calls, i)) => RuleCalls(next, i) = RuleCalls(calls, i)
  BY RuleCallsMore
<1> QED
  BY <1>1, <1>2 DEF IsClauseOf

\* The variations chosen for a rule, when there is one call more.
LEMMA ThensMore ==
  ASSUME NEW n, NEW calls, NEW call, NEW next, More(n, calls, call, next), NEW i \in 1..n
  PROVE  /\ call.op = "then" /\ LastIf(n, calls, i) =>
              Thens(next, i) # {} /\ Max(Thens(next, i)) = n + 1
         /\ ~(call.op = "then" /\ LastIf(n, calls, i)) =>
              /\ Thens(next, i) = Thens(calls, i)
              /\ Thens(calls, i) # {} =>
                   next[Max(Thens(calls, i))] = calls[Max(Thens(calls, i))]
<1> DEFINE old == Thens(calls, i)
           new == Thens(next, i)
<1>1. n \in Nat /\ n + 1 \notin 1..n /\ \A j \in 1..n : next[j] = calls[j]
  BY DEF More
<1>2. /\ RuleCalls(calls, i) \subseteq 1..n
      /\ call.op # "if" /\ LastIf(n, calls, i) =>
           RuleCalls(next, i) = RuleCalls(calls, i) \cup {n + 1}
      /\ ~(call.op # "if" /\ LastIf(n, calls, i)) => RuleCalls(next, i) = RuleCalls(calls, i)
  BY RuleCallsMore
<1>3. /\ Of(calls, {"then"}) \subseteq 1..n
      /\ call.op \notin {"then"} => Of(next, {"then"}) = Of(calls, {"then"})
      /\ call.op \in {"then"} => Of(next, {"then"}) = Of(calls, {"then"}) \cup {n + 1}
  BY OfMore
<1>4. old \subseteq 1..n
  BY <1>3 DEF Thens
<1>5. ASSUME call.op = "then", LastIf(n, calls, i) PROVE new = old \cup {n + 1}
  <2>1. /\ RuleCalls(next, i) = RuleCalls(calls, i) \cup {n + 1}
        /\ Of(next, {"then"}) = Of(calls, {"then"}) \cup {n + 1}
    BY <1>2, <1>3, <1>5
  <2> QED
    BY <2>1 DEF Thens
<1>6. ASSUME ~(call.op = "then" /\ LastIf(n, calls, i)) PROVE new = old
  BY <1>1, <1>2, <1>3, <1>6 DEF Thens
<1> HIDE DEF old, new
<1>7. ASSUME call.op = "then" /\ LastIf(n, calls, i)
      PROVE  new # {} /\ Max(new) = n + 1
  <2>1. new = old \cup {n + 1}
    BY <1>5, <1>7
  <2>2. new \subseteq 1..(n + 1) /\ n + 1 \in new /\ n + 1 \in Nat
    BY <1>1, <1>4, <2>1
  <2>3. \A y \in new : y <= n + 1
    BY <1>1, <2>2
  <2> QED
    BY <2>2, <2>3, MaxIs
<1>8. ASSUME old # {} PROVE next[Max(old)] = calls[Max(old)]
  <2>1. PICK m : m = Max(old)
    OBVIOUS
  <2>2. m \in 1..n
    BY <1>1, <1>4, <1>8, <2>1, MaxIsGreatest
  <2> QED
    BY <1>1, <2>1, <2>2
<1> QED
  BY <1>6, <1>7, <1>8 DEF old, new

\* A rule that a call does not touch.
LEMMA RuleKept ==
  ASSUME NEW n, NEW calls, NEW call, NEW next, More(n, calls, call, next), NEW i \in 1..n,
         NEW r, RuleFits(r, calls, i),
         ~(call.op \in {"and", "then"} /\ LastIf(n, calls, i))
  PROVE  RuleFits(r, next, i)
<1>1. /\ \A j : IsClauseOf(calls, i, j) => IsClauseOf(next, i, j) /\ next[j] = calls[j]
      /\ \A j : IsClauseOf(next, i, j) => IsClauseOf(calls, i, j)
  BY ClausesMore
<1>2. /\ Thens(next, i) = Thens(calls, i)
      /\ Thens(calls, i) # {} => next[Max(Thens(calls, i))] = calls[Max(Thens(calls, i))]
  BY ThensMore
<1>3. ASSUME NEW j, IsClauseOf(next, i, j)
      PROVE  \E k \in DOMAIN r.clauses : r.clauses[k] = next[j].arg
  BY <1>1, <1>3 DEF RuleFits
<1>4. ASSUME NEW k \in DOMAIN r.clauses
      PROVE  \E j : IsClauseOf(next, i, j) /\ r.clauses[k] = next[j].arg
  <2>1. PICK j : IsClauseOf(calls, i, j) /\ r.clauses[k] = calls[j].arg
    BY DEF RuleFits
  <2> QED
    BY <1>1, <2>1
<1>5. r.variation = IF Thens(next, i) = {} THEN 0 ELSE next[Max(Thens(next, i))].arg
  BY <1>2 DEF RuleFits
<1> QED
  BY <1>3, <1>4, <1>5 DEF RuleFits

\* LDFlagRuleBuilderAndMatch.
LEMMA RuleAnd ==
  ASSUME NEW n, NEW calls, NEW call, NEW next, More(n, calls, call, next), NEW i \in 1..n,
         NEW r, IsRule(r), RuleFits(r, calls, i), call.op = "and", LastIf(n, calls, i),
         NEW s, s = [variation |-> r.variation, clauses |-> <<call.arg>> \o r.clauses]
  PROVE  RuleFits(s, next, i)
<1>11. /\ \A j : IsClauseOf(calls, i, j) => IsClauseOf(next, i, j) /\ next[j] = calls[j]
       /\ \A j : IsClauseOf(next, i, j) =>
            \/ IsClauseOf(calls, i, j)
            \/ j = n + 1 /\ call.op = "and" /\ LastIf(n, calls, i)
       /\ call.op = "and" /\ LastIf(n, calls, i) => IsClauseOf(next, i, n + 1)
  BY ClausesMore
<1>1. /\ \A j : IsClauseOf(calls, i, j) => IsClauseOf(next, i, j) /\ next[j] = calls[j]
      /\ \A j : IsClauseOf(next, i, j) => IsClauseOf(calls, i, j) \/ j = n + 1
      /\ IsClauseOf(next, i, n + 1) /\ next[n + 1] = call
  BY <1>11 DEF More
<1>2. /\ Thens(next, i) = Thens(calls, i)
      /\ Thens(calls, i) # {} => next[Max(Thens(calls, i))] = calls[Max(Thens(calls, i))]
  BY ThensMore
<1>3. PICK old : old = r.clauses
  OBVIOUS
<1>4. PICK new : new = <<call.arg>> \o old
  OBVIOUS
<1>5. IsSeq(old) /\ s.clauses = new /\ s.variation = r.variation
  BY <1>3, <1>4 DEF IsRule
<1>6. /\ IsSeq(new) /\ Len(new) = Len(old) + 1 /\ new[1] = call.arg
      /\ \A k \in 1..Len(old) : new[k + 1] = old[k]
  BY <1>4, <1>5, Prepended
<1>7. Len(old) \in Nat /\ DOMAIN old = 1..Len(old) /\ DOMAIN new = 1..(Len(old) + 1)
  BY <1>5, <1>6, IsSeqLen
<1>8. ASSUME NEW j, IsClauseOf(next, i, j) PROVE \E k \in DOMAIN new : new[k] = next[j].arg
  <2>1. CASE j = n + 1
    BY <1>1, <1>6, <1>7, <2>1
  <2>2. CASE IsClauseOf(calls, i, j)
    <3>1. PICK k \in DOMAIN old : old[k] = calls[j].arg
      BY <1>3, <2>2 DEF RuleFits
    <3>2. k + 1 \in DOMAIN new /\ new[k + 1] = old[k]
      BY <1>6, <1>7, <3>1
    <3>3. next[j] = calls[j]
      BY <1>1, <2>2
    <3> QED
      BY <3>1, <3>2, <3>3
  <2> QED
    BY <1>1, <1>8, <2>1, <2>2
<1>9. ASSUME NEW k \in DOMAIN new PROVE \E j : IsClauseOf(next, i, j) /\ new[k] = next[j].arg
  <2>1. CASE k = 1
    BY <1>1, <1>6, <2>1
  <2>2. CASE k # 1
    <3>1. k - 1 \in 1..Len(old) /\ (k - 1) + 1 = k
      BY <1>7, <2>2
    <3>2. new[k] = old[k - 1] /\ k - 1 \in DOMAIN old
      BY <1>6, <1>7, <3>1
    <3>3. PICK j : IsClauseOf(calls, i, j) /\ old[k - 1] = calls[j].arg
      BY <1>3, <3>2 DEF RuleFits
    <3> QED
      BY <1>1, <3>2, <3>3
  <2> QED
    BY <2>1, <2>2
<1>10. s.variation = IF Thens(next, i) = {} THEN 0 ELSE next[Max(Thens(next, i))].arg
  BY <1>2, <1>5 DEF RuleFits
<1> QED
  BY <1>5, <1>8, <1>9, <1>10 DEF RuleFits

\* LDFlagRuleBuilderThenReturn.
LEMMA RuleThen ==
  ASSUME NEW n, NEW calls, NEW call, NEW next, More(n, calls, call, next), NEW i \in 1..n,
         NEW r, IsRule(r), RuleFits(r, calls, i), call.op = "then", LastIf(n, calls, i),
         NEW s, s = [variation |-> call.arg, clauses |-> r.clauses]
  PROVE  RuleFits(s, next, i)
<1>1. /\ \A j : IsClauseOf(calls, i, j) => IsClauseOf(next, i, j) /\ next[j] = calls[j]
      /\ \A j : IsClauseOf(next, i, j) => IsClauseOf(calls, i, j)
  BY ClausesMore
<1>2. Thens(next, i) # {} /\ Max(Thens(next, i)) = n + 1 /\ next[n + 1] = call
  BY ThensMore DEF More
<1>0. s.clauses = r.clauses /\ s.variation = call.arg
  OBVIOUS
<1>3. ASSUME NEW j, IsClauseOf(next, i, j)
      PROVE  \E k \in DOMAIN s.clauses : s.clauses[k] = next[j].arg
  BY <1>0, <1>1, <1>3 DEF RuleFits
<1>4. ASSUME NEW k \in DOMAIN s.clauses
      PROVE  \E j : IsClauseOf(next, i, j) /\ s.clauses[k] = next[j].arg
  <2>1. PICK j : IsClauseOf(calls, i, j) /\ r.clauses[k] = calls[j].arg
    BY <1>0 DEF RuleFits
  <2> QED
    BY <1>0, <1>1, <2>1
<1> QED
  BY <1>0, <1>2, <1>3, <1>4 DEF RuleFits

\* LDFlagBuilderIfMatch.
LEMMA RuleBegun ==
  ASSUME NEW n, NEW calls, NEW call, NEW next, More(n, calls, call, next), call.op = "if",
         NEW r, r = [variation |-> 0, clauses |-> <<call.arg>>]
  PROVE  RuleFits(r, next, n + 1)
<1>1. PICK x : x = n + 1
  OBVIOUS
<1>2. /\ n \in Nat /\ x \in Nat /\ DOMAIN next = 1..x /\ x \in DOMAIN next /\ next[x] = call
  BY <1>1 DEF More
<1>3. RuleCalls(next, x) = {x}
  <2>1. (x + 1)..x = {}
    BY <1>2
  <2>2. \A j \in DOMAIN next : j >= x => j = x
    BY <1>2
  <2> QED
    BY <1>2, <2>1, <2>2 DEF RuleCalls
<1>4. \A j : IsClauseOf(next, x, j) <=> j = x
  BY <1>2, <1>3 DEF IsClauseOf
<1>5. Thens(next, x) = {}
  BY <1>2, <1>3 DEF Thens, Of
<1>6. r.variation = 0 /\ r.clauses = <<call.arg>> /\ DOMAIN r.clauses = {1}
      /\ r.clauses[1] = call.arg
  <2>1. r.variation = 0 /\ r.clauses = <<call.arg>>
    OBVIOUS
  <2>2. DOMAIN <<call.arg>> = {1} /\ <<call.arg>>[1] = call.arg
    OBVIOUS
  <2> QED
    BY <2>1, <2>2
<1> QED
  BY <1>1, <1>2, <1>4, <1>5, <1>6 DEF RuleFits

\* The rules stay what the calls mean, the newest first.
LEMMA RulesKept ==
  ASSUME NEW n, NEW calls, NEW call, NEW next, More(n, calls, call, next), CallOK(call),
         NEW b, IsBuilder(b), Defined(b, call), RulesFit(b, calls)
  PROVE  RulesFit(Apply(b, call), next)
<1>1. PICK c : c = Booleaned(b, call)
  OBVIOUS
<1>2. PICK d : d = Apply(b, call)
  OBVIOUS
<1>3. PICK old : old = b.rules
  OBVIOUS
<1>4. PICK new : new = Reruled(old, call)
  OBVIOUS
<1>5. d.rules = new
  <2>1. d = Applied(c, call)
    BY <1>1, <1>2, ApplyIs
  <2>2. c.rules = b.rules
    BY <1>1, BooleanedIs
  <2> QED
    BY <1>3, <1>4, <2>1, <2>2, AppliedFields
<1>6. IsSeq(old) /\ \A r \in DOMAIN old : IsRule(old[r])
  BY <1>3 DEF IsBuilder
<1>7. Len(old) \in Nat /\ DOMAIN old = 1..Len(old)
  BY <1>6, IsSeqLen
<1>8. call.op \in {"and", "then"} => Len(old) > 0
  BY <1>3, <1>7 DEF Defined, IsBuilder
<1>9. /\ IsSeq(new)
      /\ call.op = "if" =>
           /\ Len(new) = Len(old) + 1
           /\ new[1] = [variation |-> 0, clauses |-> <<call.arg>>]
           /\ \A i \in 1..Len(old) : new[i + 1] = old[i]
      /\ call.op \in {"and", "then"} =>
           /\ Len(new) = Len(old) /\ 1 \in DOMAIN old
           /\ \A i \in 2..Len(old) : new[i] = old[i]
      /\ call.op = "and" =>
           new[1] = [variation |-> old[1].variation, clauses |-> <<call.arg>> \o old[1].clauses]
      /\ call.op = "then" =>
           new[1] = [variation |-> call.arg, clauses |-> old[1].clauses]
      /\ call.op \notin {"if", "and", "then"} => new = old
  BY <1>4, <1>6, <1>8, ReruledIs
<1>10. PICK at : RulesAre(old, calls, at)
  BY <1>3 DEF RulesFit
<1>11. /\ n \in Nat /\ n + 1 \notin 1..n /\ DOMAIN calls = 1..n /\ next[n + 1] = call
       /\ Of(calls, {"if"}) \subseteq 1..n
       /\ call.op \notin {"if"} => Of(next, {"if"}) = Of(calls, {"if"})
       /\ call.op \in {"if"} => Of(next, {"if"}) = Of(calls, {"if"}) \cup {n + 1}
  <2>1. n \in Nat /\ DOMAIN calls = 1..n /\ next[n + 1] = call
    BY DEF More
  <2>2. /\ Of(calls, {"if"}) \subseteq 1..n
        /\ call.op \notin {"if"} => Of(next, {"if"}) = Of(calls, {"if"})
        /\ call.op \in {"if"} => Of(next, {"if"}) = Of(calls, {"if"}) \cup {n + 1}
    BY OfMore
  <2> QED
    BY <2>1, <2>2
<1>12. /\ \A r \in DOMAIN old :
            at[r] \in Of(calls, {"if"}) /\ at[r] \in 1..n /\ RuleFits(old[r], calls, at[r])
       /\ \A r, s \in DOMAIN old : r < s => at[s] < at[r]
       /\ \A i \in Of(calls, {"if"}) : \E r \in DOMAIN old : at[r] = i
  BY <1>10, <1>11 DEF RulesAre
<1>13. CASE call.op \notin {"if", "and", "then"}
  <2>1. new = old /\ Of(next, {"if"}) = Of(calls, {"if"})
    BY <1>9, <1>11, <1>13
  <2>2. ASSUME NEW r \in DOMAIN old PROVE RuleFits(old[r], next, at[r])
    BY <1>12, <1>13, RuleKept
  <2>3. RulesAre(new, next, at)
    BY <1>12, <2>1, <2>2 DEF RulesAre
  <2> QED
    BY <1>2, <1>5, <2>3 DEF RulesFit
<1>14. CASE call.op = "if"
  <2>1. PICK first : first = [variation |-> 0, clauses |-> <<call.arg>>]
    OBVIOUS
  <2>2. /\ Len(new) = Len(old) + 1 /\ new[1] = first
        /\ \A i \in 1..Len(old) : new[i + 1] = old[i]
        /\ Of(next, {"if"}) = Of(calls, {"if"}) \cup {n + 1}
    BY <1>9, <1>11, <1>14, <2>1
  <2>3. DOMAIN new = 1..(Len(old) + 1)
    BY <1>9, <2>2, IsSeqLen
  <2>4. RuleFits(first, next, n + 1)
    BY <1>14, <2>1, RuleBegun
  <2>5. PICK to : to = [r \in 1..(Len(old) + 1) |-> IF r = 1 THEN n + 1 ELSE at[r - 1]]
    OBVIOUS
  <2>6. to[1] = n + 1 /\ \A r \in 1..Len(old) : to[r + 1] = at[r]
    <3>1. 1 \in 1..(Len(old) + 1)
      BY <1>7
    <3>2. ASSUME NEW r \in 1..Len(old) PROVE to[r + 1] = at[r]
      <4>1. r + 1 \in 1..(Len(old) + 1) /\ r + 1 # 1 /\ (r + 1) - 1 = r
        BY <1>7
      <4> QED
        BY <2>5, <4>1
    <3> QED
      BY <2>5, <3>1, <3>2
  <2>7. ASSUME NEW r \in DOMAIN new, r # 1
        PROVE  /\ r - 1 \in DOMAIN old /\ new[r] = old[r - 1] /\ to[r] = at[r - 1]
    <3>1. r - 1 \in 1..Len(old) /\ (r - 1) + 1 = r
      BY <1>7, <2>3, <2>7
    <3> QED
      BY <1>7, <2>2, <2>6, <3>1
  <2>8. ASSUME NEW r \in DOMAIN new
        PROVE  to[r] \in Of(next, {"if"}) /\ RuleFits(new[r], next, to[r])
    <3>1. CASE r = 1
      BY <2>2, <2>4, <2>6, <3>1
    <3>2. CASE r # 1
      <4>1. PICK q : q = r - 1
        OBVIOUS
      <4>2. q \in DOMAIN old /\ new[r] = old[q] /\ to[r] = at[q]
        BY <2>7, <3>2, <4>1
      <4>3. RuleFits(old[q], next, at[q])
        BY <1>12, <1>14, <4>2, RuleKept
      <4> QED
        BY <1>12, <2>2, <4>2, <4>3
    <3> QED
      BY <3>1, <3>2
  <2>9. ASSUME NEW r \in DOMAIN new, NEW s \in DOMAIN new, r < s PROVE to[s] < to[r]
    <3>1. s # 1 /\ s - 1 \in DOMAIN old /\ to[s] = at[s - 1]
      BY <2>3, <2>7, <2>9
    <3>2. at[s - 1] \in 1..n
      BY <1>12, <3>1
    <3>3. CASE r = 1
      BY <1>11, <2>6, <3>1, <3>2, <3>3
    <3>4. CASE r # 1
      <4>1. r - 1 \in DOMAIN old /\ to[r] = at[r - 1]
        BY <2>7, <3>4
      <4>2. r - 1 < s - 1
        BY <1>7, <2>3, <2>9
      <4> QED
        BY <1>12, <3>1, <4>1, <4>2
    <3> QED
      BY <3>3, <3>4
  <2>10. ASSUME NEW i \in Of(next, {"if"}) PROVE \E r \in DOMAIN new : to[r] = i
    <3>1. CASE i = n + 1
      <4>1. 1 \in DOMAIN new
        BY <1>7, <2>3
      <4> QED
        BY <2>6, <3>1, <4>1
    <3>2. CASE i # n + 1
      <4>1. PICK r \in DOMAIN old : at[r] = i
        BY <1>12, <2>2, <3>2
      <4>2. r + 1 \in DOMAIN new /\ r \in 1..Len(old)
        BY <1>7, <2>3
      <4> QED
        BY <2>6, <4>1, <4>2
    <3> QED
      BY <3>1, <3>2
  <2>11. RulesAre(new, next, to)
    BY <2>8, <2>9, <2>10 DEF RulesAre
  <2> QED
    BY <1>2, <1>5, <2>11 DEF RulesFit
<1>15. CASE call.op \in {"and", "then"}
  <2>1. /\ Len(new) = Len(old) /\ 1 \in DOMAIN old /\ \A i \in 2..Len(old) : new[i] = old[i]
        /\ Of(next, {"if"}) = Of(calls, {"if"})
    BY <1>9, <1>11, <1>15
  <2>2. DOMAIN new = DOMAIN old
    BY <1>7, <1>9, <2>1, IsSeqLen
  <2>3. at[1] \in 1..n /\ LastIf(n, calls, at[1])
    <3>1. at[1] \in 1..n
      BY <1>12, <2>1
    <3>2. ASSUME NEW l \in (at[1] + 1)..n, calls[l].op = "if" PROVE FALSE
      <4>1. l \in 1..n /\ l > at[1]
        BY <1>11, <3>1
      <4>2. l \in Of(calls, {"if"})
        BY <1>11, <3>2, <4>1 DEF Of
      <4>3. PICK r \in DOMAIN old : at[r] = l
        BY <1>12, <4>2
      <4>4. r = 1 \/ 1 < r
        BY <1>7
      <4> QED
        BY <1>12, <2>1, <3>1, <4>1, <4>3, <4>4
    <3> QED
      BY <3>1, <3>2 DEF LastIf
  <2>4. RuleFits(new[1], next, at[1])
    <3>1. PICK r : r = old[1]
      OBVIOUS
    <3>2. PICK i : i = at[1]
      OBVIOUS
    <3>3. PICK s : s = new[1]
      OBVIOUS
    <3>4. IsRule(r) /\ RuleFits(r, calls, i) /\ i \in 1..n /\ LastIf(n, calls, i)
      BY <1>6, <1>12, <2>1, <2>3, <3>1, <3>2
    <3>5. CASE call.op = "and"
      <4>1. s = [variation |-> r.variation, clauses |-> <<call.arg>> \o r.clauses]
        BY <1>9, <3>1, <3>3, <3>5
      <4>2. RuleFits(s, next, i)
        BY <3>4, <3>5, <4>1, RuleAnd
      <4> QED
        BY <3>2, <3>3, <4>2
    <3>6. CASE call.op = "then"
      <4>1. s = [variation |-> call.arg, clauses |-> r.clauses]
        BY <1>9, <3>1, <3>3, <3>6
      <4>2. RuleFits(s, next, i)
        BY <3>4, <3>6, <4>1, RuleThen
      <4> QED
        BY <3>2, <3>3, <4>2
    <3> QED
      BY <1>15, <3>5, <3>6
  <2>5. ASSUME NEW r \in DOMAIN old, r # 1 PROVE RuleFits(new[r], next, at[r])
    <3>1. r \in 2..Len(old) /\ 1 < r
      BY <1>7, <2>5
    <3>2. new[r] = old[r] /\ at[1] \in Of(calls, {"if"}) /\ at[r] < at[1]
      BY <1>12, <2>1, <3>1
    <3>3. at[r] \in 1..n /\ RuleFits(old[r], calls, at[r])
      BY <1>12
    <3>4. ~LastIf(n, calls, at[r])
      <4>1. at[1] \in (at[r] + 1)..n
        BY <1>11, <2>3, <3>2, <3>3
      <4>2. calls[at[1]].op = "if"
        BY <3>2 DEF Of
      <4> QED
        BY <4>1, <4>2 DEF LastIf
    <3> QED
      BY <3>2, <3>3, <3>4, RuleKept
  <2>6. RulesAre(new, next, at)
    BY <1>12, <2>1, <2>2, <2>4, <2>5 DEF RulesAre
  <2> QED
    BY <1>2, <1>5, <2>6 DEF RulesFit
<1> QED
  BY <1>13, <1>14, <1>15

-----------------------------------------------------------------------------
(* All of a builder.                                                       *)

CallsOK(calls) == IsSeq(calls) /\ \A i \in DOMAIN calls : CallOK(calls[i])

\* The builder is what the calls have made it, unless a value for all users was
\* an array.
Fits(b, calls) ==
    /\ CallsOK(calls) /\ IsBuilder(b)
    /\ ~ArrayForAllUsers(calls) => ScalarsFit(b, calls)
    /\ TargetsFit(b, calls) /\ RulesFit(b, calls)

\* One call more.
LEMMA FitsMore ==
  ASSUME NEW n, NEW calls, NEW call, NEW next, More(n, calls, call, next), CallOK(call),
         NEW b, Fits(b, calls), Defined(b, call)
  PROVE  Fits(Apply(b, call), next)
<1>1. CallsOK(next)
  <2>1. n \in Nat /\ DOMAIN next = 1..n \cup {n + 1}
    BY DEF More
  <2> QED
    BY <2>1 DEF More, Fits, CallsOK
<1>2. IsBuilder(Apply(b, call))
  BY ApplyBuilder DEF Fits
<1>3. ~ArrayForAllUsers(next) => ScalarsFit(Apply(b, call), next)
  <2> SUFFICES ASSUME ~ArrayForAllUsers(next) PROVE ScalarsFit(Apply(b, call), next)
    OBVIOUS
  <2>1. /\ n + 1 \in DOMAIN next /\ next[n + 1] = call
        /\ \A i \in DOMAIN calls : i \in DOMAIN next /\ next[i] = calls[i]
    BY DEF More
  <2>2. ~ArrayForAllUsers(calls) /\ ~GivesArray(call)
    BY <2>1 DEF ArrayForAllUsers, GivesArray, Of
  <2> QED
    BY <2>2, ScalarsKept DEF Fits
<1>4. TargetsFit(Apply(b, call), next)
  BY TargetsKept DEF Fits
<1>5. RulesFit(Apply(b, call), next)
  BY RulesKept DEF Fits
<1> QED
  BY <1>1, <1>2, <1>3, <1>4, <1>5 DEF Fits

\* A new builder has had no calls.
LEMMA NewFits == Fits(NewFlagBuilder, <<>>)
<1> DEFINE calls == <<>>
<1>1. DOMAIN calls = {} /\ IsSeq(calls)
  <2>1. DOMAIN calls = {} /\ Range(calls) = {}
    BY DEF Range
  <2>2. calls \in Seq({})
    OBVIOUS
  <2> QED
    BY <2>1, <2>2 DEF IsSeq
<1> HIDE DEF calls
<1>2. \A ops : Of(calls, ops) = {}
  BY <1>1 DEF Of
<1>3. \A ops, default : Setting(calls, ops, default) = default
  BY <1>2 DEF Setting
<1>4. IntendedOn(calls) /\ IntendedFallthrough(calls) = 0 /\ IntendedVariations(calls) = TrueFalse
  BY <1>2, <1>3 DEF IntendedOn, IntendedFallthrough, IntendedVariations
<1>5. PICK empty : empty = <<>>
  OBVIOUS
<1>6. PICK b : b = [on |-> TRUE, variations |-> empty, fallthroughVariation |-> 0,
         offVariation |-> 0, targets |-> empty, rules |-> empty,
         borrowed |-> 0, dangling |-> FALSE]
  OBVIOUS
<1>7. PICK d : d = NewFlagBuilder
  OBVIOUS
<1>8. d = [on |-> TRUE, variations |-> TrueFalse, fallthroughVariation |-> 0,
         offVariation |-> 1, targets |-> empty, rules |-> empty,
         borrowed |-> 0, dangling |-> FALSE]
  <2>1. d = LDFlagBuilderBooleanFlag(b)
    BY <1>5, <1>6, <1>7 DEF NewFlagBuilder
  <2>2. b.variations # TrueFalse
    <3>1. b.variations = <<>>
      BY <1>5, <1>6
    <3>2. Len(<<>>) = 0 /\ Len(TrueFalse) = 2
      <4>1. PICK yes, no : TrueFalse = <<yes, no>>
        BY DEF TrueFalse
      <4> QED
        BY <4>1
    <3> QED
      BY <3>1, <3>2
  <2>3. d = [[[b EXCEPT !.variations = TrueFalse] EXCEPT !.fallthroughVariation = 0]
               EXCEPT !.offVariation = 1]
    BY <2>1, <2>2, TrueFalseIs DEF LDFlagBuilderBooleanFlag, LDi_isBooleanFlag,
      LDFlagBuilderOffVariation, LDFlagBuilderFallthroughVariation, LDFlagBuilderVariations
  <2> QED
    BY <1>6, <2>3
<1>9. DOMAIN empty = {} /\ IsSeq(empty)
  BY <1>1, <1>5 DEF calls
<1>10. IsSeq(TrueFalse) /\ TrueFalse \notin {Null, Bad}
  BY TrueFalseIs
<1>11. IsBuilder(d)
  BY <1>8, <1>9, <1>10 DEF IsBuilder
<1>12. d.targets = empty /\ d.rules = empty /\ d.on = TRUE /\ d.variations = TrueFalse
       /\ d.fallthroughVariation = 0 /\ d.offVariation = 1
  BY <1>8
<1>13. ScalarsFit(d, calls)
  BY <1>3, <1>4, <1>12 DEF ScalarsFit
<1>14. \A key : Own(calls, key) = {}
  BY <1>2 DEF Own
<1>15. TargetsFit(d, calls)
  BY <1>9, <1>12, <1>14 DEF TargetsFit
<1>16. RulesAre(d.rules, calls, empty)
  BY <1>2, <1>9, <1>12 DEF RulesAre
<1> QED
  BY <1>1, <1>7, <1>11, <1>13, <1>15, <1>16 DEF Fits, CallsOK, RulesFit, calls

-----------------------------------------------------------------------------
(* What a flag that was built gives a user.                                  *)

Verdict(holds) == IF holds THEN "MATCH" ELSE "MISS"

ClauseOK(clause) ==
    /\ clause.negate \in BOOLEAN /\ clause.values # Bad
    /\ LDi_buildClauseJSON(clause) # Bad /\ clause.attribute # Bad

ClauseHolds(clause, user) ==
    LET v == LDi_valueOfAttribute(user, clause.attribute)
    IN  v # Null /\ (ValuesOf(v) \cap Range(clause.values) # {}) # clause.negate

\* Clauses, negated or not.
LEMMA Negates ==
  ASSUME NEW clause, clause.negate \in BOOLEAN, NEW holds \in BOOLEAN
  PROVE  maybeNegate(clause, Verdict(holds)) = Verdict(holds # clause.negate)
<1>1. clause.negate # Bad
  BY AbsentAssumption
<1> QED
  BY <1>1 DEF maybeNegate, Verdict, LDi_isEvalError

LEMMA AnyMatches ==
  ASSUME NEW v, NEW values
  PROVE  matchAny("in", v, values) = Verdict(v \in Range(values))
<1>1. \A c : Holds("in", v, c) <=> v = c
  BY DEF Holds, TextOps, NumberOps, TimeOps, SemVerOps
<1> QED
  BY <1>1 DEF matchAny, Verdict, Range

\* An array matches when one of its elements does.
LEMMA ArrayVerdict ==
  ASSUME NEW clause, clause.negate \in BOOLEAN, clause.op = "in",
         NEW elements, IsSeq(elements), \A e \in Range(elements) : ~Nested(e)
  PROVE  ArrayMatches(clause, elements)
           = Verdict((Range(elements) \cap Range(clause.values) # {}) # clause.negate)
<1> DEFINE stops == {i \in 1..Len(elements) :
                       \/ Nested(elements[i])
                       \/ matchAny(clause.op, elements[i], clause.values) = "MATCH"}
           some == Range(elements) \cap Range(clause.values) # {}
<1>0. Len(elements) \in Nat /\ DOMAIN elements = 1..Len(elements)
  BY IsSeqLen
<1>1. ASSUME NEW i \in 1..Len(elements)
      PROVE  i \in stops <=> elements[i] \in Range(clause.values)
  <2>1. ~Nested(elements[i])
    BY <1>0 DEF Range
  <2>2. matchAny("in", elements[i], clause.values) = "MATCH"
          <=> elements[i] \in Range(clause.values)
    BY AnyMatches DEF Verdict
  <2> QED
    BY <2>1, <2>2
<1>2. stops \in SUBSET Nat /\ stops \subseteq 1..Len(elements)
  BY <1>0
<1>3. ArrayMatches(clause, elements) =
        IF stops = {} THEN maybeNegate(clause, "MISS")
        ELSE IF Nested(elements[Min(stops)]) THEN "MISS"
        ELSE maybeNegate(clause, "MATCH")
  <2>1. SelectInSeq(elements, LAMBDA w :
            Nested(w) \/ matchAny(clause.op, w, clause.values) = "MATCH")
          = IF stops # {} THEN Min(stops) ELSE 0
    BY DEF SelectInSeq
  <2>2. ASSUME stops # {} PROVE Min(stops) # 0
    <3>1. Min(stops) \in 1..Len(elements)
      BY <1>2, <2>2, MinIsLeast
    <3> QED
      BY <1>0, <3>1
  <2> QED
    BY <2>1, <2>2 DEF ArrayMatches
<1> HIDE DEF stops
<1>4. stops # {} <=> some
  <2>1. ASSUME stops # {} PROVE some
    <3>1. PICK i \in stops : TRUE
      BY <2>1
    <3>2. i \in 1..Len(elements) /\ elements[i] \in Range(clause.values)
      BY <1>1, <1>2, <3>1
    <3>3. elements[i] \in Range(elements)
      BY <1>0, <3>2 DEF Range
    <3> QED
      BY <3>2, <3>3
  <2>2. ASSUME some PROVE stops # {}
    <3>1. PICK e : e \in Range(elements) /\ e \in Range(clause.values)
      BY <2>2
    <3>2. PICK i \in 1..Len(elements) : elements[i] = e
      BY <1>0, <3>1 DEF Range
    <3> QED
      BY <1>1, <3>1, <3>2
  <2> QED
    BY <2>1, <2>2
<1>5. stops # {} => ~Nested(elements[Min(stops)])
  <2> SUFFICES ASSUME stops # {} PROVE ~Nested(elements[Min(stops)])
    OBVIOUS
  <2>1. Min(stops) \in 1..Len(elements)
    BY <1>2, MinIsLeast
  <2> QED
    BY <1>0, <2>1 DEF Range
<1>6. ArrayMatches(clause, elements) = maybeNegate(clause, Verdict(some))
  BY <1>3, <1>4, <1>5 DEF Verdict
<1>7. PICK h : h = some
  OBVIOUS
<1>8. h \in BOOLEAN
  BY <1>7
<1>9. maybeNegate(clause, Verdict(h)) = Verdict(h # clause.negate)
  BY <1>8, Negates
<1> QED
  BY <1>6, <1>7, <1>9

\* A clause that was built holds when the user's attribute is among its values.
LEMMA ClauseVerdict ==
  ASSUME NEW clause, ClauseOK(clause), NEW user \in AppUsers
  PROVE  LDi_clauseMatchesUserNoSegments(LDi_buildClauseJSON(clause), user)
           = Verdict(ClauseHolds(clause, user))
<1>1. PICK json : json = LDi_buildClauseJSON(clause)
  OBVIOUS
<1>2. /\ json.op = "in" /\ json.attribute = clause.attribute /\ json.values = clause.values
      /\ json.negate = clause.negate
  BY <1>1 DEF LDi_buildClauseJSON
<1>3. PICK v : v = LDi_valueOfAttribute(user, clause.attribute)
  OBVIOUS
<1>4. /\ json # Bad /\ json.op # Bad /\ json.attribute # Bad /\ json.values # Bad
      /\ LDi_lookupOperation(json.op) /\ json.negate \in BOOLEAN
  BY <1>1, <1>2, AbsentAssumption DEF ClauseOK, LDi_lookupOperation
<1>5. LDi_clauseMatchesUserNoSegments(json, user) =
         IF v = Null THEN "MISS"
         ELSE IF v.type = "array" THEN ArrayMatches(json, v.elements)
         ELSE maybeNegate(json, matchAny(json.op, v, json.values))
  BY <1>2, <1>3, <1>4 DEF LDi_clauseMatchesUserNoSegments
<1>6. ClauseHolds(clause, user) <=>
        v # Null /\ (ValuesOf(v) \cap Range(json.values) # {}) # json.negate
  BY <1>2, <1>3 DEF ClauseHolds
<1>7. CASE v = Null
  BY <1>1, <1>5, <1>6, <1>7 DEF Verdict
<1>8. CASE v # Null /\ v.type = "array"
  <2>1. v \in {user.attrs[a] : a \in DOMAIN user.attrs}
    BY <1>3, <1>8 DEF LDi_valueOfAttribute
  <2>2. IsSeq(v.elements) /\ \A e \in Range(v.elements) : ~Nested(e)
    BY <1>8, <2>1, AppUsersAssumption
  <2>3. PICK elements : elements = v.elements
    OBVIOUS
  <2>4. ArrayMatches(json, elements)
          = Verdict((Range(elements) \cap Range(json.values) # {}) # json.negate)
    BY <1>2, <1>4, <2>2, <2>3, ArrayVerdict
  <2>5. ValuesOf(v) = Range(elements)
    BY <1>8, <2>3 DEF ValuesOf
  <2> QED
    BY <1>1, <1>5, <1>6, <1>8, <2>3, <2>4, <2>5 DEF Verdict
<1>9. CASE v # Null /\ v.type # "array"
  <2>1. ValuesOf(v) = {v}
    BY <1>9 DEF ValuesOf
  <2>2. PICK h : h = (v \in Range(json.values))
    OBVIOUS
  <2>3. h \in BOOLEAN
    BY <2>2
  <2>4. maybeNegate(json, Verdict(h)) = Verdict(h # json.negate)
    BY <1>4, <2>3, Negates
  <2>5. matchAny(json.op, v, json.values) = Verdict(h)
    BY <1>2, <2>2, AnyMatches
  <2>6. h = (ValuesOf(v) \cap Range(json.values) # {})
    BY <2>1, <2>2
  <2> QED
    BY <1>1, <1>5, <1>6, <1>9, <2>4, <2>5, <2>6 DEF Verdict
<1> QED
  BY <1>7, <1>8, <1>9

-----------------------------------------------------------------------------
(* What a flag gives that was built from a builder.                        *)

\* What the rules of EvaluateAlone are asked.
RuleStatus(rule, user) ==
    AllMatch([i \in DOMAIN rule.clauses |->
        LDi_clauseMatchesUserNoSegments(rule.clauses[i], user)])

\* All the clauses of a rule.
LEMMA AllVerdict ==
  ASSUME NEW n \in Nat, NEW H, NEW statuses,
         statuses = [i \in 1..n |-> Verdict(i \in H)]
  PROVE  AllMatch(statuses) = Verdict(\A i \in 1..n : i \in H)
<1> DEFINE misses == {i \in 1..Len(statuses) : statuses[i] # "MATCH"}
<1>1. Len(statuses) = n /\ DOMAIN statuses = 1..n
  <2>1. DOMAIN statuses = 1..n /\ statuses = [i \in 1..n |-> statuses[i]]
    OBVIOUS
  <2> QED
    BY <2>1, IsSeqOf
<1>2. \A i \in 1..n : statuses[i] = Verdict(i \in H)
  OBVIOUS
<1>3. \A i \in 1..n : statuses[i] # "MATCH" <=> i \notin H
  BY <1>2 DEF Verdict
<1>4. SelectInSeq(statuses, LAMBDA s : s # "MATCH") = IF misses # {} THEN Min(misses) ELSE 0
  BY DEF SelectInSeq
<1>5. misses \subseteq 1..n /\ misses \in SUBSET Nat
  BY <1>1
<1>6. CASE misses = {}
  <2>1. \A i \in 1..n : i \in H
    BY <1>1, <1>3, <1>6
  <2>2. AllMatch(statuses) = "MATCH"
    BY <1>4, <1>6 DEF AllMatch
  <2> QED
    BY <2>1, <2>2 DEF Verdict
<1>7. CASE misses # {}
  <2>1. PICK m : m = Min(misses)
    OBVIOUS
  <2> HIDE DEF misses
  <2>2. m \in misses
    BY <1>5, <1>7, <2>1, MinIsLeast
  <2>3. m \in 1..n /\ m # 0
    BY <1>5, <2>2
  <2>4. statuses[m] # "MATCH"
    BY <2>2 DEF misses
  <2>5. m \notin H /\ statuses[m] = "MISS"
    BY <1>2, <1>3, <2>3, <2>4 DEF Verdict
  <2>6. AllMatch(statuses) = statuses[m]
    BY <1>4, <1>7, <2>1, <2>3 DEF AllMatch
  <2> QED
    BY <2>3, <2>5, <2>6 DEF Verdict
<1> QED
  BY <1>6, <1>7

\* A rule that was built matches when all its clauses hold.
LEMMA RuleVerdict ==
  ASSUME NEW clauses, IsSeq(clauses), \A k \in DOMAIN clauses : ClauseOK(clauses[k]),
         NEW user \in AppUsers, NEW rule,
         rule.clauses = [j \in DOMAIN clauses |-> LDi_buildClauseJSON(clauses[j])]
  PROVE  RuleStatus(rule, user) = Verdict(\A k \in DOMAIN clauses : ClauseHolds(clauses[k], user))
<1>1. PICK n : n = Len(clauses)
  OBVIOUS
<1>2. n \in Nat /\ DOMAIN clauses = 1..n
  BY <1>1, IsSeqLen
<1>3. PICK H : H = {k \in 1..n : ClauseHolds(clauses[k], user)}
  OBVIOUS
<1>4. PICK statuses : statuses = [i \in DOMAIN rule.clauses |->
                         LDi_clauseMatchesUserNoSegments(rule.clauses[i], user)]
  OBVIOUS
<1>5. DOMAIN rule.clauses = 1..n
      /\ \A j \in 1..n : rule.clauses[j] = LDi_buildClauseJSON(clauses[j])
  BY <1>2
<1>6. ASSUME NEW j \in 1..n
      PROVE  LDi_clauseMatchesUserNoSegments(rule.clauses[j], user) = Verdict(j \in H)
  <2>1. PICK c : c = clauses[j]
    OBVIOUS
  <2>2. ClauseOK(c)
    BY <1>2, <2>1
  <2>3. LDi_clauseMatchesUserNoSegments(LDi_buildClauseJSON(c), user)
          = Verdict(ClauseHolds(c, user))
    BY <2>2, ClauseVerdict
  <2>4. j \in H <=> ClauseHolds(c, user)
    BY <1>3, <2>1
  <2> QED
    BY <1>5, <2>1, <2>3, <2>4 DEF Verdict
<1>7. statuses = [i \in 1..n |-> Verdict(i \in H)]
  BY <1>4, <1>5, <1>6
<1>8. AllMatch(statuses) = Verdict(\A i \in 1..n : i \in H)
  BY <1>2, <1>7, AllVerdict
<1>9. (\A i \in 1..n : i \in H) <=> \A k \in DOMAIN clauses : ClauseHolds(clauses[k], user)
  BY <1>2, <1>3
<1> QED
  BY <1>4, <1>8, <1>9 DEF RuleStatus, Verdict

ValueAt(variations, n) == IF n \in 0..(Len(variations) - 1) THEN variations[n + 1] ELSE Null

\* The flag has what the builder has.
BuiltFrom(flag, b) ==
    /\ flag.salt = "salt" /\ flag.on = b.on /\ flag.offVariation = b.offVariation
    /\ flag.variations = b.variations
    /\ flag.fallthrough = [variation |-> b.fallthroughVariation, rollout |-> Null]
    /\ flag.targets = LDi_buildTargetsJSON(b.targets)
    /\ flag.rules = LDi_buildRulesJSON(b.rules)

LEMMA Built ==
  ASSUME NEW key, NEW b, NEW version
  PROVE  BuiltFrom(LDFlagBuilderBuild(key, b, version), b)
  BY DEF LDFlagBuilderBuild, BuiltFrom

\* addValue finds the variation, or none.
LEMMA ValueAdded ==
  ASSUME NEW flag, IsSeq(flag.variations), flag.variations \notin {Null, Bad}, NEW index \in Int,
         NEW details, NEW status \in {"MATCH", "MISS"}, NEW result,
         result = addValue(flag, details, index, status)
  PROVE  /\ result.value = ValueAt(flag.variations, index)
         /\ result.status # "UNDECIDED"
         /\ LDi_isEvalError(result.status) => result.value = Null
         /\ DOMAIN result = {"status", "value", "details"}
<1>1. Len(flag.variations) \in Nat
  BY IsSeqLen
<1>2. index \notin {Null, Bad}
  BY AbsentAssumption
<1>3. getValue(flag, index) = ValueAt(flag.variations, index)
  BY <1>1, <1>2 DEF getValue, ValueAt
<1> QED
  BY <1>3 DEF addValue, Result, LDi_isEvalError

\* A builder makes no rollouts.
LEMMA Picked ==
  ASSUME NEW flag, flag.salt = "salt", NEW serve, NEW index \in Int,
         serve = [variation |-> index, rollout |-> Null], NEW user
  PROVE  LDi_getIndexForVariationOrRollout(flag, serve, user)
           = [ok |-> TRUE, index |-> index, inExperiment |-> FALSE]
<1>1. serve.variation = index /\ index # Null /\ index # Bad
  BY AbsentAssumption
<1> QED
  BY <1>1, AbsentAssumption DEF LDi_getIndexForVariationOrRollout, LDi_variationIndexForUser

LEMMA FallthroughValue ==
  ASSUME NEW b, IsBuilder(b), NEW user, NEW flag, BuiltFrom(flag, b)
  PROVE  EvaluateFallthrough(flag, user).value = ValueAt(b.variations, b.fallthroughVariation)
<1>1. /\ flag.salt = "salt" /\ flag.variations = b.variations
      /\ flag.fallthrough = [variation |-> b.fallthroughVariation, rollout |-> Null]
      /\ IsSeq(flag.variations) /\ flag.variations \notin {Null, Bad}
  BY DEF BuiltFrom, IsBuilder
<1>2. PICK n : n = b.fallthroughVariation
  OBVIOUS
<1>3. n \in Int
  BY <1>2 DEF IsBuilder
<1>4. PICK serve : serve = flag.fallthrough
  OBVIOUS
<1>5. LDi_getIndexForVariationOrRollout(flag, serve, user)
        = [ok |-> TRUE, index |-> n, inExperiment |-> FALSE]
  BY <1>1, <1>2, <1>3, <1>4, Picked
<1>6. PICK details : details = [[NoDetails EXCEPT !.reason = "FALLTHROUGH"]
                                 EXCEPT !.inExperiment = FALSE]
  OBVIOUS
<1>7. EvaluateFallthrough(flag, user) = addValue(flag, details, n, "MATCH")
  BY <1>4, <1>5, <1>6 DEF EvaluateFallthrough
<1>8. PICK result : result = addValue(flag, details, n, "MATCH")
  OBVIOUS
<1>9. result.value = ValueAt(flag.variations, n)
  BY <1>1, <1>3, <1>8, ValueAdded
<1> QED
  BY <1>1, <1>2, <1>7, <1>8, <1>9

LEMMA RuleValue ==
  ASSUME NEW b, IsBuilder(b), NEW user, NEW flag, BuiltFrom(flag, b), NEW i \in DOMAIN b.rules
  PROVE  EvaluateRule(flag, i, user).value = ValueAt(b.variations, b.rules[i].variation)
<1>1. /\ flag.salt = "salt" /\ flag.variations = b.variations
      /\ flag.rules = LDi_buildRulesJSON(b.rules)
      /\ IsSeq(flag.variations) /\ flag.variations \notin {Null, Bad}
  BY DEF BuiltFrom, IsBuilder
<1>2. PICK n : n = b.rules[i].variation
  OBVIOUS
<1>3. n \in Int
  BY <1>2 DEF IsBuilder, IsRule
<1>4. PICK rule : rule = flag.rules[i]
  OBVIOUS
<1>5. rule.id = i - 1 /\ rule.serve = [variation |-> n, rollout |-> Null]
  BY <1>1, <1>2, <1>4 DEF LDi_buildRulesJSON
<1>6. rule.id # Bad
  <2>1. i \in Nat
    BY IsSeqLen DEF IsBuilder
  <2> QED
    BY <1>5, <2>1, AbsentAssumption
<1>7. PICK serve : serve = rule.serve
  OBVIOUS
<1>8. PICK pick : pick = LDi_getIndexForVariationOrRollout(flag, serve, user)
  OBVIOUS
<1>9. pick = [ok |-> TRUE, index |-> n, inExperiment |-> FALSE]
  BY <1>1, <1>3, <1>5, <1>7, <1>8, Picked
<1>10. PICK details : details = [[NoDetails EXCEPT !.reason = "RULE_MATCH", !.extra = i - 1]
                                 EXCEPT !.inExperiment = FALSE]
  OBVIOUS
<1>11. PICK result : result = addValue(flag, details, n, "MATCH")
  OBVIOUS
<1>12. /\ result.value = ValueAt(flag.variations, n)
       /\ DOMAIN result = {"status", "value", "details"}
  BY <1>1, <1>3, <1>11, ValueAdded
<1>13. pick.ok = TRUE /\ pick.index = n /\ pick.inExperiment = FALSE
  BY <1>9
<1>14. EvaluateRule(flag, i, user) =
         IF LDi_isEvalError(result.status) THEN result
         ELSE [result EXCEPT !.details.ruleId = rule.id]
  BY <1>4, <1>6, <1>7, <1>8, <1>10, <1>11, <1>13 DEF EvaluateRule
<1>15. [result EXCEPT !.details.ruleId = rule.id].value = result.value
  BY <1>12
<1> QED
  BY <1>1, <1>2, <1>12, <1>14, <1>15

-----------------------------------------------------------------------------
(* The sections of evaluation.                                             *)

\* The section of LDi_evaluate on targets.
LEMMA TargetsDecide ==
  ASSUME NEW calls, NEW b, IsBuilder(b), TargetsFit(b, calls), NEW flag, BuiltFrom(flag, b),
         NEW user
  PROVE  LET own == Own(calls, user.key) IN
         /\ own = {} => EvaluateTargets(flag, user) = Undecided
         /\ own # {} =>
              /\ EvaluateTargets(flag, user) # Undecided
              /\ EvaluateTargets(flag, user).value
                   = ValueAt(b.variations, calls[Max(own)].arg)
<1> DEFINE own == Own(calls, user.key)
<1>1. PICK ts : ts = flag.targets
  OBVIOUS
<1>2. PICK n : n = Len(b.targets)
  OBVIOUS
<1>3. n \in Nat /\ DOMAIN b.targets = 1..n
  BY <1>2, IsSeqLen DEF IsBuilder
<1>4. /\ ts = [i \in 1..n |-> [variation |-> b.targets[i].variation, values |-> b.targets[i].users]]
  BY <1>1, <1>3 DEF BuiltFrom, LDi_buildTargetsJSON
<1>5. ASSUME NEW i \in 1..n
      PROVE  /\ ts[i] \in [variation : Int, values : SUBSET STRING]
             /\ ts[i].variation = b.targets[i].variation /\ ts[i].values = b.targets[i].users
             /\ ts[i].variation \in Int
  BY <1>3, <1>4 DEF IsBuilder, IsTarget
<1>6. ts \in [1..n -> [variation : Int, values : SUBSET STRING]]
  BY <1>4, <1>5
<1>7. ts \in Seq([variation : Int, values : SUBSET STRING]) /\ Len(ts) = n
  <2>1. PICK T : T = [variation : Int, values : SUBSET STRING]
    OBVIOUS
  <2>2. ts \in [1..n -> T]
    BY <1>6, <2>1
  <2>3. ts \in Seq(T) /\ Len(ts) = n
    BY <1>3, <2>2
  <2> QED
    BY <2>1, <2>3
<1>8. ts # Bad /\ \A i \in 1..n : ts[i] # Bad /\ ts[i].variation # Bad
  BY <1>5, <1>7, AbsentAssumption
<1> DEFINE hits == {i \in 1..Len(ts) : ts[i] = Bad \/ user.key \in ts[i].values}
<1>9. SelectInSeq(ts, LAMBDA t : t = Bad \/ user.key \in t.values)
        = IF hits # {} THEN Min(hits) ELSE 0
  BY DEF SelectInSeq
<1>10. \A i : i \in hits <=> i \in 1..n /\ user.key \in b.targets[i].users
  BY <1>5, <1>7, <1>8
<1>11. EvaluateTargets(flag, user) =
         LET i == IF hits # {} THEN Min(hits) ELSE 0 IN
         IF i = 0 THEN Undecided
         ELSE IF ts[i] = Bad \/ ts[i].variation = Bad
         THEN Result("SCHEMA", Null, NoDetails)
         ELSE addValue(flag, [NoDetails EXCEPT !.reason = "TARGET_MATCH"],
                       ts[i].variation, "MATCH")
  BY <1>1, <1>8, <1>9 DEF EvaluateTargets
<1> HIDE DEF hits, own
<1>12. CASE own = {}
  <2>1. hits = {}
    BY <1>3, <1>10, <1>12 DEF TargetsFit, own
  <2> QED
    BY <1>11, <1>12, <2>1 DEF own
<1>13. CASE own # {}
  <2>1. PICK i : i = Min(hits)
    OBVIOUS
  <2>2. hits # {} /\ hits \in SUBSET Nat
    BY <1>3, <1>10, <1>13 DEF TargetsFit, own
  <2>3. i \in hits
    BY <2>1, <2>2, MinIsLeast
  <2>4. i \in 1..n /\ user.key \in b.targets[i].users /\ i # 0
    BY <1>10, <2>3
  <2>5. PICK index : index = ts[i].variation
    OBVIOUS
  <2>6. index = calls[Max(own)].arg /\ index \in Int
    BY <1>3, <1>5, <2>4, <2>5 DEF TargetsFit, own
  <2>7. PICK details : details = [NoDetails EXCEPT !.reason = "TARGET_MATCH"]
    OBVIOUS
  <2>8. PICK result : result = addValue(flag, details, index, "MATCH")
    OBVIOUS
  <2>9. EvaluateTargets(flag, user) = result
    BY <1>8, <1>11, <2>1, <2>2, <2>4, <2>5, <2>7, <2>8
  <2>10. /\ IsSeq(flag.variations) /\ flag.variations \notin {Null, Bad}
         /\ flag.variations = b.variations
    BY DEF BuiltFrom, IsBuilder
  <2>11. result.value = ValueAt(flag.variations, index) /\ result.status # "UNDECIDED"
    BY <2>6, <2>8, <2>10, ValueAdded
  <2>12. result # Undecided
    BY <2>11 DEF Undecided, Result
  <2> QED
    BY <1>13, <2>6, <2>9, <2>10, <2>11, <2>12 DEF own
<1> QED
  BY <1>12, <1>13

\* The section on targeting.
LEMMA OnDecides ==
  ASSUME NEW b, IsBuilder(b), NEW flag, BuiltFrom(flag, b)
  PROVE  /\ b.on = TRUE => EvaluateOn(flag) = Undecided
         /\ b.on # TRUE =>
              /\ EvaluateOn(flag) # Undecided
              /\ EvaluateOn(flag).value = ValueAt(b.variations, b.offVariation)
<1>1. flag.on = b.on /\ flag.on # Bad
  BY AbsentAssumption DEF BuiltFrom, IsBuilder
<1>2. CASE b.on = TRUE
  BY <1>1, <1>2 DEF EvaluateOn
<1>3. CASE b.on # TRUE
  <2>1. PICK index : index = flag.offVariation
    OBVIOUS
  <2>2. index = b.offVariation /\ index \in Int /\ index # Null
    BY <2>1, AbsentAssumption DEF BuiltFrom, IsBuilder
  <2>3. PICK details : details = [NoDetails EXCEPT !.reason = "OFF"]
    OBVIOUS
  <2>4. PICK result : result = addValue(flag, details, index, "MISS")
    OBVIOUS
  <2>5. EvaluateOn(flag) = result
    BY <1>1, <1>3, <2>1, <2>2, <2>3, <2>4 DEF EvaluateOn
  <2>6. /\ IsSeq(flag.variations) /\ flag.variations \notin {Null, Bad}
        /\ flag.variations = b.variations
    BY DEF BuiltFrom, IsBuilder
  <2>7. result.value = ValueAt(flag.variations, index) /\ result.status # "UNDECIDED"
    BY <2>2, <2>4, <2>6, ValueAdded
  <2>8. result # Undecided
    BY <2>7 DEF Undecided, Result
  <2> QED
    BY <1>3, <2>2, <2>5, <2>6, <2>7, <2>8
<1> QED
  BY <1>2, <1>3

\* What EvaluateAlone does with the rules.
ByRules(flag, user, hits) ==
    IF hits = {} THEN EvaluateFallthrough(flag, user)
    ELSE IF RuleStatus(flag.rules[Min(hits)], user) # "MATCH"
    THEN Result(RuleStatus(flag.rules[Min(hits)], user), Null, NoDetails)
    ELSE EvaluateRule(flag, Min(hits), user)

\* The sections one after the other.
LEMMA AloneIs ==
  ASSUME NEW flag, IsSeq(flag.rules), NEW user
  PROVE  LET hits == {i \in 1..Len(flag.rules) : RuleStatus(flag.rules[i], user) # "MISS"} IN
         EvaluateAlone(flag, user) =
           IF EvaluateOn(flag) # Undecided THEN EvaluateOn(flag)
           ELSE IF EvaluateTargets(flag, user) # Undecided THEN EvaluateTargets(flag, user)
           ELSE ByRules(flag, user, hits)
<1> DEFINE hits == {i \in 1..Len(flag.rules) : RuleStatus(flag.rules[i], user) # "MISS"}
           rule == SelectInSeq(flag.rules, LAMBDA r : RuleStatus(r, user) # "MISS")
<1>1. rule = IF hits # {} THEN Min(hits) ELSE 0
  BY DEF SelectInSeq
<1>2. hits # {} => Min(hits) # 0
  <2> SUFFICES ASSUME hits # {} PROVE Min(hits) # 0
    OBVIOUS
  <2>1. hits \in SUBSET Nat
    OBVIOUS
  <2>2. Min(hits) \in hits
    <3> HIDE DEF hits
    <3> QED
      BY <2>1, MinIsLeast
  <2>3. 0 \notin hits
    BY IsSeqLen
  <2> QED
    BY <2>2, <2>3
<1>3. EvaluateAlone(flag, user) =
        IF EvaluateOn(flag) # Undecided THEN EvaluateOn(flag)
        ELSE IF EvaluateTargets(flag, user) # Undecided THEN EvaluateTargets(flag, user)
        ELSE IF rule = 0 THEN EvaluateFallthrough(flag, user)
        ELSE IF RuleStatus(flag.rules[rule], user) # "MATCH"
        THEN Result(RuleStatus(flag.rules[rule], user), Null, NoDetails)
        ELSE EvaluateRule(flag, rule, user)
  BY DEF EvaluateAlone, RuleStatus
<1> HIDE DEF rule, hits
<1> QED
  BY <1>1, <1>2, <1>3 DEF ByRules, hits

\* The sections on rules and the fallthrough: the first rule that matches is
\* the newest that is meant to.
LEMMA RulesDecide ==
  ASSUME NEW calls, CallsOK(calls), NEW b, IsBuilder(b), RulesFit(b, calls), NEW flag,
         BuiltFrom(flag, b), NEW user \in AppUsers, NEW hits,
         hits = {i \in 1..Len(flag.rules) : RuleStatus(flag.rules[i], user) # "MISS"}
  PROVE  LET rules == IntendedRules(calls, user) IN
         /\ IsSeq(flag.rules)
         /\ rules = {} =>
              ByRules(flag, user, hits).value = ValueAt(b.variations, b.fallthroughVariation)
         /\ rules # {} =>
              ByRules(flag, user, hits).value
                = ValueAt(b.variations,
                    IF Thens(calls, Max(rules)) = {} THEN 0
                    ELSE calls[Max(Thens(calls, Max(rules)))].arg)
<1> DEFINE rules == IntendedRules(calls, user)
           own == b.rules
           holds(i) == \A k \in DOMAIN own[i].clauses : ClauseHolds(own[i].clauses[k], user)
<1>1. PICK n : n = Len(own)
  OBVIOUS
<1>2. n \in Nat /\ DOMAIN own = 1..n /\ \A i \in 1..n : IsRule(own[i])
  BY <1>1, IsSeqLen DEF IsBuilder
<1>3. PICK at : RulesAre(own, calls, at)
  BY DEF RulesFit
<1>4. PICK json : json = flag.rules
  OBVIOUS
<1>5. json = [i \in 1..n |->
        [id |-> i - 1,
         clauses |-> [j \in DOMAIN own[i].clauses |-> LDi_buildClauseJSON(own[i].clauses[j])],
         serve |-> [variation |-> own[i].variation, rollout |-> Null]]]
  BY <1>2, <1>4 DEF BuiltFrom, LDi_buildRulesJSON
<1>6. IsSeq(json) /\ Len(json) = n
  <2>1. DOMAIN json = 1..n /\ json = [i \in 1..n |-> json[i]]
    BY <1>5
  <2> QED
    BY <1>2, <2>1, IsSeqOf
<1>7. ASSUME NEW i \in 1..n PROVE RuleStatus(json[i], user) = Verdict(holds(i))
  <2>1. PICK rule : rule = json[i]
    OBVIOUS
  <2>2. PICK clauses : clauses = own[i].clauses
    OBVIOUS
  <2>3. rule.clauses = [j \in DOMAIN clauses |-> LDi_buildClauseJSON(clauses[j])]
    BY <1>5, <2>1, <2>2
  <2>4. IsSeq(clauses)
    BY <1>2, <2>2 DEF IsRule
  <2>5. ASSUME NEW k \in DOMAIN clauses PROVE ClauseOK(clauses[k])
    <3>1. RuleFits(own[i], calls, at[i])
      BY <1>2, <1>3 DEF RulesAre
    <3>2. PICK j : IsClauseOf(calls, at[i], j) /\ clauses[k] = calls[j].arg
      BY <2>2, <3>1 DEF RuleFits
    <3>3. j \in DOMAIN calls /\ calls[j].op \in {"if", "and"}
      BY <3>2 DEF IsClauseOf, RuleCalls
    <3> QED
      BY <3>2, <3>3 DEF CallsOK, CallOK, ClauseOK
  <2>6. RuleStatus(rule, user)
          = Verdict(\A k \in DOMAIN clauses : ClauseHolds(clauses[k], user))
    BY <2>3, <2>4, <2>5, RuleVerdict
  <2> QED
    BY <2>1, <2>2, <2>6
<1>8. ASSUME NEW i \in 1..n PROVE i \in hits <=> at[i] \in rules
  <2>1. i \in hits <=> holds(i)
    BY <1>4, <1>6, <1>7 DEF Verdict
  <2>2. at[i] \in Of(calls, {"if"}) /\ RuleFits(own[i], calls, at[i])
    BY <1>2, <1>3 DEF RulesAre
  <2>3. at[i] \in rules <=> \A j : IsClauseOf(calls, at[i], j) => ClauseHolds(calls[j].arg, user)
    BY <2>2 DEF IntendedRules, IsClauseOf, ClauseHolds
  <2>4. holds(i) <=> \A j : IsClauseOf(calls, at[i], j) => ClauseHolds(calls[j].arg, user)
    <3>1. ASSUME holds(i), NEW j, IsClauseOf(calls, at[i], j)
          PROVE  ClauseHolds(calls[j].arg, user)
      BY <2>2, <3>1 DEF RuleFits
    <3>2. ASSUME \A j : IsClauseOf(calls, at[i], j) => ClauseHolds(calls[j].arg, user),
                 NEW k \in DOMAIN own[i].clauses
          PROVE  ClauseHolds(own[i].clauses[k], user)
      BY <2>2, <3>2 DEF RuleFits
    <3> QED
      BY <3>1, <3>2
  <2> QED
    BY <2>1, <2>3, <2>4
<1>9. hits \subseteq 1..n /\ hits \in SUBSET Nat
  BY <1>2, <1>4, <1>6
<1>10. \A r \in rules : \E i \in 1..n : at[i] = r
  BY <1>2, <1>3 DEF IntendedRules, RulesAre
<1>11. CASE rules = {}
  <2>1. hits = {}
    BY <1>8, <1>9, <1>11
  <2>2. EvaluateFallthrough(flag, user).value = ValueAt(b.variations, b.fallthroughVariation)
    BY FallthroughValue
  <2> QED
    BY <1>4, <1>6, <1>11, <2>1, <2>2 DEF ByRules
<1>12. CASE rules # {}
  <2>1. PICK i : i = Min(hits)
    OBVIOUS
  <2>2. hits # {}
    BY <1>8, <1>10, <1>12
  <2>3. i \in hits /\ \A x \in hits : i <= x
    BY <1>9, <2>1, <2>2, MinIsLeast
  <2>4. i \in 1..n /\ at[i] \in rules
    BY <1>8, <1>9, <2>3
  <2>5. PICK m : m = Max(rules)
    OBVIOUS
  <2>6. m = at[i]
    <3>1. PICK c : c = Len(calls)
      OBVIOUS
    <3>2. c \in Nat /\ rules \subseteq 1..c
      BY <3>1, IsSeqLen DEF CallsOK, IntendedRules, Of
    <3>3. ASSUME NEW r \in rules PROVE r <= at[i]
      <4>1. PICK x \in 1..n : at[x] = r
        BY <1>10
      <4>2. x \in hits
        BY <1>8, <4>1
      <4>3. i <= x
        BY <2>3, <4>2
      <4>4. CASE i = x
        BY <3>2, <2>4, <4>1, <4>4
      <4>5. CASE i < x
        <5>1. at[x] < at[i]
          BY <1>2, <1>3, <2>4, <4>1, <4>5 DEF RulesAre
        <5>2. at[x] \in 1..c /\ at[i] \in 1..c
          BY <2>4, <3>2, <4>1
        <5> QED
          BY <3>2, <4>1, <5>1, <5>2
      <4> QED
        BY <2>4, <4>3, <4>4, <4>5
    <3> HIDE DEF rules
    <3> QED
      BY <2>4, <2>5, <3>2, <3>3, MaxIs
  <2>7. RuleStatus(json[i], user) = "MATCH"
    BY <1>4, <1>6, <1>7, <2>3, <2>4 DEF Verdict
  <2>8. EvaluateRule(flag, i, user).value = ValueAt(b.variations, own[i].variation)
    BY <1>2, <2>4, RuleValue
  <2>9. ByRules(flag, user, hits) = EvaluateRule(flag, i, user)
    BY <1>4, <2>1, <2>2, <2>7 DEF ByRules
  <2>10. own[i].variation = IF Thens(calls, m) = {} THEN 0 ELSE calls[Max(Thens(calls, m))].arg
    BY <1>2, <1>3, <2>4, <2>6 DEF RulesAre, RuleFits
  <2> QED
    BY <1>4, <1>6, <1>12, <2>5, <2>8, <2>9, <2>10
<1> QED
  BY <1>11, <1>12

\* With targeting off and no value for all users to be served, the off variation
\* is the one that was set as such.
LEMMA OffIs ==
  ASSUME NEW calls, IsSeq(calls), ~IntendedOn(calls), ~OffAfterValue(calls)
  PROVE  IntendedOff(calls) = Setting(calls, {"off"}, 1)
<1>1. PICK both : both = Of(calls, {"off", "value"})
  OBVIOUS
<1>2. PICK off : off = Of(calls, {"off"})
  OBVIOUS
<1>3. PICK n : n = Len(calls)
  OBVIOUS
<1>4. n \in Nat /\ DOMAIN calls = 1..n
  BY <1>3, IsSeqLen
<1>5. /\ both \subseteq 1..n /\ off \subseteq both
      /\ \A i \in both : calls[i].op = "off" => i \in off
      /\ \A i \in both : calls[i].op \in {"off", "value"}
  BY <1>1, <1>2, <1>4 DEF Of
<1>6. IntendedOff(calls) =
        IF both = {} \/ \E i \in Resets(calls) : i > Max(both) THEN 1
        ELSE Choice(calls[Max(both)])
  BY <1>1 DEF IntendedOff, Setting
<1>7. Setting(calls, {"off"}, 1) =
        IF off = {} \/ \E i \in Resets(calls) : i > Max(off) THEN 1
        ELSE Choice(calls[Max(off)])
  BY <1>2 DEF Setting
<1>8. Resets(calls) \subseteq 1..n
  BY <1>4 DEF Resets
<1>9. CASE both = {}
  BY <1>5, <1>6, <1>7, <1>9
<1>10. CASE both # {}
  <2>1. PICK m : m = Max(both)
    OBVIOUS
  <2>2. m \in both /\ \A i \in both : i <= m
    BY <1>4, <1>5, <1>10, <2>1, MaxIsGreatest
  <2>3. calls[m].op # "value" \/ \E i \in Resets(calls) : i > m
    BY <1>1, <1>10, <2>1 DEF OffAfterValue
  <2>4. CASE \E i \in Resets(calls) : i > m
    <3>1. IntendedOff(calls) = 1
      BY <1>6, <2>1, <2>4
    <3>2. CASE off = {}
      BY <1>7, <3>1, <3>2
    <3>3. CASE off # {}
      <4>1. PICK l : l = Max(off)
        OBVIOUS
      <4>2. l \in off
        BY <1>4, <1>5, <3>3, <4>1, MaxIsGreatest
      <4>3. l \in both /\ l <= m /\ l \in Int /\ m \in Int
        BY <1>4, <1>5, <2>2, <4>2
      <4>4. \E i \in Resets(calls) : i > l
        BY <1>4, <1>8, <2>4, <4>3
      <4> QED
        BY <1>7, <3>1, <4>1, <4>4
    <3> QED
      BY <3>2, <3>3
  <2>5. CASE calls[m].op # "value"
    <3>1. m \in off
      BY <1>5, <2>2, <2>5
    <3>2. \A i \in off : i <= m
      BY <1>5, <2>2
    <3>3. Max(off) = m
      BY <1>4, <1>5, <3>1, <3>2, MaxIs
    <3> QED
      BY <1>6, <1>7, <1>10, <2>1, <3>1, <3>3
  <2> QED
    BY <2>3, <2>4, <2>5
<1> QED
  BY <1>9, <1>10

\* A flag that was built from what the calls have made does as they say.
LEMMA FitGives ==
  ASSUME NEW calls, NEW b, Fits(b, calls), NEW flag, BuiltFrom(flag, b), NEW user \in AppUsers,
         ~ArrayForAllUsers(calls), ~OffAfterValue(calls)
  PROVE  ValueFor(flag, user) = Intended(calls, user)
<1> DEFINE own == Own(calls, user.key)
           rules == IntendedRules(calls, user)
           chosen == IF Thens(calls, Max(rules)) = {} THEN 0
                     ELSE calls[Max(Thens(calls, Max(rules)))].arg
<1>1. /\ CallsOK(calls) /\ IsBuilder(b) /\ TargetsFit(b, calls) /\ RulesFit(b, calls)
      /\ b.on = TRUE <=> IntendedOn(calls)
      /\ b.variations = IntendedVariations(calls)
      /\ b.fallthroughVariation = IntendedFallthrough(calls)
      /\ b.offVariation = Setting(calls, {"off"}, 1)
  BY DEF Fits, ScalarsFit
<1>2. PICK n : n = IntendedVariation(calls, user)
  OBVIOUS
<1>3. Intended(calls, user) = ValueAt(b.variations, n)
  BY <1>1, <1>2 DEF Intended, ValueAt
<1>4. n = IF ~IntendedOn(calls) THEN b.offVariation
          ELSE IF own # {} THEN calls[Max(own)].arg
          ELSE IF rules = {} THEN b.fallthroughVariation
          ELSE chosen
  <2>1. ~IntendedOn(calls) => IntendedOff(calls) = b.offVariation
    BY <1>1, OffIs DEF CallsOK
  <2> QED
    BY <1>1, <1>2, <2>1 DEF IntendedVariation, Own, Thens
<1>5. PICK hits : hits = {i \in 1..Len(flag.rules) : RuleStatus(flag.rules[i], user) # "MISS"}
  OBVIOUS
<1>6. /\ IsSeq(flag.rules)
      /\ rules = {} =>
           ByRules(flag, user, hits).value = ValueAt(b.variations, b.fallthroughVariation)
      /\ rules # {} => ByRules(flag, user, hits).value = ValueAt(b.variations, chosen)
  BY <1>1, <1>5, RulesDecide
<1>7. /\ own = {} => EvaluateTargets(flag, user) = Undecided
      /\ own # {} =>
           /\ EvaluateTargets(flag, user) # Undecided
           /\ EvaluateTargets(flag, user).value = ValueAt(b.variations, calls[Max(own)].arg)
  BY <1>1, TargetsDecide
<1>8. /\ b.on = TRUE => EvaluateOn(flag) = Undecided
      /\ b.on # TRUE =>
           /\ EvaluateOn(flag) # Undecided
           /\ EvaluateOn(flag).value = ValueAt(b.variations, b.offVariation)
  BY <1>1, OnDecides
<1>9. EvaluateAlone(flag, user) =
        IF EvaluateOn(flag) # Undecided THEN EvaluateOn(flag)
        ELSE IF EvaluateTargets(flag, user) # Undecided THEN EvaluateTargets(flag, user)
        ELSE ByRules(flag, user, hits)
  BY <1>5, <1>6, AloneIs
<1>10. PICK value : value = EvaluateAlone(flag, user).value
  OBVIOUS
<1> HIDE DEF own, rules, chosen
<1>11. value = ValueAt(b.variations, n)
  <2>1. CASE ~IntendedOn(calls)
    BY <1>1, <1>4, <1>8, <1>9, <1>10, <2>1
  <2>2. CASE IntendedOn(calls) /\ own # {}
    BY <1>1, <1>4, <1>7, <1>8, <1>9, <1>10, <2>2
  <2>3. CASE IntendedOn(calls) /\ own = {}
    BY <1>1, <1>4, <1>6, <1>7, <1>8, <1>9, <1>10, <2>3
  <2> QED
    BY <2>1, <2>2, <2>3
<1> QED
  BY <1>3, <1>10, <1>11 DEF ValueFor

-----------------------------------------------------------------------------
(* Scripts of calls, and the flags of the test data.                       *)

\* The recursion of Builders, on the first m calls.
Follows(f, m, b, calls) ==
    f = [n \in 0..m |-> IF n = 0 THEN b ELSE Apply(f[n - 1], calls[n])]

\* The recursion of Builders has a solution for any number of calls.
LEMMA FollowsNext ==
  ASSUME NEW m \in Nat, NEW b, NEW calls, NEW f, Follows(f, m, b, calls)
  PROVE  \E g : Follows(g, m + 1, b, calls)
<1>1. PICK g : g = [n \in 0..(m + 1) |-> IF n = m + 1 THEN Apply(f[m], calls[m + 1]) ELSE f[n]]
  OBVIOUS
<1>2. ASSUME NEW n \in 0..(m + 1)
      PROVE  g[n] = IF n = 0 THEN b ELSE Apply(g[n - 1], calls[n])
  <2>1. CASE n = 0
    <3>1. 0 \in 0..m /\ 0 # m + 1 /\ 0 \in 0..(m + 1)
      OBVIOUS
    <3>2. f[0] = b
      BY <3>1 DEF Follows
    <3> QED
      BY <1>1, <2>1, <3>1, <3>2
  <2>2. CASE n # 0 /\ n # m + 1
    <3>1. n \in 0..m /\ n - 1 \in 0..(m + 1) /\ n - 1 # m + 1
      BY <2>2
    <3>2. g[n] = f[n] /\ g[n - 1] = f[n - 1]
      BY <1>1, <2>2, <3>1
    <3>3. f[n] = Apply(f[n - 1], calls[n])
      BY <2>2, <3>1 DEF Follows
    <3> QED
      BY <2>2, <3>2, <3>3
  <2>3. CASE n = m + 1
    <3>1. m \in 0..(m + 1) /\ m # m + 1 /\ m + 1 \in 0..(m + 1) /\ m + 1 # 0 /\ (m + 1) - 1 = m
      OBVIOUS
    <3>2. g[m] = f[m] /\ g[m + 1] = Apply(f[m], calls[m + 1])
      BY <1>1, <3>1
    <3> QED
      BY <2>3, <3>1, <3>2
  <2> QED
    BY <2>1, <2>2, <2>3
<1>3. g = [n \in 0..(m + 1) |-> g[n]]
  BY <1>1
<1>4. Follows(g, m + 1, b, calls)
  BY <1>2, <1>3 DEF Follows
<1> QED
  BY <1>4

\* The builder after each call.
LEMMA BuildersAre ==
  ASSUME NEW b, NEW calls, IsSeq(calls)
  PROVE  /\ Builders(b, calls)[0] = b
         /\ \A n \in 1..Len(calls) :
              Builders(b, calls)[n] = Apply(Builders(b, calls)[n - 1], calls[n])
<1> DEFINE S == {m \in Nat : \E f : Follows(f, m, b, calls)}
<1>1. 0 \in S
  <2>1. PICK f : f = [n \in 0..0 |-> b]
    OBVIOUS
  <2>2. f = [n \in 0..0 |-> IF n = 0 THEN b ELSE Apply(f[n - 1], calls[n])]
    BY <2>1
  <2> QED
    BY <2>2 DEF Follows
<1>2. \A m \in Nat : m \in S => m + 1 \in S
  BY FollowsNext
<1>3. Nat \subseteq S
  <2> HIDE DEF S
  <2> QED
    BY <1>1, <1>2, Induction
<1>4. PICK len : len = Len(calls)
  OBVIOUS
<1>5. len \in Nat
  BY <1>4, IsSeqLen
<1>6. \E f : Follows(f, len, b, calls)
  BY <1>3, <1>5
<1>7. PICK after : after = Builders(b, calls)
  OBVIOUS
<1>8. after = CHOOSE f : Follows(f, len, b, calls)
  BY <1>4, <1>7 DEF Builders, Follows
<1>9. Follows(after, len, b, calls)
  BY <1>6, <1>8
<1>10. after[0] = b
  BY <1>5, <1>9 DEF Follows
<1>11. ASSUME NEW n \in 1..len PROVE after[n] = Apply(after[n - 1], calls[n])
  BY <1>5, <1>9 DEF Follows
<1> QED
  BY <1>4, <1>7, <1>10, <1>11

LEMMA Joined ==
  ASSUME NEW s, NEW t, IsSeq(s), IsSeq(t)
  PROVE  /\ IsSeq(s \o t) /\ Len(s \o t) = Len(s) + Len(t)
         /\ \A i \in 1..Len(s) : (s \o t)[i] = s[i]
         /\ \A i \in 1..Len(t) : (s \o t)[Len(s) + i] = t[i]
<1> DEFINE T == Range(s) \cup Range(t)
           r == s \o t
<1>1. s \in Seq(T) /\ t \in Seq(T)
  <2>1. s \in Seq(Range(s)) /\ Range(s) \subseteq T /\ t \in Seq(Range(t)) /\ Range(t) \subseteq T
    BY DEF IsSeq
  <2> HIDE DEF T
  <2> QED
    BY <2>1
<1> HIDE DEF T
<1>2. r \in Seq(T) /\ Len(r) = Len(s) + Len(t)
  BY <1>1
<1>3. \A i \in 1..Len(s) : r[i] = s[i]
  BY <1>1
<1>4. \A i \in 1..Len(t) : r[Len(s) + i] = t[i]
  BY <1>1
<1> HIDE DEF r
<1>5. IsSeq(r)
  BY <1>2 DEF IsSeq, Range
<1> QED
  BY <1>2, <1>3, <1>4, <1>5 DEF r

\* The calls of a script, one after the other.
LEMMA ScriptFits ==
  ASSUME NEW b, NEW log, Fits(b, log), NEW script, CallsOK(script), AllDefined(b, script)
  PROVE  Fits(Builders(b, script)[Len(script)], log \o script)
<1>1. PICK full : full = log \o script
  OBVIOUS
<1>2. PICK l : l = Len(log)
  OBVIOUS
<1>3. PICK s : s = Len(script)
  OBVIOUS
<1>4. PICK B : B = Builders(b, script)
  OBVIOUS
<1>5. IsSeq(log) /\ IsSeq(script)
  BY DEF Fits, CallsOK
<1>6. l \in Nat /\ DOMAIN log = 1..l /\ s \in Nat /\ DOMAIN script = 1..s
  BY <1>2, <1>3, <1>5, IsSeqLen
<1>7. /\ IsSeq(full) /\ Len(full) = l + s /\ \A i \in 1..l : full[i] = log[i]
      /\ \A i \in 1..s : full[l + i] = script[i]
  BY <1>1, <1>2, <1>3, <1>5, Joined
<1>8. B[0] = b /\ \A n \in 1..s : B[n] = Apply(B[n - 1], script[n])
  BY <1>3, <1>4, <1>5, BuildersAre
<1> DEFINE upTo(m) == [i \in 1..m |-> full[i]]
           S == {m \in Nat : m <= s => Fits(B[m], upTo(l + m))}
<1>9. 0 \in S
  <2>1. upTo(l) = log
    <3>1. log = [i \in 1..l |-> log[i]]
      BY <1>5, <1>6 DEF IsSeq
    <3> QED
      BY <1>7, <3>1
  <2>2. l + 0 = l
    BY <1>6
  <2> QED
    BY <1>8, <2>1, <2>2
<1>10. ASSUME NEW m \in Nat, m \in S PROVE m + 1 \in S
  <2> SUFFICES ASSUME m + 1 <= s PROVE Fits(B[m + 1], upTo(l + (m + 1)))
    OBVIOUS
  <2>1. PICK n : n = l + m
    OBVIOUS
  <2>2. PICK calls : calls = upTo(n)
    OBVIOUS
  <2>3. PICK next : next = upTo(n + 1)
    OBVIOUS
  <2>4. PICK call : call = script[m + 1]
    OBVIOUS
  <2>5. n \in Nat /\ n + 1 \in Nat /\ l + (m + 1) = n + 1 /\ m + 1 \in 1..s /\ (m + 1) - 1 = m
    BY <1>6, <2>1
  <2>6. Fits(B[m], calls)
    BY <1>6, <1>10, <2>1, <2>2
  <2>7. /\ IsSeq(calls) /\ Len(calls) = n /\ DOMAIN calls = 1..n
    <3>1. DOMAIN calls = 1..n /\ calls = [i \in 1..n |-> calls[i]]
      BY <2>2
    <3> QED
      BY <2>5, <3>1, IsSeqOf
  <2>8. /\ IsSeq(next) /\ Len(next) = n + 1 /\ DOMAIN next = 1..(n + 1)
    <3>1. DOMAIN next = 1..(n + 1) /\ next = [i \in 1..(n + 1) |-> next[i]]
      BY <2>3
    <3>2. PICK x : x = n + 1
      OBVIOUS
    <3> QED
      BY <2>5, <3>1, <3>2, IsSeqOf
  <2>9. next[n + 1] = call
    <3>1. next[n + 1] = full[n + 1]
      BY <2>3, <2>5
    <3>2. full[l + (m + 1)] = script[m + 1]
      BY <1>7, <2>5
    <3> QED
      BY <2>4, <2>5, <3>1, <3>2
  <2>10. \A i \in 1..n : next[i] = calls[i]
    BY <2>2, <2>3, <2>5
  <2>11. More(n, calls, call, next)
    BY <2>5, <2>7, <2>8, <2>9, <2>10 DEF More
  <2>12. CallOK(call) /\ Defined(B[m], call)
    BY <1>4, <1>6, <2>4, <2>5 DEF CallsOK, AllDefined
  <2>13. PICK c : c = B[m]
    OBVIOUS
  <2>14. Fits(Apply(c, call), next)
    BY <2>6, <2>11, <2>12, <2>13, FitsMore
  <2>15. B[m + 1] = Apply(c, call)
    BY <1>8, <2>4, <2>5, <2>13
  <2> QED
    BY <2>3, <2>5, <2>14, <2>15
<1>11. s \in S
  <2> HIDE DEF S
  <2>1. Nat \subseteq S
    BY <1>9, <1>10, Induction
  <2> QED
    BY <1>6, <2>1
<1>12. upTo(l + s) = full
  <2>1. full = [i \in 1..(l + s) |-> full[i]]
    BY <1>7 DEF IsSeq
  <2> QED
    BY <2>1
<1>13. Fits(B[s], full)
  BY <1>6, <1>11, <1>12
<1> QED
  BY <1>1, <1>3, <1>4, <1>13

\* Neither a copy nor the end of the builder it shares clauses with changes
\* what the flag gives.
LEMMA FitsAlike ==
  ASSUME NEW b, NEW calls, Fits(b, calls), NEW d,
         \/ d = flagBuilderDuplicate(b)
         \/ d = [b EXCEPT !.dangling = b.borrowed > 0]
  PROVE  Fits(d, calls) /\ \A flag : BuiltFrom(flag, b) => BuiltFrom(flag, d)
<1>1. IsBuilder(b)
  BY DEF Fits
<1>2. Len(b.rules) \in Nat
  BY <1>1, IsSeqLen DEF IsBuilder
<1>3. b = [on |-> b.on, variations |-> b.variations,
            fallthroughVariation |-> b.fallthroughVariation,
            offVariation |-> b.offVariation, targets |-> b.targets, rules |-> b.rules,
            borrowed |-> b.borrowed, dangling |-> b.dangling]
  BY <1>1 DEF IsBuilder
<1>4. PICK borrowed, dangling :
        borrowed \in Nat /\
        d = [on |-> b.on, variations |-> b.variations,
            fallthroughVariation |-> b.fallthroughVariation,
            offVariation |-> b.offVariation, targets |-> b.targets, rules |-> b.rules,
            borrowed |-> borrowed, dangling |-> dangling]
  <2>1. CASE d = flagBuilderDuplicate(b)
    BY <1>2, <1>3, <2>1 DEF flagBuilderDuplicate
  <2>2. CASE d = [b EXCEPT !.dangling = b.borrowed > 0]
    <3>1. b.borrowed \in Nat
      BY <1>1 DEF IsBuilder
    <3>2. PICK x : x = (b.borrowed > 0)
      OBVIOUS
    <3> QED
      BY <1>3, <2>2, <3>1, <3>2
  <2> QED
    BY <2>1, <2>2
<1>5. /\ d.on = b.on /\ d.variations = b.variations
      /\ d.fallthroughVariation = b.fallthroughVariation /\ d.offVariation = b.offVariation
      /\ d.targets = b.targets /\ d.rules = b.rules /\ d.borrowed \in Nat
      /\ d = [on |-> d.on, variations |-> d.variations,
            fallthroughVariation |-> d.fallthroughVariation,
            offVariation |-> d.offVariation, targets |-> d.targets, rules |-> d.rules,
            borrowed |-> d.borrowed, dangling |-> d.dangling]
  BY <1>4
<1>6. IsBuilder(d)
  BY <1>1, <1>5 DEF IsBuilder
<1>7. /\ ~ArrayForAllUsers(calls) => ScalarsFit(d, calls)
      /\ TargetsFit(d, calls) /\ RulesFit(d, calls) /\ CallsOK(calls)
  BY <1>5 DEF Fits, ScalarsFit, TargetsFit, RulesFit
<1>8. \A flag : BuiltFrom(flag, b) => BuiltFrom(flag, d)
  BY <1>5 DEF BuiltFrom
<1> QED
  BY <1>6, <1>7, <1>8 DEF Fits

-----------------------------------------------------------------------------
\* Every builder is what the calls on it, and on those it was copied from, have
\* made it, and every flag is built from its builder.
BuildersFit ==
    \A k \in Keys :
        IF k \in DOMAIN flagBuilders
        THEN Fits(flagBuilders[k], logs[k]) /\ BuiltFrom(currentFlags[k], flagBuilders[k])
        ELSE logs[k] = <<>>
BInv ==
    /\ DOMAIN logs = Keys /\ BuildersFit
    /\ \A t \in Threads : app[t].at = "built" => Fits(app[t].builder, app[t].log)

LEMMA BInvInit == Init => BInv
  BY DEF Init, BInv, BuildersFit, NoFlags, Idle

\* LDTestDataFlag and the calls on the builder.
LEMMA ScriptStep ==
  ASSUME IInv, BInv, NEW t \in Threads, NEW k \in Keys, NEW script \in Scripts[k],
         LDTestDataFlag(t, k, script)
  PROVE  BInv'
<1>1. PICK b : b = IF k \in DOMAIN flagBuilders THEN flagBuilderDuplicate(flagBuilders[k])
                   ELSE NewFlagBuilder
  OBVIOUS
<1>2. Fits(b, logs[k])
  <2>1. CASE k \in DOMAIN flagBuilders
    <3>1. PICK old : old = flagBuilders[k]
      OBVIOUS
    <3>2. Fits(old, logs[k]) /\ b = flagBuilderDuplicate(old)
      BY <1>1, <2>1, <3>1 DEF BInv, BuildersFit
    <3>3. PICK log : log = logs[k]
      OBVIOUS
    <3>4. Fits(b, log)
      BY <3>2, <3>3, FitsAlike
    <3> QED
      BY <3>3, <3>4
  <2>2. CASE k \notin DOMAIN flagBuilders
    BY <1>1, <2>2, NewFits DEF BInv, BuildersFit
  <2> QED
    BY <2>1, <2>2
<1>3. CallsOK(script)
  BY ScriptsAssumption DEF CallsOK
<1>4. PICK new : new = [at |-> "built", key |-> k, builder |-> Builders(b, script)[Len(script)],
                        log |-> logs[k] \o script]
  OBVIOUS
<1>5. /\ AllDefined(b, script) /\ app' = [app EXCEPT ![t] = new]
      /\ UNCHANGED <<testData>>
  BY <1>1, <1>4 DEF LDTestDataFlag
<1>6. Fits(new.builder, new.log)
  <2>1. PICK log : log = logs[k]
    OBVIOUS
  <2>2. Fits(Builders(b, script)[Len(script)], log \o script)
    BY <1>2, <1>3, <1>5, <2>1, ScriptFits
  <2> QED
    BY <1>4, <2>1, <2>2
<1>7. DOMAIN app = Threads
  BY DEF IInv, Domains
<1>8. \A u \in Threads : app'[u] = IF u = t THEN new ELSE app[u]
  BY <1>5, <1>7
<1>9. ASSUME NEW u \in Threads, app'[u].at = "built" PROVE Fits(app'[u].builder, app'[u].log)
  BY <1>6, <1>8, <1>9 DEF BInv
<1>10. BuildersFit' /\ (DOMAIN logs)' = Keys
  BY <1>5 DEF BInv, BuildersFit, testData
<1> QED
  BY <1>9, <1>10 DEF BInv

\* LDTestDataUpdate.
LEMMA BuildStep ==
  ASSUME IInv, BInv, NEW t \in Threads, LDTestDataUpdate(t)
  PROVE  BInv'
<1>1. PICK k : k = app[t].key
  OBVIOUS
<1>2. PICK b : b = app[t].builder
  OBVIOUS
<1>3. PICK version : version = LDi_getPreviousFlagVersion(k) + 1
  OBVIOUS
<1>4. PICK flag : flag = LDFlagBuilderBuild(k, b, version)
  OBVIOUS
<1>5. PICK d : d = [b EXCEPT !.dangling = b.borrowed > 0]
  OBVIOUS
<1>6. PICK log : log = app[t].log
  OBVIOUS
<1>7. PICK new : new = [at |-> "updated", key |-> k, flag |-> flag]
  OBVIOUS
<1>8. /\ app[t].at = "built"
      /\ currentFlags' = LDObjectSetKey(currentFlags, k, flag)
      /\ flagBuilders' = LDObjectSetKey(flagBuilders, k, d)
      /\ logs' = [logs EXCEPT ![k] = log]
      /\ app' = [app EXCEPT ![t] = new]
  BY <1>1, <1>2, <1>3, <1>4, <1>5, <1>6, <1>7 DEF LDTestDataUpdate
<1>9. Fits(b, log)
  BY <1>2, <1>6, <1>8 DEF BInv
<1>10. BuiltFrom(flag, b)
  BY <1>4, Built
<1>11. Fits(d, log) /\ BuiltFrom(flag, d)
  BY <1>5, <1>9, <1>10, FitsAlike
<1>12. k \in Keys /\ DOMAIN app = Threads /\ DOMAIN logs = Keys
       /\ DOMAIN flagBuilders = DOMAIN currentFlags
  BY <1>1, <1>8 DEF IInv, Domains, Flags, Applying, BInv
<1>13. /\ DOMAIN flagBuilders' = DOMAIN flagBuilders \cup {k}
       /\ flagBuilders'[k] = d /\ currentFlags'[k] = flag /\ logs'[k] = log
       /\ \A j \in DOMAIN flagBuilders : j # k =>
            flagBuilders'[j] = flagBuilders[j] /\ currentFlags'[j] = currentFlags[j]
       /\ \A j \in Keys : j # k => logs'[j] = logs[j]
       /\ DOMAIN logs' = Keys
  BY <1>8, <1>12 DEF LDObjectSetKey
<1>14. BuildersFit'
  <2> SUFFICES ASSUME NEW j \in Keys
               PROVE  IF j \in DOMAIN flagBuilders'
                      THEN /\ Fits(flagBuilders'[j], logs'[j])
                           /\ BuiltFrom(currentFlags'[j], flagBuilders'[j])
                      ELSE logs'[j] = <<>>
    BY DEF BuildersFit
  <2>1. CASE j = k
    BY <1>11, <1>13, <2>1
  <2>2. CASE j # k
    BY <1>13, <2>2 DEF BInv, BuildersFit
  <2> QED
    BY <2>1, <2>2
<1>15. \A u \in Threads : app'[u] = IF u = t THEN new ELSE app[u]
  BY <1>8, <1>12
<1>16. new.at # "built"
  BY <1>7
<1>17. ASSUME NEW u \in Threads, app'[u].at = "built" PROVE Fits(app'[u].builder, app'[u].log)
  BY <1>15, <1>16, <1>17 DEF BInv
<1> QED
  BY <1>13, <1>14, <1>17 DEF BInv

\* The other steps change no builder and no flag, and build nothing.
LEMMA OtherStep ==
  ASSUME IInv, BInv, UNCHANGED testData,
         \/ UNCHANGED app
         \/ \E t \in Threads : BeginNotify(t) \/ LDi_notifyDataInstances(t)
  PROVE  BInv'
<1>1. BuildersFit' /\ (DOMAIN logs)' = Keys
  BY DEF BInv, BuildersFit, testData
<1>2. CASE UNCHANGED app
  BY <1>1, <1>2 DEF BInv
<1>3. ASSUME NEW t \in Threads, BeginNotify(t) \/ LDi_notifyDataInstances(t) PROVE BInv'
  <2>1. DOMAIN app = Threads
    BY DEF IInv, Domains
  <2>2. \E new : app' = [app EXCEPT ![t] = new] /\ new.at # "built"
    BY <1>3 DEF BeginNotify, LDi_notifyDataInstances, Notifying, Idle
  <2>3. PICK new : app' = [app EXCEPT ![t] = new] /\ new.at # "built"
    BY <2>2
  <2>4. \A u \in Threads : app'[u] = IF u = t THEN new ELSE app[u]
    BY <2>1, <2>3
  <2>5. ASSUME NEW u \in Threads, app'[u].at = "built" PROVE Fits(app'[u].builder, app'[u].log)
    BY <2>3, <2>4, <2>5 DEF BInv
  <2> QED
    BY <1>1, <2>5 DEF BInv
<1> QED
  BY <1>2, <1>3

LEMMA BInvNext == IInv /\ BInv /\ [Next]_vars => BInv'
<1> SUFFICES ASSUME IInv, BInv, [Next]_vars PROVE BInv'
  OBVIOUS
<1>1. CASE UNCHANGED vars
  BY <1>1, OtherStep DEF vars
<1>2. ASSUME NEW t \in Threads, NEW k \in Keys, NEW script \in Scripts[k],
             LDTestDataFlag(t, k, script)
      PROVE  BInv'
  BY <1>2, ScriptStep
<1>3. ASSUME NEW t \in Threads, LDTestDataUpdate(t) PROVE BInv'
  BY <1>3, BuildStep
<1>4. ASSUME NEW t \in Threads, BeginNotify(t) \/ LDi_notifyDataInstances(t) PROVE BInv'
  <2>1. UNCHANGED testData
    BY <1>4 DEF BeginNotify, LDi_notifyDataInstances
  <2> QED
    BY <1>4, <2>1, OtherStep
<1>5. ASSUME NEW i \in Clients,
             \/ LDTestDataCreateDataSource(i)
             \/ \E list \in FileLists : LDFileDataInit(i, list)
             \/ LoadFile(i) \/ Copy(i) \/ Fill(i) \/ Register(i) \/ Close(i)
      PROVE  BInv'
  <2>1. UNCHANGED <<testData, app>>
    BY <1>5 DEF LDTestDataCreateDataSource, LDFileDataInit, LoadFile, Copy, Fill, Register, Close
  <2> QED
    BY <2>1, OtherStep
<1> QED
  BY <1>1, <1>2, <1>3, <1>4, <1>5 DEF Next

LEMMA BInvHolds == Spec => []BInv
<1>1. Init => BInv
  BY BInvInit
<1> QED
  BY <1>1, InvHolds, BInvNext, PTL DEF Spec

\* For any sequence of calls on the builders of a flag, on copies of copies of
\* them too, every user gets from the flag that LDTestDataUpdate keeps what the
\* calls are documented to mean, unless a value for all users was an array, or
\* targeting is off and a value for all users should be served.
THEOREM CallsObeyed == Spec => []Configured
<1>1. ASSUME IInv, BInv PROVE Configured
  <2> SUFFICES ASSUME NEW k \in DOMAIN currentFlags, NEW user \in AppUsers,
                      ~ArrayForAllUsers(logs[k]), ~OffAfterValue(logs[k])
               PROVE  ValueFor(currentFlags[k], user) = Intended(logs[k], user)
    BY DEF Configured
  <2>1. k \in Keys /\ k \in DOMAIN flagBuilders
    BY <1>1 DEF IInv, Flags
  <2>2. PICK b : b = flagBuilders[k]
    OBVIOUS
  <2>3. PICK calls : calls = logs[k]
    OBVIOUS
  <2>4. PICK flag : flag = currentFlags[k]
    OBVIOUS
  <2>5. Fits(b, calls) /\ BuiltFrom(flag, b)
    BY <1>1, <2>1, <2>2, <2>3, <2>4 DEF BInv, BuildersFit
  <2>6. ValueFor(flag, user) = Intended(calls, user)
    BY <2>3, <2>5, FitGives
  <2> QED
    BY <2>3, <2>4, <2>6
<1> QED
  BY <1>1, InvHolds, BInvHolds, PTL
=============================================================================
