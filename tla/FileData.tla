------------------------------- MODULE FileData -------------------------------
(***************************************************************************)
(* The file data source, src/integrations/file_data.c: the set of flags and *)
(* segments that a list of files makes.                                     *)
(*                                                                          *)
(* A file is Null when it is not named, cannot be read or is not JSON, Bad  *)
(* when it holds no object, and otherwise the record of its three sections, *)
(* each a function from the keys it mentions, an absent one the empty one.  *)
(***************************************************************************)
EXTENDS Evaluate

\* LDObjectMerge: what is merged into an object replaces what it had.
LDObjectMerge(to, from) ==
    [k \in DOMAIN to \cup DOMAIN from |-> IF k \in DOMAIN from THEN from[k] ELSE to[k]]

\* The merge the other way round.
MergeNewer(known, section) == LDObjectMerge(known, section)

\* What earlier files and sections said stays.
MergeOlder(known, section) == LDObjectMerge(section, known)

\* A flag that has the value for everybody.
expandSimpleFlags(values) ==
    [k \in DOMAIN values |->
        [key |-> k, variations |-> <<values[k]>>, on |-> TRUE, version |-> 1,
         fallthrough |-> [variation |-> 0, rollout |-> Null], salt |-> "salt",
         offVariation |-> Null, targets |-> <<>>, rules |-> <<>>]]

\* The version and the salt of a flag in a file do not matter.
Versioned(flags) ==
    [k \in DOMAIN flags |-> [flags[k] EXCEPT !.version = 1, !.salt = "salt"]]

\* Of one file its flags come before its flag values.
AddFile(set, file) ==
    IF file \in {Null, Bad} THEN set
    ELSE [features |-> MergeOlder(MergeOlder(set.features, Versioned(file.flags)),
                                  expandSimpleFlags(file.flagValues)),
          segments |-> MergeOlder(set.segments, file.segments)]

\* What LDFileDataInit begins with.
EmptySet == [features |-> <<>>, segments |-> <<>>]
=============================================================================
