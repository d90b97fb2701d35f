------------------------------ MODULE QlessTags ------------------------------
(***************************************************************************)
(* Tags of qless jobs.  A job's hash keeps a list of its tags, ql:t:<tag>  *)
(* the jobs that have the tag, and ql:tags how common each tag is; put,    *)
(* tag, cancel, complete and recurring jobs write all three.  A list is    *)
(* modelled by how often it names each tag.                                *)
(***************************************************************************)
EXTENDS Integers, FiniteSets

CONSTANTS
    Jobs, Tags,
    MaxCopies,      \* a list of tags names each tag at most so often
    MaxCount,       \* bound on the scores of ql:tags
    NoHash

Lists == [Tags -> 0 .. MaxCopies]

ASSUME TagsAssumption ==
    /\ NoHash \notin [Tags -> Nat]
    /\ MaxCopies \in Nat
    /\ IsFiniteSet(Jobs)

VARIABLES
    tags,       \* tags of ql:j:<jid>, or NoHash
    tagged,     \* ql:t:<tag>
    count       \* ql:tags

tagVars == <<tags, tagged, count>>

TagsTypeOK ==
    /\ tags \in [Jobs -> [Tags -> Nat] \cup {NoHash}]
    /\ tagged \in [Tags -> SUBSET Jobs]
    /\ count \in [Tags -> Int]

TagsInit ==
    /\ tags = [j \in Jobs |-> NoHash]
    /\ tagged = [t \in Tags |-> {}]
    /\ count = [t \in Tags |-> 0]

Exists(j) == tags[j] # NoHash
Has(j, t) == Exists(j) /\ tags[j][t] > 0

\* zadd of j to ql:t:<tag> and zincrby of ql:tags, for every entry of the list A.
Index(j, A) ==
    /\ tagged' = [t \in Tags |-> IF A[t] > 0 THEN tagged[t] \cup {j} ELSE tagged[t]]
    /\ count' = [t \in Tags |-> count[t] + A[t]]

\* Mutant of Unindex: the common tags are not updated.
UnindexSilent(j, A) ==
    /\ tagged' = [t \in Tags |-> IF A[t] > 0 THEN tagged[t] \ {j} ELSE tagged[t]]
    /\ UNCHANGED count

\* zrem and zincrby by -1, for every entry of A.
Unindex(j, A) ==
    /\ tagged' = [t \in Tags |-> IF A[t] > 0 THEN tagged[t] \ {j} ELSE tagged[t]]
    /\ count' = [t \in Tags |-> count[t] - A[t]]

\* put with the "tags" option, or spawning a recurring job: the new list replaces the
\* old one in the hash, which nobody unindexes.
PutTagged(j, A) ==
    /\ tags' = [tags EXCEPT ![j] = A]
    /\ Index(j, A)

\* put without the option keeps the tags, and counts them again (put.lua:48, 98-101).
PutAgain(j) ==
    /\ Exists(j)
    /\ Index(j, tags[j])
    /\ UNCHANGED tags

\* tag add: what the hash had before the call decides which entries are appended, but
\* every entry is indexed.
TagAdd(j, A) ==
    /\ Exists(j)
    /\ tags' = [tags EXCEPT ![j] = [t \in Tags |-> IF tags[j][t] = 0 THEN A[t] ELSE tags[j][t]]]
    /\ Index(j, A)

\* Mutant of TagRemove: the hash keeps its tags.
TagRemoveIndexOnly(j, A) ==
    /\ Exists(j)
    /\ UNCHANGED tags
    /\ Unindex(j, A)

\* Mutant of TagRemove: as many entries as the call names, found or not.
TagRemoveCounted(j, A) ==
    /\ Exists(j)
    /\ tags' = [tags EXCEPT ![j] = [t \in Tags |-> tags[j][t] - A[t]]]
    /\ Unindex(j, A)

\* tag remove: no entry is looked up before it is unindexed.
TagRemove(j, A) ==
    /\ Exists(j)
    /\ tags' = [tags EXCEPT ![j] = [t \in Tags |-> IF A[t] > 0 THEN 0 ELSE tags[j][t]]]
    /\ Unindex(j, A)

\* cancel, and complete when it forgets old jobs.
Delete(j) ==
    /\ Exists(j)
    /\ tags' = [tags EXCEPT ![j] = NoHash]
    /\ Unindex(j, tags[j])

TagsNext ==
    /\ \E j \in Jobs :
         \/ \E A \in Lists : PutTagged(j, A) \/ TagAdd(j, A) \/ TagRemove(j, A)
         \/ PutAgain(j)
         \/ Delete(j)
    /\ \A t \in Tags : count'[t] \in -MaxCount .. MaxCount

TagsSpec == TagsInit /\ [][TagsNext]_tagVars

\* Clients that put a job once, tag it with what it does not have and untag what it has.
CarefulNext ==
    \E j \in Jobs :
      \/ \E A \in Lists :
           /\ \A t \in Tags : A[t] <= 1
           /\ \/ ~Exists(j) /\ PutTagged(j, A)
              \/ (\A t \in Tags : A[t] > 0 => ~Has(j, t)) /\ TagAdd(j, A)
              \/ (\A t \in Tags : A[t] > 0 => Has(j, t)) /\ TagRemove(j, A)
      \/ Delete(j)

CarefulSpec == TagsInit /\ [][CarefulNext]_tagVars
-----------------------------------------------------------------------------
\* tag get finds every job that has the tag: no order of puts, tags, cancels and forgetting
\* takes a job out of the index of a tag its hash still names.
TaggedFound == \A j \in Jobs, t \in Tags : Has(j, t) => j \in tagged[t]

\* With careful clients the index has no other jobs, and ql:tags, from which tag top answers,
\* counts exactly them.
CountsExact ==
    \A t \in Tags :
      /\ tagged[t] = {j \in Jobs : Has(j, t)}
      /\ count[t] = Cardinality(tagged[t])

\* No list names a tag twice.
Single == \A j \in Jobs, t \in Tags : Exists(j) => tags[j][t] \in {0, 1}

\* The writes of put, tag, untag, cancel and the trimming of history match: from a state with
\* exact counts, however other clients led to it, no careful call leads to wrong ones.
CarefulKeepsExact ==
    [][CountsExact /\ Single /\ ~CountsExact' => ~CarefulNext]_tagVars
=============================================================================
