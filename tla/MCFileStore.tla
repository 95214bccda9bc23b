---------------------------- MODULE MCFileStore ----------------------------
EXTENDS FileStore, TLC
\* A directory of each user, which stands for the user, too.
MCOwnerOf == [d \in Directories |-> d]
\* One store alone; a second to read from, to write to, or both, strictly or not; and
\* one that the storage class does not see.
MCOffered ==
  {s \in Settings :
     IF s.seen THEN (s.fallback \/ s.strict) /\ (s.strict => s.both)
     ELSE s.both = s.given /\ s.fallback = s.given /\ ~s.strict}
Symmetric ==
  Permutations(Stores) \cup Permutations(Requests) \cup Permutations(FileNames)
    \cup Permutations(Directories)
=============================================================================
