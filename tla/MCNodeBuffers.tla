--------------------------- MODULE MCNodeBuffers ----------------------------
EXTENDS NodeBuffers

\* Lists of up to two sources: of the reads, up to two are of a task that runs
\* later, or one is of the task that reads.
UpToTwo == {<<>>} \cup {<<i>> : i \in Task} \cup {pair \in Task \X Task : pair[1] <= pair[2]}
Later(r) == {e \in Task \X (1..2) : e[2] \in DOMAIN r[e[1]] /\ r[e[1]][e[2]] > e[1]}
Own(r) == {e \in Task \X (1..2) : e[2] \in DOMAIN r[e[1]] /\ r[e[1]][e[2]] = e[1]}
UpToTwoReads == {r \in [Task -> UpToTwo] : Cardinality(Later(r)) + 2 * Cardinality(Own(r)) <= 2}

\* A pointer or an offset from before matters only where it is read.
KnownWhereRead ==
  phase = "get" /\ task = 1 =>
    \A j \in Task : node_output[j] = Offset(0) \/ \E e \in Later(reads) : reads[e[1]][e[2]] = j
=============================================================================
