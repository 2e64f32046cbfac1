--------------------------- MODULE MCEditWorkload ---------------------------
(***************************************************************************)
(* Six edges with two triangles and a cycle, in an order that leaves a     *)
(* vertex's list unsorted, in all formats and tools.  With four batches    *)
(* the last of the text is empty, with five the dividing runs out of the   *)
(* edges.                                                                  *)
(***************************************************************************)
EXTENDS EditWorkload

EdgesMC == <<<<0, 2>>, <<0, 1>>, <<1, 2>>, <<1, 3>>, <<2, 3>>, <<3, 0>>>>

JobOf(tool, batches, pre, checked, size, format, algo, src) ==
  [tool |-> tool, num_batches |-> batches, pre |-> pre, checked |-> checked,
   num_vertices |-> size, format |-> format, algo |-> algo, bfs_src |-> src]

Large(formats, algos) ==
  {JobOf("large", b, p, FALSE, 0, f, a, s) :
     b \in {2, 4}, p \in {0, 3}, f \in formats, a \in algos, s \in {0, 3}}

Text(formats, algos) ==
  {JobOf("text", b, 0, c, 3, f, a, s) :
     b \in {2, 4, 5}, c \in BOOLEAN, f \in formats, a \in algos, s \in {0, 3}}

Formats == {"adj", "csr", "lccsr", "lscsr", "morph"}

\* Without the triangle count on CSR, which MCEditWorkload_csr looks at.
JobsMC ==
  LET all == Large(Formats, {"nop", "bfs", "tc"}) \cup Text(Formats, {"nop", "bfs", "tc"})
  IN {j \in all : ~(j.format = "csr" /\ j.algo = "tc") /\ (j.algo # "bfs" => j.bfs_src = 0)}

JobsCSR == Large({"csr"}, {"tc"}) \cup Text({"csr"}, {"tc"})

\* Texts for MCEditWorkload_points, which counts the runs.
JobsPoints == {j \in Text({"adj"}, {"nop"}) : j.bfs_src = 0}
=============================================================================
