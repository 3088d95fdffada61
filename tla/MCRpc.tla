------------------------------- MODULE MCRpc --------------------------------
(* Instances of Rpc for TLC. *)
EXTENDS Rpc, TLC

Symmetry == Permutations(Callers) \cup Permutations(Workers)

\* The loop at the end of update_xid_rep: front[i] is where the list starts once the
\* iterator has passed element i.
CompressLoop(w) ==
  LET front[i \in 1..Len(w)] ==
        IF i = 1 THEN 1 ELSE Min({j \in front[i - 1]..i : w[j] + 1 # w[i]})
  IN  SubSeq(w, front[Len(w)], Len(w))

\* On every sorted list of up to five xids, repetitions included, Compressed is what the
\* loop leaves.
ASSUME CompressedIsLoop ==
  \A n \in 1..5 : \A w \in [1..n -> 0..4] :
    (\A i \in 1..n - 1 : w[i] <= w[i + 1]) => Compressed(w) = CompressLoop(w)
=============================================================================
