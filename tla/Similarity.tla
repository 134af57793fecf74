----------------------------- MODULE Similarity ----------------------------
(***************************************************************************)
(* Distances and scores: which metric an index is built with               *)
(* (vs_index/usearch.rs), what the library returns for it, which distances *)
(* are accepted (distance.rs) and the score they become (similarity.rs).   *)
(*                                                                         *)
(* A vector is [len, v]: len components, all equal to the integer v.  A    *)
(* score is a fraction <<numerator, denominator>>.                         *)
(***************************************************************************)
EXTENDS Integers, Sequences

\* Binary vectors have a metric of their own, whatever the space type says;
\* <<>> when there is none.
MetricKind(quantization, spaceType) ==
    IF quantization = "b1" THEN <<"hamming">>
    ELSE CASE spaceType = "cosine" -> <<"cos">>
           [] spaceType = "euclidean" -> <<"l2sq">>
           [] spaceType = "dot_product" -> <<"ip">>
           [] spaceType = "hamming" -> <<>>

SpaceTypeOf(metric) ==
    CASE metric = "cos" -> "cosine"
      [] metric = "l2sq" -> "euclidean"
      [] metric = "ip" -> "dot_product"
      [] metric = "hamming" -> "hamming"

\* f32_to_b1x8: one bit per component.
ToBits(x) == [x EXCEPT !.v = IF x.v > 0 THEN 1 ELSE 0]

\* What is stored, and what is searched for.  The integers here are exact in
\* 32 and in 16 bits; the scaling of i8 is not modelled.
Stored(quantization, x) == IF quantization = "b1" THEN ToBits(x) ELSE x

\* The metrics of the library.
LibraryDistance(metric, x, y) ==
    CASE metric = "l2sq" -> x.len * (x.v - y.v) * (x.v - y.v)
      [] metric = "ip" -> 1 - x.len * x.v * y.v
      [] metric = "cos" -> IF x.v = 0 /\ y.v = 0 THEN 0
                           ELSE IF x.v * y.v = 0 THEN 1
                           ELSE IF x.v * y.v > 0 THEN 0 ELSE 2
      [] metric = "hamming" -> IF x.v = y.v THEN 0 ELSE x.len

\* Distance::try_from: <<>> for a distance that is refused.
Distance(value, spaceType, dimensions) ==
    LET ok == CASE spaceType = "cosine" -> value \in 0..2
                [] spaceType = "euclidean" -> value >= 0
                [] spaceType = "dot_product" -> TRUE
                [] spaceType = "hamming" -> value \in 0..dimensions
    IN  IF ok THEN <<[space |-> spaceType, value |-> value, dimensions |-> dimensions]>>
        ELSE <<>>

SimilarityScore(d) ==
    CASE d.space \in {"cosine", "dot_product"} -> <<2 - d.value, 2>>
      [] d.space = "euclidean" -> <<1, 1 + d.value>>
      [] d.space = "hamming" -> <<d.dimensions - d.value, d.dimensions>>

\* embedding_dimensions
EmbeddingDimensions(x, dimensions) == x.len # 0 /\ x.len = dimensions

\* ThreadedUsearchIndex::search, for one row
SearchDistance(options, x, query) ==
    LET metric == MetricKind(options.quantization, options.spaceType)[1]
        value == LibraryDistance(metric, Stored(options.quantization, x),
                                 Stored(options.quantization, query))
    IN  Distance(value, SpaceTypeOf(metric), query.len)

\* ThreadedUsearchIndex::get_vector: what is stored is what is returned.
GetVector(options, x) == Stored(options.quantization, x)
=============================================================================
