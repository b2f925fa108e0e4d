--------------------------- MODULE MCGenerationJobs ---------------------------
(* Instances of GenerationJobs for TLC. *)
EXTENDS GenerationJobs, TLC

CONSTANTS j1, j2, g1, w1, w2, TextLimit, ImageLimit

MCLimit == [k \in {"text", "image"} |-> IF k = "text" THEN TextLimit ELSE ImageLimit]
===============================================================================
