----------------------------- MODULE MCSampler -----------------------------
(* A small instance of Sampler: four URLs on one host (b may be a with a    *)
(* fragment: the links of the two may be equal) and one elsewhere, with any *)
(* links and fetch outcomes, and a repeated seed.                           *)
EXTENDS Sampler

CONSTANTS a, b, c, d, x

MCUrls == {a, b, c, d, x}
MCHostOf == [u \in MCUrls |-> IF u = x THEN "other" ELSE "site"]
MCSeeds == <<a, a>>
MCPages == {<<>>, <<x, b>>, <<b, b, x, c>>, <<d, a>>}
=============================================================================
