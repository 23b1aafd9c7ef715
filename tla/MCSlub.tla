------------------------------- MODULE MCSlub -------------------------------
(* Instances of Slub for TLC.                                              *)
EXTENDS Slub

(* The two largest caches: three objects and one object per slab.          *)
BigCaches == {1024, 2048}

(* Cache boundaries, and the largest size that fits one page.              *)
EdgeSizes == {1024, 1025, 4048, 4049}

=============================================================================
