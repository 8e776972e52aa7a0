----------------------------- MODULE MCNavigation -----------------------------
(* Every pair of options; the configuration redirects c to b.              *)
EXTENDS Navigation

AllModes == [resolution : {"replace", "computed"}, update : {"deferred", "eager"}]
MCTarget == [u \in Url |-> IF u = "c" THEN "b" ELSE u]
===============================================================================
