----------------------------- MODULE MCDirListing -----------------------------
(* Instances of DirListing for TLC. *)
EXTENDS DirListing

CONSTANTS a, b, c, dangling, raw, long
=============================================================================
