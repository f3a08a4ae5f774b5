--------------------------- MODULE MCDescriptions ---------------------------
(* Instances of DescriptionLifecycle for TLC. *)
EXTENDS DescriptionLifecycle

BareRows == {Bare}
EveryRow == {Bare, [source |-> "generated", status |-> "ok", described |-> 0],
             [source |-> "none", status |-> "failed", described |-> 0],
             [source |-> "manual", status |-> "ok", described |-> 0]}
=============================================================================
