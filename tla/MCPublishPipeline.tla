------------------------- MODULE MCPublishPipeline -------------------------
(***************************************************************************)
(* Instances of PublishPipeline for TLC: the cfg files name the events,    *)
(* the adapters and the sessions as model values.                          *)
(***************************************************************************)
EXTENDS PublishPipeline

============================================================================
