-------------------------- MODULE MCEpisodePipeline --------------------------
(* Instances of EpisodePipeline for TLC.                                     *)
EXTENDS EpisodePipeline
=============================================================================
