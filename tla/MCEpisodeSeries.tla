--------------------------- MODULE MCEpisodeSeries ---------------------------
(* Instances of EpisodeSeries for TLC.                                       *)
EXTENDS EpisodeSeries
=============================================================================
