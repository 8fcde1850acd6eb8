----------------------- MODULE MCApplicationPipeline -----------------------
(* TLC instance of ApplicationPipeline.                                     *)
EXTENDS ApplicationPipeline, TLC
=============================================================================
