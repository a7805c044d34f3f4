-------------------------- MODULE MCParserService --------------------------
(* Model-checking instance of ParserService. *)
EXTENDS ParserService
=============================================================================
