--------------------------- MODULE MCReaderManager ---------------------------
(* TLC instance of ReaderManager: the configuration gives every constant its *)
(* value itself.                                                             *)
EXTENDS ReaderManager
=============================================================================
