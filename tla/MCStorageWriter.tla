-------------------------- MODULE MCStorageWriter --------------------------
(***************************************************************************)
(* An instance of StorageWriter for TLC.                                   *)
(***************************************************************************)
EXTENDS StorageWriter

\* The third event comes before the second in the order of source and hash, and ties
\* with the first: after a log that could not be recovered they may have one id.
MCSourceAndHash == <<1, 2, 1>>
=============================================================================
