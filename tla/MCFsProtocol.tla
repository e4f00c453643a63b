---------------------------- MODULE MCFsProtocol ----------------------------
(* Model checking of FsProtocol on bounded instances; see the .cfg files.  *)
EXTENDS FsProtocol
=============================================================================
