---------------------------- MODULE MCImagePull ----------------------------
(* ImagePull on small instances.                                             *)
EXTENDS ImagePull
=============================================================================
