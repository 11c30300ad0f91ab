----------------------------- MODULE MCKwpClient -----------------------------
(* Two identifiers or two components, replies of one frame and of three.      *)
EXTENDS KwpClient
=============================================================================
