---------------------------- MODULE MCYaraScans ----------------------------
(* YaraScans for TLC. *)
EXTENDS YaraScans

=============================================================================
