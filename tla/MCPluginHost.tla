---------------------------- MODULE MCPluginHost ----------------------------
(* A small instance of PluginHost. *)
EXTENDS PluginHost

MCRegistered == <<"c", "d">>
=============================================================================
