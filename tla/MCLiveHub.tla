---- MODULE MCLiveHub ----
(* Users, connections, directories and revokers given by the configuration. *)
EXTENDS LiveHub
====
