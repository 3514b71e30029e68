---- MODULE MCAccounts ----
(* Users, requests and helpers given by the configuration.                 *)
EXTENDS Accounts
====
