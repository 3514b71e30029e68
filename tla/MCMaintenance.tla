---- MODULE MCMaintenance ----
(* Two servers race for the PID file of an empty instance; with contents, one server is
   there at a time.  Once there is a backup, nobody stops it with a command, it leaves no
   PID file behind, and it or the mounts are used, not both. *)
EXTENDS Maintenance, TLC
Symmetric == Permutations(Inodes) \cup Permutations(Servers)
Empty ==
  /\ objs = {} /\ db = {} /\ Content = {} /\ ~spool /\ mounts = "down"
  /\ bundle = NoBundle /\ cmd = IdleCmd
Instance ==
  /\ Cardinality({s \in Servers : Pc(s) # "down"}) > 1 => Empty
  /\ bundle # NoBundle =>
       /\ ctl.pc = "idle" /\ (file # None => \E s \in Servers : Pc(s) # "down")
       /\ (mounts # "down" => \A s \in Servers : Pc(s) = "down")
====
