---------------------------- MODULE MCEntrypoint ----------------------------
(* Instances of Entrypoint for TLC.                                        *)
EXTENDS Entrypoint

CONSTANTS d1, d2

MCDatabases == {d1, d2}

MCSelections == {Absent, <<>>, <<d1>>, <<d1, d2>>}

(* Every load_method, with the switches that bear on it.                   *)
MCConfigs ==
    {c \in Config :
       /\ c.resume => c.method \in {"full", "hash_diff"}
       /\ c.parent => c.method = "incremental"
       /\ c.method # "full_by_source" => c.multi = "unset"
       /\ ~c.named => c.method = "full_by_source"}

(* Probed, with and without ssh to fall back on; ssh alone; and a section  *)
(* that validate refuses.                                                  *)
MCSourceDbs ==
    {[mode |-> "auto", host |-> TRUE, ssh |-> TRUE],
     [mode |-> "auto", host |-> TRUE, ssh |-> FALSE],
     [mode |-> "ssh", host |-> FALSE, ssh |-> TRUE],
     [mode |-> "direct", host |-> FALSE, ssh |-> FALSE]}

(* Every configuration over a probed source; every source under two.       *)
MCPipelines ==
    {p \in MCConfigs \X MCSourceDbs :
       \/ p[2].mode = "auto" /\ ~p[2].ssh
       \/ p[1].multi = "yes" /\ p[1].named
       \/ p[1].method = "full" /\ ~p[1].resume}
=============================================================================
