------------------------------ MODULE MCPlacement ------------------------------
(* Placement for two servers, three hosts in two clusters, and two datastores. *)
EXTENDS Placement, TLC

CONSTANTS s1, s2, h1, h2, h3, d1, d2, c1

MCRequest ==
    s1 :> [hosts |-> {}, clusters |-> {}, stores |-> {}, pool |-> "pool",
           nets |-> {"net"}, cpus |-> 1, memory |-> 2, committed |-> 1,
           uncommitted |-> 2]
    @@ s2 :> [hosts |-> {h1, h2}, clusters |-> {c1}, stores |-> {d1}, pool |-> "pool",
              nets |-> {"net"}, cpus |-> 2, memory |-> 1, committed |-> 1,
              uncommitted |-> 0]

MCHost(cluster, nets, threads, memory, stores) ==
    [usable |-> TRUE, cluster |-> cluster, pools |-> {"pool"}, nets |-> nets,
     threads |-> threads, memory |-> memory, stores |-> stores]

\* Datastore d2 may be mounted later; h3 stands alone.
MCWorlds ==
    {[host |-> h1 :> MCHost(c1, {"net"}, 4, m1, {d1})
               @@ h2 :> MCHost(c1, n2, 2, 4, {d1, d2})
               @@ h3 :> MCHost(NoCluster, {"net"}, 8, 3, {d2}),
      load |-> h1 :> [cpus |-> 1, memory |-> 1]
            @@ h2 :> [cpus |-> 0, memory |-> 0]
            @@ h3 :> [cpus |-> 2, memory |-> 2],
      store |-> d1 :> [exists |-> TRUE, healthy |-> TRUE, free |-> f1]
             @@ d2 :> [exists |-> e2, healthy |-> w2, free |-> f2]] :
        m1 \in {2, 6}, n2 \in {{}, {"net"}}, e2 \in BOOLEAN,
        w2 \in BOOLEAN, f1 \in {2, 4, 5}, f2 \in {4, 6}}

=============================================================================
