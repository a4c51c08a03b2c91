-------------------------- MODULE MCProviderStatus --------------------------
(* VMs for TLC.  1 is a link-local address; 2, 3 and 4 are usable.         *)
EXTENDS ProviderStatus

Ipv4(static, learned) == [static |-> static, learned |-> learned]
Nothing == Ipv4(None, <<>>)

Nic(oneOf, info, old) == [oneOf |-> oneOf, info |-> info, old |-> old]

SmallNics ==
    { Nic("ethernet", Ipv4(None, <<4, 1, 2>>), Ipv4(3, <<>>)),
      Nic("dpOffload", Ipv4(1, <<Empty, 3>>), Nothing),
      Nic("ethernet", Ipv4(3, <<2>>), Nothing),
      Nic("sriov", Ipv4(None, <<>>), Ipv4(None, <<2, None>>)),
      Nic("none", Nothing, Nothing) }

NicLists == SeqOf(SmallNics, 2)

\* Every list of up to two NICs, in the answer of Get or, when that shows no
\* address, in the one of ListNicsByVmId.
NetVMs ==
    [nics : NicLists, listed : {<<>>}, listFails : {FALSE}] \cup
    [nics : {<<>>, <<Nic("none", Nothing, Nothing)>>}, listed : NicLists, listFails : BOOLEAN]

Cluster(id, name, functions) == [id |-> id, name |-> name, functions |-> functions]
SmallClusters ==
    { Cluster("c1", "pe", {"AOS"}), Cluster("c2", "central", {"PRISM_CENTRAL"}),
      Cluster("c3", None, {"PRISM_CENTRAL"}), Cluster(None, "odd", {"PRISM_CENTRAL"}),
      Cluster("c4", "", {}) }

On(net, name, clusters, pe, getFails, power) ==
    [ name |-> name, nics |-> net.nics, listed |-> net.listed, listFails |-> net.listFails,
      clusters |-> clusters, pe |-> pe, getFails |-> getFails, power |-> power ]

Usual == <<Cluster("c1", "pe", {"AOS"}), Cluster("c2", "central", {"PRISM_CENTRAL"})>>

Plain == [nics |-> <<>>, listed |-> <<>>, listFails |-> FALSE]

\* Every sort of network with the usual clusters, those of at most one NIC
\* also for a VM without a name, every list of up to two clusters, every
\* answer about the VM's own cluster and its power state.
SmallVMs ==
    { On(net, "vm", Usual, "c1", FALSE, "ON") : net \in NetVMs } \cup
    { On(net, "", Usual, "c1", FALSE, "ON") :
        net \in {n \in NetVMs : Len(n.nics) + Len(n.listed) <= 1} } \cup
    { On(Plain, "vm", cs, "c1", FALSE, "ON") : cs \in SeqOf(SmallClusters, 2) } \cup
    { On(Plain, None, Usual, pe, fails, power) :
        pe \in {None, "c1", "c4"}, fails \in BOOLEAN, power \in {"ON", "OFF", None} }
=============================================================================
