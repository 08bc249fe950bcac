---------------------------- MODULE MCTerraform -----------------------------
(***************************************************************************)
(* An instance of TerraformInventory for TLC.  One state is of version 4   *)
(* and has up to two OpenStack instances and one floating IP, which may go *)
(* from one to the other.  The other state has an instance of a second     *)
(* cluster with the name of one of the first, or, in version 3, a device   *)
(* of Equinix or an instance of another name.                              *)
(***************************************************************************)
EXTENDS TerraformInventory

S(x) == [s |-> x]
L(x) == [l |-> x]
D(x) == [d |-> x]

Instance(name, own, port, fixed, metadata, secgroups) ==
    [type |-> "openstack_compute_instance_v2",
     attributes |-> D(
        ("name" :> S(name) @@ "access_ip_v4" :> S(own) @@ "access_ip_v6" :> S("[6::1]")
         @@ "image_id" :> S("ubuntu") @@ "flavor_name" :> S("m1") @@ "metadata" :> D(metadata)
         @@ "security_groups" :> L(secgroups)
         @@ "network" :> L(<<D("port" :> S(port) @@ "fixed_ip_v4" :> S(fixed))>>)))]

Association(port) ==
    [type |-> "openstack_networking_floatingip_associate_v2",
     attributes |-> D("port_id" :> S(port) @@ "floating_ip" :> S("float"))]

Master == Instance("node1", "ip1", "port1", "ip1",
                   "kubespray_groups" :> S("etcd,kube-master") @@ "use_access_ip" :> S("0"),
                   <<S("k8s"), S("k8s-master")>>)
Worker == Instance("node2", "ip2", "port2", "ip2",
                   "kubespray_groups" :> S("kube_node,") @@ "prefer_ipv6" :> S("1"), <<>>)
Other == Instance("node1", "ip3", "port3", "ip3", "ssh_user" :> S("core"), <<S("k8s")>>)

Device ==
    [type |-> "equinix_metal_device",
     primary |->
        <<"hostname">> :> "node3" @@ <<"network", "0", "address">> :> "ip4"
        @@ <<"network", "2", "address">> :> "ip5" @@ <<"operating_system">> :> "flatcar_stable"
        @@ <<"locked">> :> "false" @@ <<"state">> :> "active" @@ <<"plan">> :> "c3"
        @@ <<"tags", "#">> :> "1" @@ <<"tags", "0">> :> "kube-master"]

Flat ==
    [type |-> "openstack_compute_instance_v2",
     primary |->
        <<"name">> :> "node4" @@ <<"access_ip_v4">> :> "ip6" @@ <<"access_ip_v6">> :> "[6::1]"
        @@ <<"image_id">> :> "ubuntu" @@ <<"flavor_name">> :> "m1"
        @@ <<"network", "0", "port">> :> "port4" @@ <<"network", "0", "fixed_ip_v4">> :> "ip6"
        @@ <<"metadata", "%">> :> "2" @@ <<"metadata", "prefer_ipv6">> :> "1"
        @@ <<"metadata", "kubespray_groups">> :> "kube_node,"
        @@ <<"security_groups", "#">> :> "1" @@ <<"security_groups", "123">> :> "k8s"]

Version4(resources) == [version |-> 4, resources |-> resources]

FirstCluster ==
    {Version4(rs) : rs \in
        {<<>>, <<Master>>, <<Worker>>, <<Master, Worker>>,
         <<Master, Worker, Association("port1")>>, <<Master, Worker, Association("port2")>>,
         <<Master, Association("port1")>>, <<Worker, Association("port2")>>}}

SecondCluster ==
    {Version4(<<Other>>), [version |-> 3, resources |-> <<Device>>],
     [version |-> 3, resources |-> <<Flat>>]}

(* The attributes in a version 4 state, and the elements of their lists.   *)
Written4 == {r.attributes : r \in UNION {Range(s.resources) :
                s \in {t \in FirstCluster \cup SecondCluster : t.version = 4}}}
Listed(a) == UNION {Range(a.d[k].l) : k \in {j \in DOMAIN a.d : DOMAIN a.d[j] = {"l"}}}
Nesting == [a \in Written4 \cup UNION {Listed(b) : b \in Written4} |->
               IF a \in Written4 THEN 1 ELSE 0]

Digits == <<"0", "1", "2">>

TwoFiles == {"first", "second"}
TwoClusters == [first |-> FirstCluster, second |-> SecondCluster]

Split == ("" :> {""}) @@ ("etcd,kube-master" :> {"etcd", "kube-master"})
            @@ ("kube_node," :> {"kube_node", ""})
Clean == "kube-master" :> "kube_master"
Strip == "[6::1]" :> "6::1"
=============================================================================
