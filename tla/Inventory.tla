----------------------------- MODULE Inventory -----------------------------
(***************************************************************************)
(* The inventory file that contrib/inventory_builder/inventory.py writes,  *)
(* over a sequence of its invocations.  One invocation is a step: it loads *)
(* the file if asked to, changes the hosts, puts hosts into groups and     *)
(* writes the file; "load" makes the file from JSON documents instead.     *)
(*                                                                         *)
(* A host name is a number: 1 .. MaxId stand for HOST_PREFIX followed by   *)
(* that number, larger ones for names with another prefix.  The order of   *)
(* the hosts is that of the file.                                          *)
(***************************************************************************)
EXTENDS Naturals, Sequences, FiniteSets, SequencesExt

CONSTANTS
    IPs,                    \* addresses of machines
    NoIP,                   \* what a host has whose options hold no address
    MaxId,                  \* bound: the highest number of a generated name
    HostNames,              \* names, 1 .. MaxId among them
    Requests,               \* argument lists that a user may give
    Documents,              \* lists of JSON files that a user may load
    KubeControlHosts,       \* KUBE_CONTROL_HOSTS
    ScaleThreshold,         \* SCALE_THRESHOLD
    MassiveScaleThreshold   \* MASSIVE_SCALE_THRESHOLD

(* An argument: an address, "name,address", a name, "-name" or "-address". *)
Arguments ==
    [op : {"ip", "del_ip"}, ip : IPs]
        \cup [op : {"bare", "del_name"}, name : HostNames]
        \cup [op : {"named"}, name : HostNames, ip : IPs]

(* A file to load: hosts under groups, in the order of the file, if it is  *)
(* JSON at all.                                                            *)
Groups == {"all", "etcd", "kube_control_plane", "kube_node", "calico_rr"}

ASSUME NoIPAssumption == NoIP \notin IPs
ASSUME NamesAssumption ==
    MaxId \in Nat /\ HostNames \subseteq Nat /\ 1 .. MaxId \subseteq HostNames
ASSUME RequestsAssumption == Requests \subseteq Seq(Arguments) \ {<<>>}
ASSUME DocumentsAssumption ==
    /\ Documents \subseteq
          Seq([json : BOOLEAN,
               entries : Seq([group : Groups, name : HostNames, ip : IPs])])
    /\ \A docs \in Documents : docs # <<>>
ASSUME ThresholdsAssumption ==
    /\ KubeControlHosts \in Nat /\ ScaleThreshold \in Nat
    /\ MassiveScaleThreshold \in Nat /\ ScaleThreshold <= MassiveScaleThreshold

VARIABLES
    written,             \* the file exists
    hosts,               \* all:hosts, as a sequence of [name, ip]
    etcd, kube_control_plane, kube_node, calico_rr,   \* the groups
    command,             \* history: the last invocation
    past                 \* history: the file was "loaded", had hosts "deleted"

groups == <<etcd, kube_control_plane, kube_node, calico_rr>>
vars == <<written, hosts, groups, command, past>>

NamesOf(hs) == {hs[i].name : i \in DOMAIN hs}
IPsOf(hs) == {hs[i].ip : i \in DOMAIN hs}

(* The hosts that are called one of names, in their order.                 *)
Only(hs, names) ==
    LET upTo[i \in 0 .. Len(hs)] ==
            IF i = 0 THEN <<>>
            ELSE IF hs[i].name \in names THEN Append(upTo[i - 1], hs[i])
            ELSE upTo[i - 1]
    IN  upTo[Len(hs)]

Init ==
    /\ written = FALSE
    /\ hosts = <<>>
    /\ etcd = {} /\ kube_control_plane = {} /\ kube_node = {} /\ calico_rr = {}
    /\ command = [load |-> FALSE, ops |-> {}, asked |-> {}]
    /\ past = {}

-----------------------------------------------------------------------------
(* build_hostnames.  Its hosts are a Python dict: assigning to a name that *)
(* is there changes the entry in its place.                                *)

(* Mutant: the fields of a new host are swapped.                           *)
PutHost_Swapped(hs, n, a) == Append(hs, [name |-> a, ip |-> n])

PutHost(hs, n, a) ==
    IF n \in NamesOf(hs)
    THEN [i \in DOMAIN hs |->
             IF hs[i].name = n THEN [name |-> n, ip |-> a] ELSE hs[i]]
    ELSE Append(hs, [name |-> n, ip |-> a])

(* Mutant: the highest number is used again.                               *)
NextId_Reused(hs) ==
    Max({1} \cup {n \in NamesOf(hs) : n <= MaxId})

NextId(hs) ==
    1 + Max({0} \cup {n \in NamesOf(hs) : n <= MaxId})

(* exists_ip goes through the hosts in their order: it finds the address,  *)
(* or comes first to a host without one, which is an error.                *)
Found(hs, a) ==
    \E i \in DOMAIN hs : hs[i].ip = a /\ \A j \in 1 .. (i - 1) : hs[j].ip # NoIP
Raises(hs, a) == NoIP \in IPsOf(hs) /\ ~Found(hs, a)

Failed(acc) == [acc EXCEPT !.error = TRUE]

(* An argument that adds a host (name, ip) unless a host has the address.  *)
(* The name and the address stay in the function's variables.              *)
(* Mutant: an address is looked for among the hosts of the file only.      *)
AddHost_Stale(old, acc, n, a) ==
    IF Raises(old, a) THEN Failed(acc)
    ELSE IF Found(old, a) THEN acc
    ELSE [acc EXCEPT !.hs = PutHost(@, n, a)]

AddHost(old, acc, n, a) ==
    IF Raises(acc.hs, a) THEN Failed(acc)
    ELSE IF Found(acc.hs, a) THEN acc
    ELSE [acc EXCEPT !.hs = PutHost(@, n, a)]

(* A name alone that no host has: the variables are those of an earlier    *)
(* argument, and it is an error to use one that was not given a value.     *)
AddBare(old, acc) ==
    LET a == CHOOSE x \in acc.ip : TRUE
    IN  IF acc.ip # {} /\ acc.hostname # {}
        THEN AddHost(old, acc, CHOOSE n \in acc.hostname : TRUE, a)
        ELSE IF acc.ip # {} /\ Found(acc.hs, a) THEN acc
        ELSE Failed(acc)

(* delete_host_by_ip: the first host that has the address.                 *)
DeleteByIp(hs, a) ==
    LET first == CHOOSE i \in DOMAIN hs :
                     hs[i].ip = a /\ \A j \in 1 .. (i - 1) : hs[j].ip # a
    IN  Only(hs, NamesOf(hs) \ {hs[first].name})

(* One argument.  A name to delete that no host has is looked for as an    *)
(* address.  A named host is looked for under "name,ip", which no host is  *)
(* called, so that only its address can make it a known one.               *)
Process(old, acc, arg) ==
    CASE arg.op = "del_name" /\ arg.name \in NamesOf(acc.hs) ->
           [acc EXCEPT !.hs = Only(@, NamesOf(@) \ {arg.name})]
      [] arg.op = "del_name" /\ arg.name \notin NamesOf(acc.hs) ->
           [acc EXCEPT !.error = NoIP \in IPsOf(acc.hs)]
      [] arg.op = "del_ip" /\ Found(acc.hs, arg.ip) ->
           [acc EXCEPT !.hs = DeleteByIp(@, arg.ip)]
      [] arg.op = "del_ip" /\ ~Found(acc.hs, arg.ip) ->
           [acc EXCEPT !.error = NoIP \in IPsOf(acc.hs)]
      [] arg.op = "ip" ->
           [AddHost(old, acc, acc.next, arg.ip) EXCEPT
               !.next = IF Found(acc.hs, arg.ip) THEN @ ELSE @ + 1,
               !.ip = {arg.ip}]
      [] arg.op = "named" ->
           [AddHost(old, acc, arg.name, arg.ip) EXCEPT
               !.hostname = {arg.name}, !.ip = {arg.ip}]
      [] arg.op = "bare" /\ arg.name \notin NamesOf(acc.hs) -> AddBare(old, acc)
      [] OTHER -> acc

BuildHostnames(old, args) ==
    LET built[i \in 0 .. Len(args)] ==
            IF i = 0
            THEN [hs |-> old, next |-> NextId(old), hostname |-> {}, ip |-> {},
                  error |-> FALSE]
            ELSE LET acc == built[i - 1]
                 IN  IF acc.error THEN acc ELSE Process(old, acc, args[i])
    IN  built[Len(args)]

(* purge_invalid_hosts and set_all: the names that stay keep their place   *)
(* in the file, even if build_hostnames has moved them to the end.         *)
InFile(old, new) ==
    LET PlaceOf(n) == CHOOSE i \in DOMAIN new : new[i].name = n
        kept == Only(old, NamesOf(new))
    IN  [i \in DOMAIN kept |-> new[PlaceOf(kept[i].name)]]
            \o Only(new, NamesOf(new) \ NamesOf(old))

-----------------------------------------------------------------------------
(* The groups.  A host that is in a group stays there: it only leaves with *)
(* the inventory. *)

Purged(group, new) == group \cap NamesOf(new)

(* Names of the hosts at places a .. b, as far as there are any.           *)
Slice(hs, a, b) == {hs[i].name : i \in (a .. b) \cap DOMAIN hs}

FirstNames(hs, k) == Slice(hs, 1, k)

EtcdHostsCount(hs) == IF Len(hs) >= 3 THEN 3 ELSE 1

(* Mutants: the group is replaced; there are as many etcd hosts as fit.    *)
SetEtcd_Replace(group, hs) == FirstNames(hs, EtcdHostsCount(hs))
SetEtcd_Even(group, hs) == group \cup FirstNames(hs, 3)

SetEtcd(group, hs) == group \cup FirstNames(hs, EtcdHostsCount(hs))

SetKubeControlPlane(group, hs) ==
    group \cup
        IF Len(hs) >= ScaleThreshold
        THEN Slice(hs, EtcdHostsCount(hs) + 1, EtcdHostsCount(hs) + KubeControlHosts)
        ELSE FirstNames(hs, KubeControlHosts)

SetKubeNode(group, hs, etcdNow, masters) ==
    group \cup
        {n \in NamesOf(hs) :
            /\ Len(hs) >= ScaleThreshold => n \notin etcdNow
            /\ Len(hs) >= MassiveScaleThreshold => n \notin masters}

(* The conflicts are looked for among the keys of a group's dictionary     *)
(* ("hosts"), not among its hosts: none is ever found.                     *)
SetCalicoRR(group, hs) ==
    group \cup (IF Len(hs) >= ScaleThreshold
                THEN FirstNames(hs, EtcdHostsCount(hs)) ELSE {})

-----------------------------------------------------------------------------
Deletes(arg) == arg.op \in {"del_name", "del_ip"}

(* inventory.py [add] args: the file is loaded for "add", and when the     *)
(* first argument deletes a host.                                          *)
Invoke(add, args) ==
    LET load == add \/ Deletes(args[1])
        old  == IF load THEN hosts ELSE <<>>
        built == BuildHostnames(old, args)
        new  == built.hs
        Loaded(group) == IF load THEN Purged(group, new) ELSE {}
        InBounds == built.next <= MaxId + 1   \* bound: numbers of names
    IN  /\ load => written
        /\ ~built.error /\ InBounds
        /\ hosts' = InFile(old, new)
        /\ etcd' = SetEtcd(Loaded(etcd), new)
        /\ kube_control_plane' =
               SetKubeControlPlane(Loaded(kube_control_plane), new)
        /\ kube_node' =
               SetKubeNode(Loaded(kube_node), new, etcd', kube_control_plane')
        /\ calico_rr' = SetCalicoRR(Loaded(calico_rr), new)
        /\ written' = TRUE
        /\ command' = [load  |-> load,
                       ops   |-> {args[i].op : i \in DOMAIN args},
                       asked |-> {args[i].ip : i \in
                                     {j \in DOMAIN args : args[j].op \in {"ip", "named"}}}]
        /\ past' = (IF load THEN past ELSE {})
                      \cup (IF \E i \in DOMAIN args : Deletes(args[i]) THEN {"deleted"} ELSE {})

(* The hosts that a list of entries gives.  An entry is put into "all"     *)
(* with its address, then into its own group: if that is "all" again, the  *)
(* second call has no options and takes the address away.                  *)
AddressOf(entry) == IF entry.group = "all" THEN NoIP ELSE entry.ip

PutAll(entries) ==
    LET put[i \in 0 .. Len(entries)] ==
            IF i = 0 THEN <<>>
            ELSE PutHost(put[i - 1], entries[i].name, AddressOf(entries[i]))
    IN  put[Len(entries)]

(* inventory.py load files: the file is written after each of them, from   *)
(* nothing, and the first that is not JSON is an error.                    *)
Load(docs) ==
    LET good == {i \in DOMAIN docs : \A j \in 1 .. i : docs[j].json}
        entries == FlattenSeq([i \in 1 .. Cardinality(good) |-> docs[i].entries])
        Given(group) == {e.name : e \in {entries[i] : i \in
                            {j \in DOMAIN entries : entries[j].group = group}}}
    IN  /\ good # {}
        /\ hosts' = PutAll(entries)
        /\ etcd' = Given("etcd")
        /\ kube_control_plane' = Given("kube_control_plane")
        /\ kube_node' = Given("kube_node")
        /\ calico_rr' = Given("calico_rr")
        /\ written' = TRUE
        /\ command' = [load |-> FALSE, ops |-> {"load"}, asked |-> {}]
        /\ past' = {"loaded"}

Next ==
    \/ \E add \in BOOLEAN, args \in Requests : Invoke(add, args)
    \/ \E docs \in Documents : Load(docs)

Spec == Init /\ [][Next]_vars

-----------------------------------------------------------------------------
(* Properties. *)

TypeOK ==
    /\ written \in BOOLEAN
    /\ hosts \in Seq([name : HostNames, ip : IPs \cup {NoIP}])
    /\ \A group \in {etcd, kube_control_plane, kube_node, calico_rr} :
          group \subseteq HostNames
    /\ command \in [load : BOOLEAN, asked : SUBSET IPs,
                    ops : SUBSET {"ip", "named", "bare", "del_name", "del_ip", "load"}]
    /\ past \subseteq {"loaded", "deleted"}

(* No name is given to two hosts, and no group names a host that the       *)
(* inventory does not have: Ansible would ask for its variables.  In an    *)
(* inventory that the builder made of its arguments, whatever was added,   *)
(* renamed, deleted and brought back, every host has an address that no    *)
(* other has.  Of a loaded file that does not hold: load takes addresses   *)
(* as they come, and those of group "all" are lost.                        *)
OneAddressEach(hs) ==
    \A i, j \in DOMAIN hs : hs[i].ip # NoIP /\ (hs[i].ip = hs[j].ip => i = j)

WellFormed ==
    /\ \A i, j \in DOMAIN hosts : hosts[i].name = hosts[j].name => i = j
    /\ "loaded" \notin past => OneAddressEach(hosts)
    /\ etcd \cup kube_control_plane \cup kube_node \cup calico_rr
          \subseteq NamesOf(hosts)

(* A machine that stays in a loaded inventory keeps its place in etcd and  *)
(* the control plane: the playbooks never remove it from there.            *)
RolesKept ==
    [][command'.load =>
          /\ etcd \cap NamesOf(hosts') \subseteq etcd'
          /\ kube_control_plane \cap NamesOf(hosts') \subseteq kube_control_plane']_vars

(* Three hosts or more give three members of etcd or more, one gives one,  *)
(* in whatever order hosts were added and deleted, and loaded before that. *)
EtcdRedundant ==
    "load" \notin command.ops =>
        /\ Len(hosts) >= 3 => Cardinality(etcd) >= 3
        /\ hosts # <<>> => etcd # {}

(* The number of etcd hosts is odd, as roles/kubernetes/preinstall asserts *)
(* ("Stop if even number of etcd hosts"), as long as no host has been      *)
(* deleted: the builder takes a host out of etcd in no other way.          *)
OddEtcd == hosts # <<>> /\ past = {} => Cardinality(etcd) % 2 = 1

(* The size of the group etcd that set_etcd leaves, by additions for its   *)
(* parity and by any invocation for its least size.                        *)
EtcdSize == EtcdRedundant /\ OddEtcd

(* "Keeps already specified hosts, and adds or removes the hosts provided  *)
(* as an argument" (above build_hostnames), for hosts given by addresses.  *)
KeepsHosts ==
    [][command'.load /\ command'.ops \subseteq {"ip", "bare"} =>
          IPsOf(hosts) \cup command'.asked \subseteq IPsOf(hosts')]_vars
=============================================================================
