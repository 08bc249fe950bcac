------------------------- MODULE TerraformInventory -------------------------
(***************************************************************************)
(* contrib/terraform/terraform.py, the dynamic inventory that Ansible runs *)
(* as a script while terraform may be writing the state files it reads.    *)
(*                                                                         *)
(* All the files are read twice: for the floating IPs, and then, lazily,   *)
(* for the hosts.  Terraform is outside the repository; it truncates a     *)
(* state file and writes it, so that a file may be met while it is torn.   *)
(*                                                                         *)
(* A dotted key, "network.0.port", is the sequence of its parts.  A value  *)
(* in a version 4 state is a record with one field: s for a string, l for  *)
(* a list, d for a dictionary.                                             *)
(***************************************************************************)
EXTENDS Integers, Sequences, FiniteSets, Functions, TLC

CONSTANTS
    Files,          \* the files tfstates finds
    Contents,       \* Contents[f]: the states that terraform may write to f
    Depth,          \* version 4 attributes: how deep the lists in them nest
    Numerals,       \* the indices of a list as strings, "0", "1" and so on
    SplitGroups,    \* what a value of kubespray_groups is, split at ","
    Sanitized,      \* group names with "+-=./ " in them, and what they become
    Unbracketed,    \* IPv6 addresses in brackets, and without them
    MaxWrites       \* bound: writes that begin while a listing is made

ASSUME BoundAssumption == MaxWrites \in Nat
ASSUME SplitAssumption == SplitGroups[""] = {""}
ASSUME SanitizedAssumption == \A g \in DOMAIN Sanitized : Sanitized[g] # ""
ASSUME LiteralsAssumption == {"%", "#", "random"} \subseteq STRING
ASSUME NumeralsAssumption ==
    /\ Numerals \in Seq(STRING) /\ Len(Numerals) > 0 /\ Numerals[1] = "0"
    /\ \A i, j \in DOMAIN Numerals : Numerals[i] = Numerals[j] => i = j

(* Attributes are a dictionary, or a string in a list of strings.          *)
ASSUME NestingAssumption ==
    \A a \in DOMAIN Depth :
        /\ Depth[a] \in Nat /\ DOMAIN a \in {{"s"}, {"d"}}
        /\ DOMAIN a = {"d"} => \A k \in DOMAIN a.d :
              /\ k \in STRING /\ DOMAIN a.d[k] \in {{"s"}, {"d"}, {"l"}}
              /\ DOMAIN a.d[k] = {"d"} => \A j \in DOMAIN a.d[k].d : j \in STRING
              /\ DOMAIN a.d[k] = {"l"} =>
                    /\ a.d[k].l \in Seq(DOMAIN Depth)
                    /\ Len(a.d[k].l) <= Len(Numerals)
                    /\ \A i \in DOMAIN a.d[k].l : Depth[a.d[k].l[i]] < Depth[a]

Modes == {"list", "host", "hostfile"}

VARIABLES
    (* Terraform. *)
    tfstate,    \* what is in each file
    torn,       \* the files that are being written
    writes,     \* writes begun since the script was
    (* The script. *)
    mode,       \* what it was asked for
    target,     \* the host asked for with --host
    pass,       \* what it is doing
    todo,       \* the files this pass has to read
    ips,        \* floating IPs by port
    hosts,      \* the hosts so far, in order
    (* History. *)
    seen        \* what each file has had in it since the script began

tfVars == <<tfstate, torn, writes>>
vars == <<tfVars, mode, target, pass, todo, ips, hosts, seen>>

-----------------------------------------------------------------------------
(* What terraform writes.                                                  *)

InstanceType == "openstack_compute_instance_v2"
DeviceType == "equinix_metal_device"
AssociationType == "openstack_networking_floatingip_associate_v2"

(* That there is a string at a path, and which one.  Of the lists that are *)
(* read by index only the first element is.                                *)
Has(state, r, path) ==
    IF state.version = 3 THEN path \in DOMAIN r.primary
    ELSE LET d == r.attributes.d
             value == d[path[1]]
         IN  /\ path[1] \in DOMAIN d
             /\ CASE Len(path) = 1 -> DOMAIN value = {"s"}
                  [] Len(path) = 2 -> DOMAIN value = {"d"} /\ path[2] \in DOMAIN value.d
                  [] Len(path) = 3 ->
                        /\ DOMAIN value = {"l"} /\ path[2] = "0" /\ Len(value.l) > 0
                        /\ DOMAIN value.l[1] = {"d"} /\ path[3] \in DOMAIN value.l[1].d
                        /\ DOMAIN value.l[1].d[path[3]] = {"s"}

At(state, r, path) ==
    IF state.version = 3 THEN r.primary[path]
    ELSE LET value == r.attributes.d[path[1]]
         IN  CASE Len(path) = 1 -> value.s
               [] Len(path) = 2 -> value.d[path[2]].s
               [] Len(path) = 3 -> value.l[1].d[path[3]].s

OfType(state, type) == {r \in Range(state.resources) : r.type = type}

States == UNION Range(Contents)
Instances == UNION {{s} \X OfType(s, InstanceType) : s \in States}

(* The strings of the list that _parse_list reads.                         *)
SecurityGroups(s, r) ==
    IF s.version = 3
    THEN {r.primary[k] : k \in {key \in DOMAIN r.primary :
             Len(key) > 1 /\ key[1] = "security_groups" /\ Tail(key) # <<"#">>}}
    ELSE {v.s : v \in Range(r.attributes.d["security_groups"].l)}

Paths(type) ==
    CASE type = InstanceType ->
           {<<"name">>, <<"access_ip_v4">>, <<"access_ip_v6">>, <<"image_id">>,
            <<"flavor_name">>, <<"network", "0", "port">>,
            <<"network", "0", "fixed_ip_v4">>}
      [] type = DeviceType ->
           {<<"hostname">>, <<"operating_system">>, <<"locked">>, <<"state">>,
            <<"plan">>, <<"network", "0", "address">>}
      [] type = AssociationType -> {<<"port_id">>, <<"floating_ip">>}
      [] OTHER -> {}

(* Every state has what the script reads without asking whether it is      *)
(* there, and lists and dictionaries are flat where it takes them to be.   *)
ASSUME ContentsAssumption ==
    /\ DOMAIN Contents = Files
    /\ \A s \in States :
           /\ s.version \in {3, 4} /\ s.resources \in Seq(Range(s.resources))
           /\ \A r \in Range(s.resources) :
                 /\ DOMAIN r = {"type", IF s.version = 3 THEN "primary" ELSE "attributes"}
                 /\ \A path \in Paths(r.type) : Has(s, r, path)
                 /\ s.version = 3 => \A key \in DOMAIN r.primary :
                       /\ key \in Seq(STRING) /\ key # <<>>
                       /\ key[1] = "metadata" => Len(key) = 2
                 /\ s.version = 4 =>
                       /\ r.attributes \in DOMAIN Depth /\ DOMAIN r.attributes = {"d"}
                       /\ r.type = InstanceType =>
                             LET d == r.attributes.d
                             IN  /\ {"metadata", "security_groups"} \subseteq DOMAIN d
                                 /\ DOMAIN d["metadata"] = {"d"}
                                 /\ "%" \notin DOMAIN d["metadata"].d
                                 /\ DOMAIN d["security_groups"] = {"l"}
                                 /\ \A v \in Range(d["security_groups"].l) : DOMAIN v = {"s"}
ASSUME GroupsAssumption ==
    \A s \in States : \A r \in OfType(s, InstanceType) :
        Has(s, r, <<"metadata", "kubespray_groups">>) =>
            At(s, r, <<"metadata", "kubespray_groups">>) \in DOMAIN SplitGroups

-----------------------------------------------------------------------------
(* Reading a state. *)

Entry(key, value) == [k \in {key} |-> value]

Merge(fs) ==
    [k \in UNION {DOMAIN f : f \in fs} |-> (CHOOSE f \in fs : k \in DOMAIN f)[k]]

Update(f, g) ==
    [k \in DOMAIN f \cup DOMAIN g |-> IF k \in DOMAIN g THEN g[k] ELSE f[k]]

(* What an attribute becomes when its key has become at, and the elements  *)
(* of lists are converted by nested.  A dictionary, and a list that is not *)
(* empty, get an entry with their length.                                  *)
Entries(nested, at, value) ==
    CASE DOMAIN value = {"s"} -> {Entry(at, value.s)}
      [] DOMAIN value = {"d"} ->
            {Entry(Append(at, "%"), ToString(Cardinality(DOMAIN value.d)))}
              \cup {Entry(Append(at, k), value.d[k].s) : k \in DOMAIN value.d}
      [] DOMAIN value = {"l"} ->
            {Entry(Append(at, "#"), ToString(Len(value.l))) : i \in DOMAIN value.l}
              \cup {nested[value.l[i]][Append(at, Numerals[i])] : i \in DOMAIN value.l}

(* A string in a list gets a random number for a key.                      *)
Flatten(nested, attributes, prefix) ==
    IF DOMAIN attributes = {"s"}
    THEN Entry(Append(prefix, "random"), attributes.s)
    ELSE Merge(UNION {Entries(nested, Append(prefix, k), attributes.d[k]) :
                         k \in DOMAIN attributes.d})

ConvertToV3[attributes \in DOMAIN Depth] ==
    [prefix \in Seq(STRING) |-> Flatten(ConvertToV3, attributes, prefix)]

(* The attributes of a resource as both versions of the state have them.   *)
Attributes(state, resource) ==
    IF state.version = 3 THEN resource.primary
    ELSE ConvertToV3[resource.attributes][<<>>]

(* iterresources: the resources of one file, in order, with their type.    *)
IterResources(state) ==
    [i \in DOMAIN state.resources |->
        [type |-> state.resources[i].type,
         raw  |-> Attributes(state, state.resources[i])]]

-----------------------------------------------------------------------------
(* Reading attributes. *)

(* Mutant: the length of a list is taken for an element.                   *)
ParsePrefix_Count(source, prefix) ==
    [rest \in {Tail(key) : key \in {k \in DOMAIN source : Len(k) > 1 /\ k[1] = prefix}}
        |-> source[<<prefix>> \o rest]]

ParsePrefix(source, prefix) ==
    [rest \in {Tail(key) : key \in {k \in DOMAIN source : Len(k) > 1 /\ k[1] = prefix}}
                \ {<<"#">>}
        |-> source[<<prefix>> \o rest]]

(* Only lists of strings, and dictionaries of them, are parsed.            *)
ParseList(source, prefix) == Range(ParsePrefix(source, prefix))

ParseDict(source, prefix) ==
    LET rests == ParsePrefix(source, prefix)
    IN  [key \in {rest[1] : rest \in DOMAIN rests} |-> rests[<<key>>]]

Get(f, key, default) == IF key \in DOMAIN f THEN f[key] ELSE default

SanitizeGroup(g) == Get(Sanitized, g, g)

(* A group made of an attribute is a sequence, one of a name has length 1. *)
Named(names) == {<<SanitizeGroup(g)>> : g \in names}

OpenstackHost(raw) ==
    LET metadata == ParseDict(raw, "metadata")
        own == raw[<<"access_ip_v4">>]
        own6 == raw[<<"access_ip_v6">>]
        fixed == raw[<<"network", "0", "fixed_ip_v4">>]
        ipv6 == Get(metadata, "prefer_ipv6", "0") = "1"
    IN  [name |-> raw[<<"name">>],
         attrs |->
            [access_ip_v4 |-> own, access_ip |-> own, public_ipv4 |-> own,
             private_ipv4 |-> IF <<"floating_ip">> \in DOMAIN raw THEN fixed ELSE own,
             ip |-> fixed, port_id |-> raw[<<"network", "0", "port">>],
             ansible_host |-> IF ipv6 THEN Get(Unbracketed, own6, own6) ELSE own],
         metadata |-> metadata,
         security_groups |-> ParseList(raw, "security_groups"),
         groups |->
            {<<"os_image", raw[<<"image_id">>]>>, <<"os_flavor", raw[<<"flavor_name">>]>>,
             <<"os_region", Get(raw, <<"region">>, "")>>}
              \cup {<<"os_metadata", k, metadata[k]>> : k \in DOMAIN metadata}
              \cup Named(SplitGroups[Get(metadata, "kubespray_groups", "")])
              \cup {<<"publicly_routable">>}]

EquinixMetalDevice(raw) ==
    LET address == raw[<<"network", "0", "address">>]
        fields == {"operating_system", "locked", "state", "plan"}
    IN  [name |-> raw[<<"hostname">>],
         attrs |-> [ansible_host |-> address, public_ipv4 |-> address,
                    private_ipv4 |-> raw[<<"network", "2", "address">>]],
         metadata |-> <<>>,
         security_groups |-> {},
         groups |-> {<<"equinix_metal", k, raw[<<k>>]>> : k \in fields}
                      \cup Named(ParseList(raw, "tags"))]

HostTypes == {InstanceType, DeviceType}

HostOf(resource) ==
    IF resource.type = DeviceType THEN EquinixMetalDevice(resource.raw)
    ELSE OpenstackHost(resource.raw)

(* The hosts among the resources, in their order.                          *)
IterHosts(state) ==
    LET resources == IterResources(state)
        hs[i \in 0 .. Len(resources)] ==
            IF i = 0 THEN <<>>
            ELSE IF resources[i].type \in HostTypes
                 THEN Append(hs[i - 1], HostOf(resources[i]))
                 ELSE hs[i - 1]
    IN  hs[Len(resources)]

LastIn(S) == CHOOSE i \in S : \A j \in S : j <= i

(* A port that comes twice has the IP that comes last.                     *)
IterIps(state) ==
    LET resources == IterResources(state)
        Associations == {i \in DOMAIN resources : resources[i].type = AssociationType}
        PortAt(i) == resources[i].raw[<<"port_id">>]
        Latest(port) == LastIn({i \in Associations : PortAt(i) = port})
    IN  [port \in {PortAt(i) : i \in Associations} |->
            resources[Latest(port)].raw[<<"floating_ip">>]]

-----------------------------------------------------------------------------
(* The floating IPs of the first pass are put into the hosts of the second,*)
(* if there are any.                                                       *)

(* Mutant: a host that has no floating IP is looked up, too.               *)
Unknown_NoIp(h) ==
    DOMAIN ips # {} /\ ("port_id" \in DOMAIN h.attrs => h.attrs.port_id \notin DOMAIN ips)

(* A KeyError: the host has no port_id.                                    *)
Unknown(h) == DOMAIN ips # {} /\ "port_id" \notin DOMAIN h.attrs

Without(f, key) == [k \in DOMAIN f \ {key} |-> f[k]]

(* Mutant: the update is not under the condition, and a host without a     *)
(* floating IP gets one that was found for another.                        *)
IterHostIps_Always(h) ==
    LET port == IF h.attrs.port_id \in DOMAIN ips THEN h.attrs.port_id
                ELSE CHOOSE p \in DOMAIN ips : TRUE
        updated == [h.attrs EXCEPT !.access_ip_v4 = ips[port], !.access_ip = ips[port],
                                   !.public_ipv4 = ips[port], !.ansible_host = ips[port]]
    IN  IF DOMAIN ips = {} THEN h
        ELSE [h EXCEPT !.attrs = IF Get(h.metadata, "use_access_ip", "1") = "0"
                                 THEN Without(updated, "access_ip") ELSE updated]

IterHostIps(h) ==
    LET ip == ips[h.attrs.port_id]
        updated ==
            IF h.attrs.port_id \in DOMAIN ips
            THEN [h.attrs EXCEPT !.access_ip_v4 = ip, !.access_ip = ip,
                                 !.public_ipv4 = ip, !.ansible_host = ip]
            ELSE h.attrs
    IN  IF DOMAIN ips = {} THEN h
        ELSE [h EXCEPT !.attrs = IF Get(h.metadata, "use_access_ip", "1") = "0"
                                 THEN Without(updated, "access_ip") ELSE updated]

-----------------------------------------------------------------------------
(* The answers. *)

(* Groups have names; a host that comes twice has its last variables.      *)
QueryList(hs) ==
    LET GroupName(g) == IF g = <<"">> THEN <<"all">> ELSE g
        LastOf(n) == LastIn({i \in DOMAIN hs : hs[i].name = n})
    IN  [groups   |-> UNION {{<<GroupName(g), hs[i].name>> : g \in hs[i].groups} :
                               i \in DOMAIN hs},
         hostvars |-> [n \in {hs[i].name : i \in DOMAIN hs} |-> hs[LastOf(n)]]]

(* query_host stops at the first host of that name.                        *)
Found(hs) == mode = "host" /\ \E i \in DOMAIN hs : hs[i].name = target

QueryHost(hs) ==
    {hs[i] : i \in {j \in DOMAIN hs : hs[j].name = target
                       /\ \A k \in 1 .. j - 1 : hs[k].name # target}}

QueryHostfile(hs) == [i \in DOMAIN hs |-> <<hs[i].attrs.ansible_host, hs[i].name>>]

-----------------------------------------------------------------------------
Init ==
    /\ tfstate \in [Files -> UNION {Contents[f] : f \in Files}]
    /\ \A f \in Files : tfstate[f] \in Contents[f]
    /\ torn = {} /\ writes = 0
    /\ mode = "list" /\ target = "" /\ pass = "idle" /\ todo = {}
    /\ ips = <<>> /\ hosts = <<>>
    /\ seen = [f \in Files |-> {}]

Running == pass \in {"ips", "hosts"}

(* Terraform begins to write a state: what the file has in the end.        *)
Write(f) ==
    /\ f \notin torn /\ writes < MaxWrites
    /\ \E new \in Contents[f] \ {tfstate[f]} :
          /\ tfstate' = [tfstate EXCEPT ![f] = new]
          /\ seen' = IF Running THEN [seen EXCEPT ![f] = @ \cup {new}] ELSE seen
    /\ torn' = torn \cup {f}
    /\ writes' = writes + 1
    /\ UNCHANGED <<mode, target, pass, todo, ips, hosts>>

Written(f) ==
    /\ f \in torn
    /\ torn' = torn \ {f}
    /\ UNCHANGED <<tfstate, writes, mode, target, pass, todo, ips, hosts, seen>>

(* main: the script is run. *)
Start(m, t) ==
    /\ ~Running
    /\ mode' = m /\ target' = t
    /\ pass' = "ips" /\ todo' = Files /\ ips' = <<>> /\ hosts' = <<>>
    /\ seen' = [f \in Files |-> {tfstate[f]}]
    /\ writes' = 0
    /\ UNCHANGED <<tfstate, torn>>

Open(f) ==
    /\ f \in todo
    /\ todo' = todo \ {f}
    /\ UNCHANGED <<tfVars, mode, target, seen>>

(* json.load, and with it the script, fails on a file that is torn.        *)
ReadFails(f) ==
    /\ Running /\ f \in torn
    /\ Open(f)
    /\ pass' = "failed"
    /\ UNCHANGED <<ips, hosts>>

(* Mutant: the floating IPs of a file take the place of those before.      *)
ReadIps_Last(f) ==
    /\ pass = "ips" /\ f \notin torn
    /\ Open(f)
    /\ ips' = IterIps(tfstate[f])
    /\ UNCHANGED <<pass, hosts>>

(* The first pass.  A port that comes twice has the IP that is read last.  *)
ReadIps(f) ==
    /\ pass = "ips" /\ f \notin torn
    /\ Open(f)
    /\ ips' = Update(ips, IterIps(tfstate[f]))
    /\ UNCHANGED <<pass, hosts>>

SecondPass ==
    /\ pass = "ips" /\ todo = {}
    /\ pass' = "hosts" /\ todo' = Files
    /\ UNCHANGED <<tfVars, mode, target, ips, hosts, seen>>

(* The second pass, as far as the query asks for hosts.                    *)
ReadHosts(f) ==
    /\ pass = "hosts" /\ f \notin torn /\ ~Found(hosts)
    /\ Open(f)
    /\ LET new == IterHosts(tfstate[f])
       IN  IF \E i \in DOMAIN new :
                 /\ Unknown(new[i])
                 /\ ~\E j \in 1 .. i - 1 : mode = "host" /\ new[j].name = target
           THEN /\ pass' = "failed"
                /\ UNCHANGED hosts
           ELSE /\ hosts' = hosts \o [i \in DOMAIN new |->
                       IF Unknown(new[i]) THEN new[i] ELSE IterHostIps(new[i])]
                /\ UNCHANGED pass
    /\ UNCHANGED ips

Answer ==
    /\ pass = "hosts" /\ (todo = {} \/ Found(hosts))
    /\ pass' = "done" /\ todo' = {}
    /\ UNCHANGED <<tfVars, mode, target, ips, hosts, seen>>

HostNames ==
    UNION {{h.name : h \in Range(IterHosts(c))} : c \in UNION Range(Contents)}

Next ==
    \/ \E f \in Files :
          Write(f) \/ Written(f) \/ ReadFails(f) \/ ReadIps(f) \/ ReadHosts(f)
    \/ Start("list", "") \/ Start("hostfile", "")
    \/ \E name \in HostNames : Start("host", name)
    \/ SecondPass \/ Answer

Spec == Init /\ [][Next]_vars
-----------------------------------------------------------------------------
(* Properties. *)

NameOf(s, r) == At(s, r, IF r.type = InstanceType THEN <<"name">> ELSE <<"hostname">>)

PortOf(s, r) == At(s, r, <<"network", "0", "port">>)

FloatingOf(s, port) ==
    {At(s, a, <<"floating_ip">>) :
        a \in {b \in OfType(s, AssociationType) : At(s, b, <<"port_id">>) = port}}

Metadata(s, r, key, default) ==
    IF Has(s, r, <<"metadata", key>>) THEN At(s, r, <<"metadata", key>>) ELSE default

OwnAddress(s, r) ==
    IF r.type # InstanceType THEN At(s, r, <<"network", "0", "address">>)
    ELSE IF Metadata(s, r, "prefer_ipv6", "0") = "1"
         THEN Get(Unbracketed, At(s, r, <<"access_ip_v6">>), At(s, r, <<"access_ip_v6">>))
         ELSE At(s, r, <<"access_ip_v4">>)

(* The addresses that the answer gives a host. *)
Given(name) ==
    CASE mode = "list" ->
           LET answer == QueryList(hosts).hostvars
           IN  {answer[n].attrs.ansible_host : n \in {name} \cap DOMAIN answer}
      [] mode = "host" -> {h.attrs.ansible_host : h \in {q \in QueryHost(hosts) : q.name = name}}
      [] mode = "hostfile" ->
           {line[1] : line \in {l \in Range(QueryHostfile(hosts)) : l[2] = name}}

HostsOf(s) == {r \in Range(s.resources) : r.type \in HostTypes}

(* A host that has been there all the while, and the only one of its name. *)
Steady(f, s, r) ==
    /\ \A t \in seen[f] : r \in Range(t.resources)
    /\ \A g \in Files : \A t \in seen[g] : \A q \in HostsOf(t) :
          NameOf(t, q) = NameOf(s, r) => g = f /\ q = r

(* No file has changed in what it says of the port.                        *)
SteadyPort(port) ==
    \A f \in Files : \A s, t \in seen[f] : FloatingOf(s, port) = FloatingOf(t, port)

Floating(port) == UNION {FloatingOf(s, port) : s \in UNION Range(seen)}

TypeOK ==
    /\ \A f \in Files : tfstate[f] \in Contents[f] /\ seen[f] \subseteq Contents[f]
    /\ torn \subseteq Files /\ writes \in 0 .. MaxWrites
    /\ mode \in Modes /\ target \in HostNames \cup {""}
    /\ pass \in {"idle", "ips", "hosts", "done", "failed"} /\ todo \subseteq Files
    /\ \A i \in DOMAIN hosts :
          /\ hosts[i].name \in HostNames
          /\ hosts[i].security_groups \subseteq
                UNION {SecurityGroups(p[1], p[2]) : p \in Instances}

(* "finds all `.tfstate` files below the working directory and generates   *)
(* an inventory based on them" (its description): an instance that was in  *)
(* its file all the while is listed in the groups it asks for and, if its  *)
(* floating IP has not changed either, with that address, or its own if it *)
(* has none - whatever terraform has written meanwhile.                    *)
SteadyListed ==
    pass = "done" =>
        \A f \in Files : \A s \in seen[f] : \A r \in OfType(s, InstanceType) :
            LET name == NameOf(s, r)
                port == PortOf(s, r)
                addresses == IF Floating(port) = {} THEN {OwnAddress(s, r)} ELSE Floating(port)
            IN  Steady(f, s, r) /\ (mode = "host" => name = target) =>
                /\ SteadyPort(port) => \E a \in addresses : Given(name) = {a}
                /\ mode = "list" =>
                     \A g \in SplitGroups[Metadata(s, r, "kubespray_groups", "")] \ {""} :
                         <<<<SanitizeGroup(g)>>, name>> \in QueryList(hosts).groups

(* Every address in the answer is one that the host had, of its own or as  *)
(* a floating IP, at some time while the script ran.  (Not both at the same*)
(* time: a host of one state may be given the floating IP of another.)     *)
NothingInvented ==
    pass = "done" =>
        \A name \in HostNames : \A address \in Given(name) :
            \E s \in UNION Range(seen) : \E r \in HostsOf(s) :
                /\ name = NameOf(s, r)
                /\ \/ address = OwnAddress(s, r)
                   \/ r.type = InstanceType /\ address \in Floating(PortOf(s, r))

(* The script fails only on a file that is being written, or where         *)
(* devices of Equinix, which have no ports, are listed with floating IPs.  *)
(* It takes states to have every attribute that it reads, and a version    *)
(* that it knows (ContentsAssumption): it fails on any other.              *)
FailsForCause ==
    [][pass # "failed" /\ pass' = "failed" =>
          \/ torn # {}
          \/ \E s, t \in UNION Range(seen) :
                /\ OfType(s, DeviceType) # {}
                /\ OfType(t, AssociationType) # {}]_vars
=============================================================================
