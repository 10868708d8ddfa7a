------------------------------- MODULE Snapshot -----------------------------
(***************************************************************************)
(* One reading of the hotspot after another, `discovery::snapshot`: four   *)
(* tools asked in turn (iw dev, iw station dump, ip addr, ip neigh) and    *)
(* one DNS lookup per client that has an address, while clients come and   *)
(* go and interfaces change their mode or vanish between any two of them.  *)
(*                                                                         *)
(* Interfaces and clients are numbers, in the order of their names and     *)
(* addresses.  What a tool prints is a sequence of lines that begin a      *)
(* block or give a field of it; what neigh prints is a table.  A tool      *)
(* returns in time or not at all (CallReturns of Exec).  Channel, SSID,    *)
(* signal and traffic are left out, and so is whether a station is         *)
(* authorized yet: nothing depends on them here.                           *)
(***************************************************************************)
EXTENDS Dns, Integers, FiniteSetsExt, SequencesExt

CONSTANTS
    Ifaces, Macs,       \* numbered by name and by address
    Silent,             \* interfaces whose driver tells no connected time
    Upstream,           \* the access point a managed interface talks to
    Entries,            \* the lines `ip neigh` may print
    MaxEntries,         \* bound: lines it prints
    Packets,            \* the datagrams that may reach a lookup
    Patience            \* DNS_TIMEOUT, in ticks

ASSUME SnapshotAssumption ==
    /\ Ifaces \subseteq Nat /\ Macs \subseteq Nat /\ Silent \subseteq Ifaces
    /\ IsFiniteSet(Ifaces) /\ IsFiniteSet(Macs)
    /\ Upstream \in Nat \ Macs
    /\ MaxEntries \in Nat /\ Patience \in Nat
    /\ \A e \in Entries : e.confirmed \in Nat
    /\ \A p \in Packets :
          Cells(p.body) /\ p.questions \in Nat /\ p.answers \in Nat

VARIABLES
    mode, arrivals,     \* the machine: interfaces, and who came when
    stage, ap,          \* the snapshot: how far it is, its interface
    stations,           \* the last station dump
    gateway, ips, lookup,
    warned, result,
    stayed, steady, broken      \* history: see the properties

world == <<mode, arrivals>>
reading == <<ap, stations, gateway, ips, lookup, warned, result>>
history == <<stayed, steady, broken>>
vars == <<world, stage, reading, history>>

Modes == {"AP", "managed", "gone"}

\* What a dump may list: of a managed interface, what that one talks to.
Listed == Macs \cup {Upstream}

Ips == {e.ip : e \in {x \in Entries : x.family = "inet"}}

\* What a lookup makes of a datagram.
Hostname == [p \in Packets |-> ParsePtr(p)]

Names == Range(Hostname) \cup {None}

NoIface == -1

Untold == -1

TypeOK ==
    /\ mode \in [Ifaces -> Modes]
    /\ \A i \in Ifaces :
          /\ UNION Range(arrivals[i]) \subseteq Macs
          /\ {} \notin Range(arrivals[i])
          /\ mode[i] # "AP" => arrivals[i] = <<>>
    /\ stage \in {"dev", "stations", "address", "neigh", "names", "done"}
    /\ ap \in Ifaces \cup {NoIface}
    /\ \A k \in DOMAIN stations :
          /\ stations[k].mac \in Listed
          /\ stations[k].connected \in Nat \cup {Untold}
          /\ \A l \in 1 .. k - 1 : stations[l].mac # stations[k].mac
    /\ gateway \in BOOLEAN /\ warned \in BOOLEAN /\ steady \in BOOLEAN
    /\ \A m \in DOMAIN ips : ips[m] \in Ips
    /\ \A m \in DOMAIN lookup :
          /\ m \in DOMAIN ips
          /\ lookup[m] \in [done : BOOLEAN, left : 0 .. Patience, name : Names]
    /\ result \in {"none", "error", "off", "on"}
    /\ stayed \subseteq Macs
    /\ broken \subseteq {"dev", "stations", "address", "neigh"}

Init ==
    /\ mode \in [Ifaces -> Modes] /\ arrivals = [i \in Ifaces |-> <<>>]
    /\ stage = "dev" /\ ap = NoIface /\ stations = <<>>
    /\ gateway = FALSE /\ ips = <<>> /\ lookup = <<>>
    /\ warned = FALSE /\ result = "none"
    /\ stayed = {} /\ steady = TRUE /\ broken = {}

-----------------------------------------------------------------------------
(* The machine.                                                            *)

Here(i) == UNION Range(arrivals[i])

\* In the same second as the last to come, or later.
Join(i, m) ==
    /\ mode[i] = "AP" /\ \A j \in Ifaces : m \notin Here(j)
    /\ LET n == Len(arrivals[i]) IN
       \/ arrivals' = [arrivals EXCEPT ![i] = Append(@, {m})]
       \/ n > 0 /\ arrivals' = [arrivals EXCEPT ![i][n] = @ \cup {m}]
    /\ UNCHANGED <<mode, stage, reading, history>>

Leave(i, m) ==
    /\ \E k \in DOMAIN arrivals[i] :
          /\ m \in arrivals[i][k]
          /\ arrivals' = [arrivals EXCEPT ![i] =
                             IF @[k] = {m} THEN RemoveAt(@, k)
                             ELSE [@ EXCEPT ![k] = arrivals[i][k] \ {m}]]
    /\ stayed' = stayed \ {m}
    /\ UNCHANGED <<mode, stage, reading, steady, broken>>

SetMode(i) ==
    /\ mode' \in {[mode EXCEPT ![i] = k] : k \in Modes \ {mode[i]}}
    /\ arrivals' = [arrivals EXCEPT ![i] = <<>>]
    /\ stayed' = stayed \ Here(i)
    /\ steady' = (stage = "dev" \/ (steady /\ ap \notin {i, NoIface}))
    /\ UNCHANGED <<stage, reading, broken>>

-----------------------------------------------------------------------------
(* What the tools print.                                                   *)

Line(key, value) == [key |-> key, value |-> value]

Headers == {"Interface", "Unnamed", "Station"}

\* A P2P device has no name; its block stands anywhere between the others.
DevOutputs ==
    LET blocks == {<<Line("Interface", i), Line("type", mode[i])>> :
                      i \in {j \in Ifaces : mode[j] # "gone"}}
                  \cup {<<Line("Unnamed", "P2P"), Line("type", "P2P-device")>>}
    IN {FlattenSeq(s) : s \in SetToSeqs(blocks)}

\* The kernel counts whole seconds for each station; it keeps no order.
DumpOutputs(i) ==
    LET n == Len(arrivals[i])
        Block(k, m) == <<Line("Station", m)>> \o
            IF i \in Silent THEN <<>> ELSE <<Line("connected", n - k)>>
        blocks == IF mode[i] = "managed"
                  THEN {<<Line("Station", Upstream)>>}
                  ELSE UNION {{Block(k, m) : m \in arrivals[i][k]} : k \in 1 .. n}
    IN {FlattenSeq(s) : s \in SetToSeqs(blocks)}

Tables == {t \in UNION {[1 .. n -> Entries] : n \in 0 .. MaxEntries} :
              \A k, l \in DOMAIN t : t[k].ip = t[l].ip => k = l}

-----------------------------------------------------------------------------
(* Parsing.                                                                *)

\* Defect: a device without a name does not end the block before it.
FieldAcross(out, h, key, default) ==
    LET mine == {k \in h + 1 .. Len(out) :
                    /\ out[k].key = key
                    /\ \A l \in h + 1 .. k :
                          out[l].key \notin {"Interface", "Station"}}
    IN IF mine = {} THEN default ELSE out[Max(mine)].value

\* The last such line of the block that begins at h.
Field(out, h, key, default) ==
    LET mine == {k \in h + 1 .. Len(out) :
                    /\ out[k].key = key
                    /\ \A l \in h + 1 .. k : out[l].key \notin Headers}
    IN IF mine = {} THEN default ELSE out[Max(mine)].value

\* parse_interfaces, is_ap
AccessPoints(out) ==
    {out[h].value : h \in {k \in DOMAIN out : /\ out[k].key = "Interface"
                                              /\ Field(out, k, "type", "") = "AP"}}

\* Sorted: the n-th has n - 1 before it.
Ranked(S, Before(_, _)) ==
    [n \in 1 .. Cardinality(S) |->
        CHOOSE k \in S : Cardinality({l \in S : Before(l, k)}) = n - 1]

Heads(out) == Ranked({k \in DOMAIN out : out[k].key = "Station"}, <)

\* parse_station_dump
Stations(out) ==
    LET heads == Heads(out) IN
    [n \in DOMAIN heads |->
        [mac |-> out[heads[n]].value,
         connected |-> Field(out, heads[n], "connected", Untold)]]

\* NeighState::rank; the other states prove nothing.
Rank == [REACHABLE |-> 0, DELAY |-> 1, PROBE |-> 2, STALE |-> 3, PERMANENT |-> 4]

\* Defect: an IPv6 address counts as one of the client's.
UsableAnyFamily(t, m) == {k \in DOMAIN t : /\ t[k].mac = m
                                           /\ t[k].state \in DOMAIN Rank}

\* The entries of m that may tell its address.
Usable(t, m) == {k \in DOMAIN t : /\ t[k].mac = m /\ t[k].family = "inet"
                                  /\ t[k].state \in DOMAIN Rank}

Better(d, e) ==
    \/ Rank[d.state] < Rank[e.state]
    \/ Rank[d.state] = Rank[e.state] /\ d.confirmed < e.confirmed

\* ipv4_by_mac: a better entry replaces the one kept, an equal one does not.
Ipv4ByMac(t) ==
    [m \in {n \in Listed : Usable(t, n) # {}} |->
        t[CHOOSE k \in Usable(t, m) :
             \A l \in Usable(t, m) \ {k} :
                Better(t[k], t[l]) \/ (~Better(t[l], t[k]) /\ k < l)].ip]

\* Defect: stations of the same second stay as the dump has them.
DumpOrder(s) ==
    Ranked(DOMAIN s, LAMBDA k, l :
        \/ s[k].connected > s[l].connected
        \/ s[k].connected = s[l].connected /\ k < l)

\* assemble_clients: connected longest first, untold last, then by address.
Order(s) ==
    Ranked(DOMAIN s, LAMBDA k, l :
        \/ s[k].connected > s[l].connected
        \/ s[k].connected = s[l].connected /\ s[k].mac < s[l].mac)

Clients(s) == [n \in DOMAIN s |-> s[Order(s)[n]].mac]

-----------------------------------------------------------------------------
(* One snapshot.                                                           *)

Conclude(r) == stage' = "done" /\ result' = r

\* iw dev, pick_hotspot: the first of the access points, by name.
ReadDev ==
    /\ stage = "dev"
    /\ \E out \in DevOutputs :
          LET aps == AccessPoints(out) IN
          /\ warned' = (Cardinality(aps) > 1)
          /\ IF aps = {}
             THEN Conclude("off") /\ UNCHANGED ap
             ELSE ap' = Min(aps) /\ stage' = "stations" /\ UNCHANGED result
    /\ UNCHANGED <<world, stations, gateway, ips, lookup, history>>

ListStations ==
    /\ stage = "stations" /\ mode[ap] # "gone"
    /\ \E out \in DumpOutputs(ap) : stations' = Stations(out)
    /\ stayed' = Here(ap)
    /\ stage' = "address"
    /\ UNCHANGED <<world, ap, gateway, ips, lookup, warned, result,
                   steady, broken>>

ReadAddress ==
    /\ stage = "address" /\ mode[ap] # "gone"
    /\ gateway' \in BOOLEAN
    /\ stage' = "neigh"
    /\ UNCHANGED <<world, ap, stations, ips, lookup, warned, result,
                   history>>

Waiting == [done |-> FALSE, left |-> Patience, name |-> None]

Done(n) == [done |-> TRUE, left |-> 0, name |-> n]

\* ip neigh and ipv4_by_mac; then a lookup for every station with an address.
ReadNeighbours(t) ==
    /\ stage = "neigh" /\ mode[ap] # "gone"
    /\ LET known == Ipv4ByMac(t)
           found == {m \in DOMAIN known :
                        \E k \in DOMAIN stations : stations[k].mac = m}
       IN /\ ips' = [m \in found |-> known[m]]
          /\ lookup' = [m \in IF gateway THEN found ELSE {} |-> Waiting]
    /\ stage' = "names"
    /\ UNCHANGED <<world, ap, stations, gateway, warned, result, history>>

\* is_no_such_device: the hotspot was stopped in the meantime.
Vanished ==
    /\ stage \in {"stations", "address", "neigh"} /\ mode[ap] = "gone"
    /\ Conclude("off")
    /\ UNCHANGED <<world, ap, stations, gateway, ips, lookup, warned,
                   history>>

\* A tool is missing, times out, fails otherwise, or prints what ip.rs cannot
\* parse.
ToolFails ==
    /\ stage \in {"dev", "stations", "address", "neigh"}
    /\ broken' = broken \cup {stage}
    /\ \/ stage \in {"dev", "stations"} /\ Conclude("error") /\ UNCHANGED warned
       \/ /\ stage \in {"address", "neigh"}
          /\ stage' = IF stage = "address" THEN "neigh" ELSE "names"
          /\ warned' = TRUE
          /\ UNCHANGED result
    /\ UNCHANGED <<world, ap, stations, gateway, ips, lookup, stayed,
                   steady>>

\* Defect: every datagram sets the clock back.
ReceivePatiently(m, p) ==
    /\ stage = "names" /\ m \in DOMAIN lookup /\ ~lookup[m].done
    /\ lookup' = [lookup EXCEPT ![m] =
                     IF IsReply(p) THEN Done(Hostname[p]) ELSE Waiting]
    /\ UNCHANGED <<world, stage, ap, stations, gateway, ips, warned,
                   result, history>>

\* recv: the first reply is final, anything else is passed over.
Receive(m, p) ==
    /\ stage = "names" /\ m \in DOMAIN lookup /\ ~lookup[m].done
    /\ lookup' = IF IsReply(p)
                 THEN [lookup EXCEPT ![m] = Done(Hostname[p])] ELSE lookup
    /\ UNCHANGED <<world, stage, ap, stations, gateway, ips, warned,
                   result, history>>

Tick(m) ==
    /\ stage = "names" /\ m \in DOMAIN lookup /\ lookup[m].left > 0
    /\ lookup' = [lookup EXCEPT ![m].left = @ - 1]
    /\ UNCHANGED <<world, stage, ap, stations, gateway, ips, warned,
                   result, history>>

\* The deadline, or an error of the socket at any time.
LookupFails(m) ==
    /\ stage = "names" /\ m \in DOMAIN lookup /\ ~lookup[m].done
    /\ lookup' = [lookup EXCEPT ![m] = Done(None)]
    /\ UNCHANGED <<world, stage, ap, stations, gateway, ips, warned,
                   result, history>>

\* resolve_hostnames has joined its threads; assemble_clients.
Assemble ==
    /\ stage = "names" /\ \A m \in DOMAIN lookup : lookup[m].done
    /\ Conclude("on")
    /\ UNCHANGED <<world, ap, stations, gateway, ips, lookup, warned,
                   history>>

NextSnapshot ==
    /\ stage = "done"
    /\ stage' = "dev" /\ ap' = NoIface /\ result' = "none"
    /\ gateway' = FALSE /\ ips' = <<>> /\ lookup' = <<>>
    /\ warned' = FALSE /\ steady' = TRUE /\ broken' = {}
    /\ UNCHANGED <<world, stations, stayed>>

Progress ==
    \/ ToolFails \/ Vanished \/ Assemble
    \/ ReadDev \/ ListStations \/ ReadAddress
    \/ \E t \in Tables : ReadNeighbours(t)

Next ==
    \/ \E i \in Ifaces : SetMode(i) \/ \E m \in Macs : Join(i, m) \/ Leave(i, m)
    \/ Progress
    \/ \E m \in Listed : \/ Tick(m) \/ LookupFails(m)
                         \/ \E p \in Packets : Receive(m, p)
    \/ NextSnapshot

Spec == Init /\ [][Next]_vars

(* Tools answer or fail in time (CallReturns of Exec), and clocks run.     *)
FairSpec ==
    /\ Spec
    /\ WF_vars(Progress)
    /\ \A m \in Listed : /\ WF_vars(Tick(m))
                         /\ WF_vars(LookupFails(m) /\ lookup[m].left = 0)

-----------------------------------------------------------------------------
(* Properties.                                                             *)

\* What clean replies spell in a PTR record.
Told ==
    {name \in Names : \E p \in Packets :
        /\ IsReply(p) /\ p.rcode = 0
        /\ \E k \in DOMAIN p.body :
              /\ p.body[k].is = "record" /\ p.body[k].type = Ptr
              /\ \E n \in Spelled(p.body, k + 1) : name = Sanitize(n)}

(* What a finished snapshot says is so.  An error is one of iw's, never an *)
(* interface that went away; no hotspot means that there is none, as long  *)
(* as no interface has changed its mode since; what is lost of addresses   *)
(* and names is told; and the laptop's own access point is not shown as a  *)
(* client unless the interface changed its mode while it was being read; a *)
(* name shown is one that a clean reply has spelled in a PTR record.       *)
ReadingIsTrue ==
    stage = "done" =>
        /\ result = "error" <=> broken \cap {"dev", "stations"} # {}
        /\ result = "off" /\ steady => \A i \in Ifaces : mode[i] # "AP"
        /\ result = "on" /\ broken # {} => warned
        /\ result = "on" /\ steady =>
              \A k \in DOMAIN stations : stations[k].mac \in Macs
        /\ \A m \in DOMAIN lookup : lookup[m].name \in Told \cup {None}

Place(s, m) == CHOOSE n \in DOMAIN s : Clients(s)[n] = m

(* "so the list never shuffles between refreshes": two clients that both   *)
(* stay from one reading to the next keep their order, in whatever order   *)
(* the kernel lists them and whenever they came.                           *)
OrderKept ==
    [][ListStations => \A m, n \in stayed \cap Here(ap) :
          Place(stations, m) < Place(stations, n) =>
              Place(stations', m) < Place(stations', n)]_vars

AddressesRight ==
    stage = "neigh" /\ stage' = "names" => \A t \in Tables :
        ReadNeighbours(t) => \A k \in DOMAIN stations :
           LET m == stations[k].mac IN
           /\ m \in DOMAIN ips' <=> Usable(t, m) # {}
           /\ m \in DOMAIN ips' =>
                 \E e \in Usable(t, m) :
                    /\ t[e].ip = ips'[m]
                    /\ \A o \in Usable(t, m) : ~Better(t[o], t[e])

NamesRight ==
    stage = "names" /\ lookup' # lookup => \A m \in DOMAIN lookup, p \in Packets :
        lookup'[m] # lookup[m] /\ IsReply(p) /\ Receive(m, p) =>
           LET names == IF p.rcode # 0 \/ p.start = 0 THEN {}
                        ELSE {Sanitize(n) : n \in Spelled(p.body, p.start)}
           IN {lookup'[m].name} = IF names = {} THEN {None} ELSE names

(* Addresses and names are the right ones: of a client's usable entries    *)
(* none is more trustworthy than the one its address is from; and a reply  *)
(* gives the name that its first PTR record spells -- p.start is where who *)
(* sent it put that -- and none if it is no clean answer.                  *)
DecorationsAreTrue == [][AddressesRight /\ NamesRight]_vars

(* A snapshot ends, although stray datagrams may keep arriving: the window *)
(* waits for it.                                                           *)
SnapshotEnds == (stage = "dev") ~> (stage = "done")
=============================================================================
