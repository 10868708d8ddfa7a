------------------------------- MODULE Shaping ------------------------------
(***************************************************************************)
(* Per-client bandwidth limits in `tc`: one set-bandwidth call after the   *)
(* other, each a sequence of separate tc and ip invocations.               *)
(*                                                                         *)
(* The flock of the helper serialises the calls, so there is one caller;   *)
(* but unlike an nft batch nothing makes the sequence atomic: any          *)
(* invocation may fail, or the helper be killed between two of them, and   *)
(* the next call starts from whatever is left.  tc is external; each of    *)
(* its commands is modelled from the arguments the code gives it and from  *)
(* the behaviour the module documentation of `enforce::shaping` records.   *)
(***************************************************************************)
EXTENDS Naturals, FiniteSets, FiniteSetsExt

CONSTANTS
    Clients,        \* client addresses
    Ifaces,         \* interfaces a hotspot may run on
    Ifb,            \* the virtual device `hotstream0`
    Rates,          \* the limits callers ask for, in kbit/s
    Asked,          \* the set-bandwidth requests callers make
    UnlimitedKbit,  \* rate of the parent and the default class
    FirstClassid,   \* first class of a client
    DefaultClassid, \* class of all traffic without a filter
    LastClassid     \* the largest class tc reads: four hexadecimal digits

ParentClassid == 1

Devices == Ifaces \cup {Ifb}

NoRate == 0         \* `None`: that direction is not limited
NoClass == 0        \* no flower filter for this client

\* set_limit's arguments once they are validated: a rate of 0, an address or an
\* interface name out of form are refused before tc is first run.
Requests ==
    [iface : Ifaces, client : Clients,
     down : Rates \cup {NoRate}, up : Rates \cup {NoRate}]

ASSUME ShapingAssumption ==
    /\ Ifb \notin Ifaces
    /\ Asked \subseteq Requests
    /\ Rates \subseteq Nat \ {0}
    /\ UnlimitedKbit \in Nat \ (Rates \cup {0})
    /\ {FirstClassid, DefaultClassid, LastClassid} \subseteq Nat
    /\ ParentClassid < FirstClassid
    /\ FirstClassid <= DefaultClassid /\ DefaultClassid <= LastClassid

VARIABLES
    root,       \* each device's root qdisc: "default", "htb" (ours), "foreign"
    classes,    \* each device's HTB classes: classid |-> rate
    leaves,     \* classids with their own fq_codel queue
    filters,    \* each device's flower filters: client |-> classid or NoClass
    link,       \* the IFB device: "absent", "down", "up"
    ingress,    \* ingress hook of each interface: "none", "bare" (a qdisc with
                \* no filter of ours that we added), "foreign", "ours"
    stage,      \* next tc command of the running call
    req,        \* its arguments
    dev,        \* the device it is working on
    num,        \* the class it works on there
    outcome     \* what its caller was told

kernel == <<root, classes, leaves, filters, link, ingress>>

vars == <<root, classes, leaves, filters, link, ingress,
          stage, req, dev, num, outcome>>

Hierarchy == {"root", "parent", "default", "default_leaf"}
Setting   == {"class", "leaf", "filter"}
Clearing  == {"unfilter", "unleaf", "unclass"}
Redirect  == {"link_add", "link_up", "ingress", "redirect"}

Stages == {"idle", "classify", "verify"}
              \cup Hierarchy \cup Setting \cup Clearing \cup Redirect

Outcomes == {"none", "ok", "failed", "inconsistent", "foreign_root",
             "foreign_ingress"}

ClientClassids == FirstClassid .. LastClassid

Classids == {ParentClassid} \cup ClientClassids

TypeOK ==
    /\ root \in [Devices -> {"default", "htb", "foreign"}]
    /\ DOMAIN classes = Devices
    /\ \A d \in Devices :
          /\ DOMAIN classes[d] \subseteq Classids
          /\ \A n \in DOMAIN classes[d] :
                classes[d][n] \in Rates \cup {UnlimitedKbit}
    /\ leaves \in [Devices -> SUBSET Classids]
    /\ filters \in [Devices -> [Clients -> Classids \cup {NoClass}]]
    /\ link \in {"absent", "down", "up"}
    /\ ingress \in [Ifaces -> {"none", "bare", "foreign", "ours"}]
    /\ stage \in Stages
    /\ req \in Requests
    /\ dev \in Devices
    /\ num \in ClientClassids \cup {NoClass, LastClassid + 1}
    /\ outcome \in Outcomes

-----------------------------------------------------------------------------
(* Reading.                                                                *)

InfrastructureClasses == {ParentClassid, DefaultClassid}

\* read_direction: a client's filter names its class, the class its rate; the
\* parent and default classes are never taken for a client's limit.  The rate is
\* tc's own number: k kbit are 125 k bytes/s, which read back as exactly k.
Limit(d, c) ==
    IF filters[d][c] \in DOMAIN classes[d] \ InfrastructureClasses
    THEN classes[d][filters[d][c]]
    ELSE NoRate

\* read_state for one client: a client with neither direction is not listed,
\* which the caller reads as two directions without a limit.
ReadState(i, c) == [down |-> Limit(i, c), up |-> Limit(Ifb, c)]

UsedClassids(d) == {filters[d][c] : c \in Clients} \ {NoClass}

\* Defect: counts the filters instead of looking at their classes.
NextByCount(d) == FirstClassid + Cardinality(UsedClassids(d))

\* Defect: starts right above the parent class.
NextUnfloored(d) == Max(UsedClassids(d) \cup {ParentClassid}) + 1

\* One past the highest class in use, never below the first.  It is not kept
\* from the default class, nor from the first number tc does not read.
NextFreeClassid(d) == Max({n + 1 : n \in UsedClassids(d)} \cup {FirstClassid})

Wanted(d) == IF d = Ifb THEN req.up ELSE req.down

-----------------------------------------------------------------------------
(* Control.                                                                *)

Put(f, k, v) == [x \in DOMAIN f \cup {k} |-> IF x = k THEN v ELSE f[x]]
Drop(f, k) == [x \in DOMAIN f \ {k} |-> f[x]]

Return(result) ==
    /\ stage' = "idle"
    /\ outcome' = result
    /\ num' = NoClass

\* Defect: an upload limit that is not asked for is left alone.
UploadNotCleared ==
    IF dev = Ifb \/ req.up = NoRate THEN stage' = "verify" /\ dev' = dev
    ELSE stage' = "link_add" /\ dev' = Ifb

\* Defect: the redirect is set up only with the IFB device, not per interface.
RedirectOnce ==
    IF dev = Ifb THEN stage' = "verify" /\ dev' = dev
    ELSE /\ stage' = IF req.up # NoRate /\ link # "up"
                     THEN "link_add" ELSE "classify"
         /\ dev' = Ifb

\* Defect: the ingress hook is set up without the device it redirects to.
RedirectFirst ==
    IF dev = Ifb THEN stage' = "verify" /\ dev' = dev
    ELSE /\ stage' = IF req.up # NoRate THEN "ingress" ELSE "classify"
         /\ dev' = Ifb

\* After one direction is applied: set up the upload path if the call asks
\* for an upload limit, apply the other direction, or check the result.
AfterDirection ==
    IF dev = Ifb THEN stage' = "verify" /\ dev' = dev
    ELSE IF req.up # NoRate THEN stage' = "link_add" /\ dev' = Ifb
    ELSE stage' = "classify" /\ dev' = Ifb

Init ==
    /\ root \in [Devices -> {"default", "foreign"}] /\ root[Ifb] = "default"
    /\ classes = [d \in Devices |-> [n \in {} |-> NoRate]]
    /\ leaves = [d \in Devices |-> {}]
    /\ filters = [d \in Devices |-> [c \in Clients |-> NoClass]]
    /\ link = "absent"
    /\ ingress \in [Ifaces -> {"none", "foreign"}]
    /\ stage = "idle"
    /\ req \in {r \in Requests : r.down = NoRate /\ r.up = NoRate}
    /\ dev = req.iface
    /\ num = NoClass
    /\ outcome = "none"

\* set_limit is called.
Start(r) ==
    /\ stage = "idle"
    /\ stage' = "root"
    /\ req' = r
    /\ dev' = r.iface
    /\ outcome' = "none"
    /\ UNCHANGED <<root, classes, leaves, filters, link, ingress, num>>

-----------------------------------------------------------------------------
(* ensure_htb_hierarchy: four commands, the first only if it is needed.    *)

\* Defect: any root qdisc is replaced.
ReplaceAnyRoot ==
    /\ stage = "root"
    /\ stage' = "parent"
    /\ IF root[dev] = "htb"
       THEN UNCHANGED <<root, classes, leaves, filters>>
       ELSE /\ root' = [root EXCEPT ![dev] = "htb"]
            /\ classes' = [classes EXCEPT ![dev] = [n \in {} |-> NoRate]]
            /\ leaves' = [leaves EXCEPT ![dev] = {}]
            /\ filters' = [filters EXCEPT ![dev] = [c \in Clients |-> NoClass]]
    /\ UNCHANGED <<link, ingress, req, dev, num, outcome>>

EnsureRoot ==
    /\ stage = "root"
    /\ root[dev] # "foreign"
    /\ stage' = "parent"
    /\ root' = [root EXCEPT ![dev] = "htb"]
    /\ UNCHANGED <<classes, leaves, filters, link, ingress, req, dev, num,
                   outcome>>

RefuseForeignRoot ==
    /\ stage = "root"
    /\ root[dev] = "foreign"
    /\ Return("foreign_root")
    /\ UNCHANGED <<root, classes, leaves, filters, link, ingress, req, dev>>

EnsureParentClass ==
    /\ stage = "parent"
    /\ classes' = [classes EXCEPT ![dev] =
                      Put(@, ParentClassid, UnlimitedKbit)]
    /\ stage' = "default"
    /\ UNCHANGED <<root, leaves, filters, link, ingress, req, dev, num,
                   outcome>>

EnsureDefaultClass ==
    /\ stage = "default"
    /\ classes' = [classes EXCEPT ![dev] =
                      Put(@, DefaultClassid, UnlimitedKbit)]
    /\ stage' = "default_leaf"
    /\ UNCHANGED <<root, leaves, filters, link, ingress, req, dev, num,
                   outcome>>

EnsureDefaultLeaf ==
    /\ stage = "default_leaf"
    /\ leaves' = [leaves EXCEPT ![dev] = @ \cup {DefaultClassid}]
    /\ stage' = IF dev = Ifb THEN "ingress" ELSE "classify"
    /\ UNCHANGED <<root, classes, filters, link, ingress, req, dev, num,
                   outcome>>

-----------------------------------------------------------------------------
(* apply_direction: only the client's own class, queue and filter.         *)

\* Defect: clearing forgets the filter.
ClassifyUnfiltered ==
    /\ stage = "classify"
    /\ LET current == filters[dev][req.client] IN
       \/ /\ Wanted(dev) # NoRate
          /\ num' = IF current # NoClass THEN current ELSE NextFreeClassid(dev)
          /\ stage' = "class" /\ dev' = dev
       \/ /\ Wanted(dev) = NoRate /\ current # NoClass
          /\ num' = current
          /\ stage' = "unleaf" /\ dev' = dev
       \/ /\ Wanted(dev) = NoRate /\ current = NoClass
          /\ AfterDirection
          /\ UNCHANGED num
    /\ UNCHANGED <<root, classes, leaves, filters, link, ingress, req,
                   outcome>>

\* read_classids, then the three arms of the match.  A missing IFB device
\* reads as "nothing configured".
Classify ==
    /\ stage = "classify"
    /\ LET current == filters[dev][req.client] IN
       \/ /\ Wanted(dev) # NoRate
          /\ num' = IF current # NoClass THEN current ELSE NextFreeClassid(dev)
          /\ stage' = "class" /\ dev' = dev
       \/ /\ Wanted(dev) = NoRate /\ current # NoClass
          /\ num' = current
          /\ stage' = "unfilter" /\ dev' = dev
       \/ /\ Wanted(dev) = NoRate /\ current = NoClass
          /\ AfterDirection
          /\ UNCHANGED num
    /\ UNCHANGED <<root, classes, leaves, filters, link, ingress, req,
                   outcome>>

\* `class replace`; an existing client needs nothing more.  A number past the
\* last is no class to tc, and then CommandFails is all that can happen.
SetClass ==
    /\ stage = "class"
    /\ num <= LastClassid
    /\ classes' = [classes EXCEPT ![dev] = Put(@, num, Wanted(dev))]
    /\ IF filters[dev][req.client] # NoClass
       THEN AfterDirection
       ELSE stage' = "leaf" /\ dev' = dev
    /\ UNCHANGED <<root, leaves, filters, link, ingress, req, num, outcome>>

SetLeaf ==
    /\ stage = "leaf"
    /\ leaves' = [leaves EXCEPT ![dev] = @ \cup {num}]
    /\ stage' = "filter"
    /\ UNCHANGED <<root, classes, filters, link, ingress, req, dev, num,
                   outcome>>

SetFilter ==
    /\ stage = "filter"
    /\ filters' = [filters EXCEPT ![dev][req.client] = num]
    /\ AfterDirection
    /\ UNCHANGED <<root, classes, leaves, link, ingress, req, num, outcome>>

DeleteFilter ==
    /\ stage = "unfilter"
    /\ filters' = [filters EXCEPT ![dev][req.client] = NoClass]
    /\ stage' = "unleaf"
    /\ UNCHANGED <<root, classes, leaves, link, ingress, req, dev, num,
                   outcome>>

DeleteLeaf ==
    /\ stage = "unleaf"
    /\ leaves' = [leaves EXCEPT ![dev] = @ \ {num}]
    /\ stage' = "unclass"
    /\ UNCHANGED <<root, classes, filters, link, ingress, req, dev, num,
                   outcome>>

DeleteClass ==
    /\ stage = "unclass"
    /\ classes' = [classes EXCEPT ![dev] = Drop(@, num)]
    /\ AfterDirection
    /\ UNCHANGED <<root, leaves, filters, link, ingress, req, num, outcome>>

-----------------------------------------------------------------------------
(* ensure_redirect: the IFB device first, then the ingress hook.           *)

AddLink ==
    /\ stage = "link_add"
    /\ link' = IF link = "absent" THEN "down" ELSE link
    /\ stage' = "link_up"
    /\ UNCHANGED <<root, classes, leaves, filters, ingress, req, dev, num,
                   outcome>>

RaiseLink ==
    /\ stage = "link_up"
    /\ link' = "up"
    /\ stage' = "root"
    /\ UNCHANGED <<root, classes, leaves, filters, ingress, req, dev, num,
                   outcome>>

\* The hook is created only when the interface has none; ours is recognised by
\* its redirect filter.
EnsureIngress ==
    /\ stage = "ingress"
    /\ ingress[req.iface] \in {"none", "ours"}
    /\ \/ /\ ingress[req.iface] = "ours"
          /\ stage' = "classify"
          /\ UNCHANGED ingress
       \/ /\ ingress[req.iface] = "none"
          /\ ingress' = [ingress EXCEPT ![req.iface] = "bare"]
          /\ stage' = "redirect"
    /\ UNCHANGED <<root, classes, leaves, filters, link, req, dev, num,
                   outcome>>

RefuseForeignIngress ==
    /\ stage = "ingress"
    /\ ingress[req.iface] \in {"bare", "foreign"}
    /\ Return("foreign_ingress")
    /\ UNCHANGED <<root, classes, leaves, filters, link, ingress, req, dev>>

AddRedirect ==
    /\ stage = "redirect"
    /\ ingress' = [ingress EXCEPT ![req.iface] = "ours"]
    /\ stage' = "classify"
    /\ UNCHANGED <<root, classes, leaves, filters, link, req, dev, num,
                   outcome>>

-----------------------------------------------------------------------------
(* The end of a call.                                                      *)

\* read_state, compared with what was asked for.
Verify ==
    /\ stage = "verify"
    /\ Return(IF ReadState(req.iface, req.client) = [down |-> req.down, up |-> req.up]
              THEN "ok" ELSE "inconsistent")
    /\ UNCHANGED <<root, classes, leaves, filters, link, ingress, req, dev>>

\* The current command fails or times out, or the helper is killed before it:
\* the call ends here.  A command that took effect before its time-out is this
\* step taken one stage later.
CommandFails ==
    /\ stage # "idle"
    /\ Return("failed")
    /\ UNCHANGED <<root, classes, leaves, filters, link, ingress, req, dev>>

Command ==
    \/ EnsureRoot \/ RefuseForeignRoot
    \/ EnsureParentClass \/ EnsureDefaultClass \/ EnsureDefaultLeaf
    \/ Classify
    \/ SetClass \/ SetLeaf \/ SetFilter
    \/ DeleteFilter \/ DeleteLeaf \/ DeleteClass
    \/ AddLink \/ RaiseLink
    \/ EnsureIngress \/ RefuseForeignIngress \/ AddRedirect
    \/ Verify

Next == (\E r \in Asked : Start(r)) \/ Command \/ CommandFails

Spec == Init /\ [][Next]_vars

-----------------------------------------------------------------------------
(* Properties.                                                             *)

(* "Changing one device's limit must not unintentionally change another    *)
(* device's limit": whatever fails and however classes are reused, the     *)
(* only limit that ever moves is the one the running call names, and it    *)
(* moves straight to the rate asked for (apply_direction).                 *)
LimitsMoveAsAsked ==
    [][\A d \in Devices, c \in Clients :
          Limit(d, c)' # Limit(d, c) =>
              /\ c = req.client /\ d \in {req.iface, Ifb}
              /\ Limit(d, c)' = Wanted(d)]_vars

(* The read at the end of set_limit finds what was asked for, whatever     *)
(* calls that were cut short left behind: `Inconsistent` is never of the   *)
(* program's own doing, but for the one client that next_free_classid gave *)
(* the number of the default class, which read_rates leaves out.           *)
InconsistentOnlyAtDefault ==
    outcome = "inconsistent" =>
        \E d \in {req.iface, Ifb} : filters[d][req.client] = DefaultClassid

(* tc is never given a command it must reject, whatever an earlier call    *)
(* left behind: parents exist, a handle is free when it is added and there *)
(* when it is deleted, a class is deleted only once no filter points to    *)
(* it, and the device exists.  Otherwise a call that failed once could     *)
(* never be repeated with success (ensure_htb_hierarchy, apply_direction). *)
(* What it does reject, the first number past LastClassid, is in SetClass. *)
TcAccepts ==
    /\ stage \in (Hierarchy \ {"root"}) \cup Setting \cup Clearing =>
          root[dev] = "htb"
    /\ stage = "default" => ParentClassid \in DOMAIN classes[dev]
    /\ stage = "default_leaf" => DefaultClassid \in DOMAIN classes[dev]
    /\ stage = "class" => ParentClassid \in DOMAIN classes[dev]
    /\ stage \in {"leaf", "filter"} =>
          /\ num \in DOMAIN classes[dev]
          /\ \A c \in Clients : filters[dev][c] # num
    /\ stage = "unfilter" => filters[dev][req.client] = num
    /\ stage = "unleaf" => num \in leaves[dev]
    /\ stage \in {"unleaf", "unclass"} =>
          /\ num \in DOMAIN classes[dev]
          /\ \A c \in Clients : filters[dev][c] # num
    /\ dev = Ifb /\ stage \notin {"idle", "link_add", "classify", "verify"} =>
          link # "absent"
    /\ stage = "redirect" => ingress[req.iface] = "bare"

(* What another tool set up is never replaced: neither its root qdisc nor  *)
(* its ingress hook (ForeignRootQdisc, ForeignIngressQdisc).               *)
ForeignUntouched ==
    [][/\ \A d \in Devices : root[d] = "foreign" => root'[d] = "foreign"
       /\ \A i \in Ifaces : ingress[i] = "foreign" => ingress'[i] = "foreign"]_vars

\* The hierarchy of hotstream0 lets unlimited clients through.
DefaultOpen ==
    DefaultClassid \in DOMAIN classes[Ifb]
        /\ classes[Ifb][DefaultClassid] = UnlimitedKbit

(* A redirect sends every client's packets to `hotstream0`, so it is set   *)
(* up only once that device is up with its whole hierarchy, and whatever   *)
(* fails later the device stays up and keeps it: traffic of clients        *)
(* without a limit would be lost or throttled (ensure_redirect).  Only a   *)
(* command for a client that next_free_classid gave the number of the      *)
(* default class takes that class away.                                    *)
RedirectReady ==
    [][(\E i \in Ifaces : ingress'[i] = "ours") =>
           /\ link' = "up" /\ root'[Ifb] = "htb"
           /\ ParentClassid \in DOMAIN classes'[Ifb]
           /\ \/ DefaultOpen'
              \/ /\ \A i \in Ifaces : ingress'[i] = "ours" => ingress[i] = "ours"
                 /\ ~DefaultOpen \/ num = DefaultClassid]_vars

(* An upload limit reported as set is one packets meet: the interface of   *)
(* this call redirects to the IFB device.  The final read of set_limit     *)
(* looks at the IFB device only and cannot tell, for instance after the    *)
(* hotspot moved to another interface.                                     *)
UploadsAreRedirected ==
    outcome = "ok" /\ req.up # NoRate => ingress[req.iface] = "ours"
=============================================================================
