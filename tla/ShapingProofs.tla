---------------------------- MODULE ShapingProofs ---------------------------
(***************************************************************************)
(* Proofs about Shaping, for every set of clients, interfaces and rates.   *)
(***************************************************************************)
EXTENDS Shaping, TLAPS, WellFoundedInduction

-----------------------------------------------------------------------------
(* The inductive invariant.                                                *)

\* A client's filter names a class of its own that is there with its queue.
FiltersBacked ==
    \A d \in Devices, c \in Clients :
        filters[d][c] # NoClass =>
            /\ filters[d][c] \in ClientClassids
            /\ filters[d][c] \in DOMAIN classes[d] \cap leaves[d]
            /\ root[d] = "htb"
            /\ d = Ifb => link # "absent"

FiltersDistinct ==
    \A d \in Devices, c, e \in Clients :
        filters[d][c] # NoClass /\ filters[d][c] = filters[d][e] => c = e

\* A device that classes can be put on, and one with the whole hierarchy.
Based(d) == root[d] = "htb" /\ ParentClassid \in DOMAIN classes[d]

Shaped(d) ==
    /\ Based(d)
    /\ DefaultClassid \in DOMAIN classes[d]
    /\ classes[d][DefaultClassid] = UnlimitedKbit

\* What the running call has established when it gets to its current stage.
Placed ==
    /\ dev \in {req.iface, Ifb}
    /\ stage \in Redirect \cup {"verify"} => dev = Ifb
    /\ dev = Ifb /\ stage \in Hierarchy \cup Redirect => req.up # NoRate
    /\ stage # "idle" => outcome = "none"

HierarchyBuilt ==
    /\ stage \in {"parent", "default", "default_leaf"} => root[dev] = "htb"
    /\ stage \in {"default", "default_leaf"} =>
          ParentClassid \in DOMAIN classes[dev]
    /\ stage = "default_leaf" => Shaped(dev)
    /\ stage \in Setting => Based(dev)
    /\ stage = "classify" /\ (dev # Ifb \/ req.up # NoRate) => Based(dev)

IfbUp ==
    /\ dev = Ifb /\ stage \in {"link_up"} => link # "absent"
    /\ dev = Ifb /\ stage \in Hierarchy \cup Setting => link = "up"
    /\ stage \in {"ingress", "redirect"} => link = "up" /\ Shaped(Ifb)
    /\ stage = "redirect" => ingress[req.iface] = "bare"
    /\ (\E i \in Ifaces : ingress[i] = "ours") => link = "up" /\ Based(Ifb)

\* The class the call works on: its client's, or nobody's.
Working ==
    /\ stage \in Setting =>
          /\ Wanted(dev) # NoRate
          /\ num \in FirstClassid .. LastClassid + 1
          /\ \A c \in Clients : filters[dev][c] = num => c = req.client
    /\ stage = "class" /\ filters[dev][req.client] # NoClass =>
          filters[dev][req.client] = num
    /\ stage \in {"leaf", "filter"} =>
          /\ filters[dev][req.client] = NoClass /\ num \in ClientClassids
          /\ num \in DOMAIN classes[dev] /\ classes[dev][num] = Wanted(dev)
    /\ stage = "filter" => num \in leaves[dev]
    /\ stage \in Clearing =>
          /\ Wanted(dev) = NoRate /\ num \in ClientClassids
          /\ num \in DOMAIN classes[dev] /\ root[dev] = "htb"
          /\ dev = Ifb => link # "absent"
    /\ stage = "unfilter" => filters[dev][req.client] = num
    /\ stage \in {"unfilter", "unleaf"} => num \in leaves[dev]
    /\ stage \in {"unleaf", "unclass"} =>
          \A c \in Clients : filters[dev][c] # num
    /\ stage \in {"unleaf", "unclass"} => filters[dev][req.client] = NoClass

\* One direction of the running call reads back as asked for.
AsAsked(d, rate) ==
    \/ Limit(d, req.client) = rate
    \/ filters[d][req.client] = DefaultClassid

\* What is done stays done until the final check.
Applied ==
    /\ stage # "idle" /\ dev = Ifb => AsAsked(req.iface, req.down)
    /\ stage = "verify" => AsAsked(Ifb, req.up)
    /\ /\ req.up # NoRate /\ dev = Ifb
       /\ stage \in {"classify", "verify"} \cup Setting \cup Clearing
       => ingress[req.iface] = "ours"

ShapingInv ==
    /\ TypeOK /\ FiltersBacked /\ FiltersDistinct /\ Placed
    /\ HierarchyBuilt /\ IfbUp /\ Working /\ Applied
    /\ InconsistentOnlyAtDefault /\ UploadsAreRedirected

-----------------------------------------------------------------------------
(* Lemmas about the helpers.                                               *)

\* A bounded set of numbers has a greatest one, and Max is it.
LEMMA MaxIsGreatest ==
    ASSUME NEW S \in SUBSET Nat, NEW b \in Nat, S # {},
           \A n \in S : n <= b
    PROVE  Max(S) \in S /\ \A n \in S : n <= Max(S)
<1> DEFINE T == {b - n : n \in S}
<1>1. T \subseteq Nat /\ T # {}
  <2>1. \A n \in S : b - n \in Nat
    OBVIOUS
  <2>2. PICK n \in S : TRUE
    OBVIOUS
  <2> QED
    BY <2>1, <2>2
<1>2. PICK t \in T : \A u \in T : ~ (<<u, t>> \in OpToRel(<, Nat))
  BY <1>1, WFMin, NatLessThanWellFounded, Zenon
<1>3. \A u \in T : ~ (u < t)
  BY <1>1, <1>2 DEF OpToRel
<1>4. PICK m \in S : t = b - m
  OBVIOUS
<1>5. \A n \in S : m >= n
  <2> TAKE n \in S
  <2>1. b - n \in T
    OBVIOUS
  <2>2. ~ (b - n < b - m)
    BY <2>1, <1>3, <1>4
  <2> QED
    BY <2>2
<1>6. Max(S) \in S /\ \A n \in S : Max(S) >= n
  BY <1>5 DEF Max
<1> QED
  BY <1>6

\* The next free class is a client's class that no filter of the device names.
LEMMA NextIsFree ==
    ASSUME TypeOK, FiltersBacked, NEW d \in Devices
    PROVE  /\ NextFreeClassid(d) \in Nat
           /\ NextFreeClassid(d) \in FirstClassid .. LastClassid + 1
           /\ \A c \in Clients : filters[d][c] # NextFreeClassid(d)
<1> DEFINE S == {n + 1 : n \in UsedClassids(d)} \cup {FirstClassid}
<1>1. UsedClassids(d) \subseteq ClientClassids
  BY DEF UsedClassids, FiltersBacked
<1>2. /\ FirstClassid \in Nat /\ FirstClassid > 0
      /\ LastClassid \in Nat /\ FirstClassid <= LastClassid
  BY ShapingAssumption DEF ParentClassid
<1> DEFINE b == LastClassid + 1
<1>3. S \in SUBSET Nat /\ S # {} /\ b \in Nat /\ \A n \in S : n <= b
  BY <1>1, <1>2 DEF ClientClassids
<1>a. FirstClassid \in S /\ \A n \in UsedClassids(d) : n \in Nat /\ n + 1 \in S
  BY <1>1, <1>2 DEF ClientClassids
<1> HIDE DEF S, b
<1>4. Max(S) \in S /\ \A n \in S : n <= Max(S)
  BY <1>3, MaxIsGreatest
<1>5. \A n \in UsedClassids(d) : n # Max(S)
  BY <1>3, <1>4, <1>a
<1>6. NextFreeClassid(d) = Max(S)
  BY DEF NextFreeClassid, S
<1>7. \A c \in Clients : filters[d][c] # Max(S)
  <2> TAKE c \in Clients
  <2>1. CASE filters[d][c] = NoClass
    BY <2>1, <1>2, <1>3, <1>4, <1>a DEF NoClass
  <2>2. CASE filters[d][c] # NoClass
    BY <2>2, <1>5 DEF UsedClassids
  <2> QED
    BY <2>1, <2>2
<1>8. Max(S) \in Nat /\ FirstClassid <= Max(S) /\ Max(S) <= b
  BY <1>3, <1>4, <1>a
<1> QED
  BY <1>2, <1>6, <1>7, <1>8 DEF b
-----------------------------------------------------------------------------
(* One lemma per kind of step.                                             *)

\* A limit only depends on the classes and the filters of its device.
LEMMA LimitFrame ==
    ASSUME NEW d, NEW c,
           classes'[d] = classes[d], filters'[d] = filters[d]
    PROVE  Limit(d, c)' = Limit(d, c)
BY DEF Limit

\* A `class replace` changes one class of one device.
LEMMA ClassPut ==
    ASSUME TypeOK, NEW k, NEW v, 
           classes' = [classes EXCEPT ![dev] = Put(@, k, v)]
    PROVE  /\ DOMAIN classes' = Devices
           /\ \A d \in Devices : d # dev => classes'[d] = classes[d]
           /\ DOMAIN classes'[dev] = DOMAIN classes[dev] \cup {k}
           /\ classes'[dev][k] = v
           /\ \A n \in DOMAIN classes[dev] :
                 n # k => classes'[dev][n] = classes[dev][n]
<1>1. classes'[dev] = Put(classes[dev], k, v)
  BY DEF TypeOK
<1>2. DOMAIN classes' = Devices /\ \A d \in Devices : d # dev => classes'[d] = classes[d]
  BY DEF TypeOK
<1>3. /\ DOMAIN Put(classes[dev], k, v) = DOMAIN classes[dev] \cup {k}
      /\ Put(classes[dev], k, v)[k] = v
      /\ \A n \in DOMAIN classes[dev] :
            n # k => Put(classes[dev], k, v)[n] = classes[dev][n]
  BY DEF Put
<1> QED
  BY <1>1, <1>2, <1>3

\* A `class del` removes one class of one device.
LEMMA ClassDrop ==
    ASSUME TypeOK, NEW k,
           classes' = [classes EXCEPT ![dev] = Drop(@, k)]
    PROVE  /\ DOMAIN classes' = Devices
           /\ \A d \in Devices : d # dev => classes'[d] = classes[d]
           /\ DOMAIN classes'[dev] = DOMAIN classes[dev] \ {k}
           /\ \A n \in DOMAIN classes[dev] :
                 n # k => classes'[dev][n] = classes[dev][n]
<1>1. classes'[dev] = Drop(classes[dev], k)
  BY DEF TypeOK
<1>2. DOMAIN classes' = Devices /\ \A d \in Devices : d # dev => classes'[d] = classes[d]
  BY DEF TypeOK
<1>3. /\ DOMAIN Drop(classes[dev], k) = DOMAIN classes[dev] \ {k}
      /\ \A n \in DOMAIN classes[dev] :
            n # k => Drop(classes[dev], k)[n] = classes[dev][n]
  BY DEF Drop
<1> QED
  BY <1>1, <1>2, <1>3

\* The numbers of clients' classes are not the parent's; the default's is one.
LEMMA ClientClassesApart ==
    /\ ClientClassids \subseteq Classids \cap Nat
    /\ ClientClassids \cap {ParentClassid, NoClass} = {}
    /\ {ParentClassid, DefaultClassid} \subseteq Classids
    /\ ParentClassid # DefaultClassid
    /\ NoClass \notin Classids
BY ShapingAssumption DEF ClientClassids, Classids, ParentClassid, NoClass

\* EnsureRoot: the root qdisc is ours afterwards.
LEMMA EnsureRootStep ==
    ShapingInv /\ EnsureRoot => ShapingInv'
<1> SUFFICES ASSUME ShapingInv, EnsureRoot
             PROVE  ShapingInv'
  OBVIOUS
<1> USE DEF ShapingInv, NoClass, NoRate, ParentClassid
<1>1. TypeOK'
  BY ShapingAssumption
  DEF EnsureRoot, TypeOK, Stages, Hierarchy, Setting, Clearing, Redirect,
      Outcomes, Classids, Devices
<1>2. FiltersBacked' /\ FiltersDistinct' /\ Working'
  BY ShapingAssumption
  DEF EnsureRoot, FiltersBacked, TypeOK, FiltersDistinct, Working,
      Setting, Clearing, Wanted, Placed
<1>3. Placed' /\ HierarchyBuilt' /\ IfbUp'
  BY ShapingAssumption
  DEF EnsureRoot, Placed, TypeOK, Redirect, Hierarchy, Setting, Clearing,
      HierarchyBuilt, Shaped, Based, IfbUp, FiltersBacked
<1>4. Applied'
  BY ShapingAssumption, LimitFrame
  DEF EnsureRoot, TypeOK, Wanted, Placed, Hierarchy,
      Redirect, Applied, AsAsked, Setting, Clearing, Limit
<1>5. InconsistentOnlyAtDefault' /\ UploadsAreRedirected'
  BY ShapingAssumption
  DEF EnsureRoot, InconsistentOnlyAtDefault, Placed, UploadsAreRedirected, TypeOK
<1> QED
  BY <1>1, <1>2, <1>3, <1>4, <1>5

\* EnsureParentClass: the parent class is there afterwards.
LEMMA EnsureParentClassStep ==
    ShapingInv /\ EnsureParentClass => ShapingInv'
<1> SUFFICES ASSUME ShapingInv, EnsureParentClass
             PROVE  ShapingInv'
  OBVIOUS
<1> USE DEF ShapingInv, NoClass, NoRate, ParentClassid
<1>a. stage = "parent" /\ UNCHANGED <<root, leaves, filters, link, ingress, req, dev, num, outcome>>
  BY DEF EnsureParentClass
<1>b. /\ DOMAIN classes' = Devices
      /\ \A d \in Devices : d # dev => classes'[d] = classes[d]
      /\ DOMAIN classes'[dev] = DOMAIN classes[dev] \cup {ParentClassid}
      /\ classes'[dev][ParentClassid] = UnlimitedKbit
      /\ \A n \in DOMAIN classes[dev] :
            n # ParentClassid => classes'[dev][n] = classes[dev][n]
  BY ClassPut DEF EnsureParentClass
<1>c. stage' = "default"
  BY DEF EnsureParentClass
<1>d. dev \in Devices /\ req.iface \in Devices /\ Ifb \in Devices /\ req.iface # Ifb
  BY ShapingAssumption DEF TypeOK, Requests, Devices
<1>e. req.client \in Clients /\ dev' \in Devices
  BY <1>a, <1>c, <1>d DEF TypeOK, Requests, AfterDirection
<1>1. FiltersBacked' /\ FiltersDistinct' /\ Working'
  BY <1>a, <1>b, <1>c, <1>d, <1>e, ClientClassesApart
  DEF FiltersBacked, TypeOK, FiltersDistinct, Working, Setting, Clearing,
      Wanted, Placed
<1>2. Placed' /\ HierarchyBuilt' /\ IfbUp'
  BY <1>a, <1>b, <1>c, <1>d, <1>e, ClientClassesApart
  DEF Placed, TypeOK, Redirect, Hierarchy, Setting, Clearing,
      HierarchyBuilt, Shaped, Based, IfbUp, FiltersBacked
<1>3. Applied'
  BY <1>a, <1>b, <1>c, <1>d, <1>e, ClientClassesApart, LimitFrame
  DEF TypeOK, Wanted, Placed, Hierarchy, Redirect,
      Applied, AsAsked, Setting, Clearing, Limit
<1>4. InconsistentOnlyAtDefault' /\ UploadsAreRedirected'
  BY <1>a, <1>b, <1>c, <1>d, <1>e, ClientClassesApart
  DEF InconsistentOnlyAtDefault, Placed, UploadsAreRedirected, TypeOK
<1>5. TypeOK'
  <2>1. ASSUME NEW d \in Devices
        PROVE  /\ DOMAIN classes'[d] \subseteq Classids
               /\ \A n \in DOMAIN classes'[d] : classes'[d][n] \in Rates \cup {UnlimitedKbit}
    <3>1. CASE d # dev
      BY <1>b, <2>1, <3>1 DEF TypeOK
    <3>2. CASE d = dev
      BY <1>b, <1>d, <3>2, ClientClassesApart DEF TypeOK
    <3> QED
      BY <3>1, <3>2
  <2>2. stage' \in Stages
    BY <1>c DEF Stages, Hierarchy
  <2> QED
    BY <1>a, <1>b, <1>e, <2>1, <2>2 DEF TypeOK
<1> QED
  BY <1>1, <1>2, <1>3, <1>4, <1>5

\* EnsureDefaultClass: the hierarchy is complete.
LEMMA EnsureDefaultClassStep ==
    ShapingInv /\ EnsureDefaultClass => ShapingInv'
<1> SUFFICES ASSUME ShapingInv, EnsureDefaultClass
             PROVE  ShapingInv'
  OBVIOUS
<1> USE DEF ShapingInv, NoClass, NoRate, ParentClassid
<1>a. stage = "default" /\ UNCHANGED <<root, leaves, filters, link, ingress, req, dev, num, outcome>>
  BY DEF EnsureDefaultClass
<1>b. /\ DOMAIN classes' = Devices
      /\ \A d \in Devices : d # dev => classes'[d] = classes[d]
      /\ DOMAIN classes'[dev] = DOMAIN classes[dev] \cup {DefaultClassid}
      /\ classes'[dev][DefaultClassid] = UnlimitedKbit
      /\ \A n \in DOMAIN classes[dev] :
            n # DefaultClassid => classes'[dev][n] = classes[dev][n]
  BY ClassPut DEF EnsureDefaultClass
<1>c. stage' = "default_leaf"
  BY DEF EnsureDefaultClass
<1>d. dev \in Devices /\ req.iface \in Devices /\ Ifb \in Devices /\ req.iface # Ifb
  BY ShapingAssumption DEF TypeOK, Requests, Devices
<1>e. req.client \in Clients /\ dev' \in Devices
  BY <1>a, <1>c, <1>d DEF TypeOK, Requests, AfterDirection
<1>1. FiltersBacked' /\ FiltersDistinct' /\ Working'
  BY <1>a, <1>b, <1>c, <1>d, <1>e, ClientClassesApart
  DEF FiltersBacked, TypeOK, FiltersDistinct, Working, Setting, Clearing,
      Wanted, Placed
<1>2. Placed' /\ HierarchyBuilt' /\ IfbUp'
  BY <1>a, <1>b, <1>c, <1>d, <1>e, ClientClassesApart
  DEF Placed, TypeOK, Redirect, Hierarchy, Setting, Clearing,
      HierarchyBuilt, Shaped, Based, IfbUp, FiltersBacked
<1>3. Applied'
  BY <1>a, <1>b, <1>c, <1>d, <1>e, ClientClassesApart, LimitFrame
  DEF TypeOK, Wanted, Placed, Hierarchy, Redirect,
      Applied, AsAsked, Setting, Clearing, Limit
<1>4. InconsistentOnlyAtDefault' /\ UploadsAreRedirected'
  BY <1>a, <1>b, <1>c, <1>d, <1>e, ClientClassesApart
  DEF InconsistentOnlyAtDefault, Placed, UploadsAreRedirected, TypeOK
<1>5. TypeOK'
  <2>1. ASSUME NEW d \in Devices
        PROVE  /\ DOMAIN classes'[d] \subseteq Classids
               /\ \A n \in DOMAIN classes'[d] : classes'[d][n] \in Rates \cup {UnlimitedKbit}
    <3>1. CASE d # dev
      BY <1>b, <2>1, <3>1 DEF TypeOK
    <3>2. CASE d = dev
      BY <1>b, <1>d, <3>2, ClientClassesApart DEF TypeOK
    <3> QED
      BY <3>1, <3>2
  <2>2. stage' \in Stages
    BY <1>c DEF Stages, Hierarchy
  <2> QED
    BY <1>a, <1>b, <1>e, <2>1, <2>2 DEF TypeOK
<1> QED
  BY <1>1, <1>2, <1>3, <1>4, <1>5

\* EnsureDefaultLeaf: the hierarchy is built; the call goes on with the hook or the client.
LEMMA EnsureDefaultLeafStep ==
    ShapingInv /\ EnsureDefaultLeaf => ShapingInv'
<1> SUFFICES ASSUME ShapingInv, EnsureDefaultLeaf
             PROVE  ShapingInv'
  OBVIOUS
<1> USE DEF ShapingInv, NoClass, NoRate, ParentClassid
<1>a. req.iface \in Devices /\ Ifb \in Devices /\ req.iface # Ifb
      /\ req.client \in Clients /\ dev \in Devices
  BY ShapingAssumption DEF TypeOK, Requests, Devices
<1>1. TypeOK'
  BY <1>a, ClientClassesApart DEF EnsureDefaultLeaf, TypeOK, Stages, Hierarchy, Redirect
<1>2. FiltersBacked' /\ FiltersDistinct' /\ Working'
  BY ShapingAssumption
  DEF EnsureDefaultLeaf, FiltersBacked, TypeOK, FiltersDistinct, Working,
      Setting, Clearing, Wanted, Placed
<1>3. Placed' /\ HierarchyBuilt'
  BY ShapingAssumption
  DEF EnsureDefaultLeaf, Placed, TypeOK, Redirect, Hierarchy, Setting,
      Clearing, HierarchyBuilt, Shaped, Based
<1>4. Applied'
  BY ShapingAssumption, LimitFrame
  DEF EnsureDefaultLeaf, TypeOK, Wanted, Placed,
      Hierarchy, Redirect, Applied, AsAsked, Setting, Clearing, Limit
<1>5. InconsistentOnlyAtDefault' /\ UploadsAreRedirected'
  BY ShapingAssumption
  DEF EnsureDefaultLeaf, InconsistentOnlyAtDefault, Placed, UploadsAreRedirected,
      TypeOK
<1>6. IfbUp'
  <2>1. UNCHANGED <<root, classes, link, ingress>> /\ dev' = dev
        /\ stage' = IF dev = Ifb THEN "ingress" ELSE "classify"
    BY DEF EnsureDefaultLeaf
  <2>2. (Shaped(Ifb)' <=> Shaped(Ifb)) /\ (Based(Ifb)' <=> Based(Ifb))
    BY <2>1 DEF Shaped, Based
  <2>3. dev = Ifb => link = "up" /\ Shaped(Ifb)
    BY DEF EnsureDefaultLeaf, IfbUp, HierarchyBuilt, Hierarchy
  <2> QED
    BY <2>1, <2>2, <2>3 DEF IfbUp, Hierarchy, Setting
<1> QED
  BY <1>1, <1>2, <1>3, <1>4, <1>5, <1>6

\* Classify: the class to work on is the client's own or nobody's.
LEMMA ClassifyStep ==
    ShapingInv /\ Classify => ShapingInv'
<1> SUFFICES ASSUME ShapingInv, Classify
             PROVE  ShapingInv'
  OBVIOUS
<1> USE DEF ShapingInv, NoClass, NoRate, ParentClassid
<1>a. req.iface \in Devices /\ Ifb \in Devices /\ req.iface # Ifb
      /\ req.client \in Clients /\ dev \in Devices
  BY ShapingAssumption DEF TypeOK, Requests, Devices
<1> DEFINE current == filters[dev][req.client]
<1>c. UNCHANGED <<root, classes, leaves, filters, link, ingress, req, outcome>>
  BY DEF Classify
<1>d. \/ /\ Wanted(dev) # NoRate
         /\ num' = IF current # NoClass THEN current ELSE NextFreeClassid(dev)
         /\ stage' = "class" /\ dev' = dev
      \/ /\ Wanted(dev) = NoRate /\ current # NoClass
         /\ num' = current /\ stage' = "unfilter" /\ dev' = dev
      \/ /\ Wanted(dev) = NoRate /\ current = NoClass
         /\ AfterDirection /\ num' = num
  BY DEF Classify
<1>e. stage = "classify" /\ stage' \in {"class", "unfilter", "verify", "link_add", "classify"}
      /\ dev' \in Devices
  BY <1>a, <1>d DEF Classify, AfterDirection
<1>f. Wanted(dev) # NoRate => num' \in FirstClassid .. LastClassid + 1
  <2>1. CASE current # NoClass
    BY <1>a, <1>d, <2>1, ShapingAssumption DEF FiltersBacked, ClientClassids
  <2>2. CASE current = NoClass
    BY <1>a, <1>d, <1>e, <2>2, NextIsFree
  <2> QED
    BY <2>1, <2>2
<1>g. stage' \in {"class", "unfilter"} => Wanted(dev)' = Wanted(dev) /\ dev' = dev
  BY <1>c, <1>d DEF AfterDirection, Wanted
<1>h. \A d \in Devices : Limit(d, req.client)' = Limit(d, req.client)
  BY <1>c DEF Limit
<1> HIDE DEF current
<1>1. FiltersBacked' /\ FiltersDistinct'
  BY ShapingAssumption
  DEF Classify, FiltersBacked, TypeOK, FiltersDistinct, AfterDirection
<1>2. Placed'
  BY ShapingAssumption
  DEF Classify, Placed, TypeOK, Redirect, Hierarchy, Setting, Clearing,
      AfterDirection
<1>4. InconsistentOnlyAtDefault' /\ UploadsAreRedirected'
  BY ShapingAssumption
  DEF Classify, InconsistentOnlyAtDefault, Placed, UploadsAreRedirected, TypeOK,
      AfterDirection
<1>5. TypeOK'
  <2>1. num' \in ClientClassids \cup {NoClass, LastClassid + 1}
    <3>1. CASE Wanted(dev) # NoRate
      BY <1>f, <3>1, ShapingAssumption DEF ClientClassids
    <3>2. CASE Wanted(dev) = NoRate /\ current # NoClass
      BY <1>a, <1>d, <3>2 DEF FiltersBacked, current
    <3>3. CASE Wanted(dev) = NoRate /\ current = NoClass
      BY <1>d, <3>3 DEF TypeOK
    <3> QED
      BY <3>1, <3>2, <3>3
  <2>2. stage' \in Stages
    BY <1>e DEF Stages, Setting, Clearing, Redirect
  <2> QED
    BY <1>c, <1>e, <2>1, <2>2 DEF TypeOK
<1>6. HierarchyBuilt'
  <2>1. \A d \in Devices : Based(d)' <=> Based(d)
    BY <1>c DEF Based
  <2>2. Wanted(dev) # NoRate => Based(dev)
    BY <1>a, <1>e DEF HierarchyBuilt, Wanted
  <2>3. stage' = "classify" => dev' = Ifb /\ req'.up = NoRate
    BY <1>c, <1>d DEF AfterDirection
  <2> QED
    BY <1>a, <1>d, <1>e, <2>1, <2>2, <2>3 DEF HierarchyBuilt, Setting, AfterDirection
<1>7. IfbUp'
  <2>1. Based(Ifb)' <=> Based(Ifb)
    BY <1>c DEF Based
  <2>2. dev = Ifb /\ Wanted(dev) # NoRate => link = "up"
    BY <1>a, <1>e DEF IfbUp, Applied, AsAsked, Wanted, TypeOK, Requests
  <2> QED
    BY <1>a, <1>c, <1>d, <1>e, <2>1, <2>2
    DEF IfbUp, Hierarchy, Setting, AfterDirection
<1>8. Working'
  <2>1. CASE stage' = "class"
    <3>1. Wanted(dev)' # NoRate /\ num' \in FirstClassid .. LastClassid + 1
      BY <1>d, <1>f, <1>g, <2>1 DEF AfterDirection
    <3>2. \A c \in Clients : filters[dev][c] = num' => c = req.client
      <4>1. CASE current = NoClass
        BY <1>a, <1>d, <2>1, <3>1, <4>1, NextIsFree DEF AfterDirection
      <4>2. CASE current # NoClass
        BY <1>a, <1>d, <2>1, <4>2 DEF FiltersDistinct, current, AfterDirection
      <4> QED
        BY <4>1, <4>2
    <3>3. current # NoClass => num' = current
      BY <1>d, <2>1 DEF AfterDirection
    <3> QED
      BY <1>c, <1>g, <2>1, <3>1, <3>2, <3>3
      DEF Working, Setting, Clearing, current
  <2>2. CASE stage' = "unfilter"
    <3>1. num' = current /\ current # NoClass /\ Wanted(dev)' = NoRate
      BY <1>d, <1>g, <2>2 DEF AfterDirection
    <3> QED
      BY <1>a, <1>c, <1>g, <2>2, <3>1
      DEF Working, Setting, Clearing, FiltersBacked, current
  <2> QED
    BY <1>e, <2>1, <2>2 DEF Working, Setting, Clearing
<1>9. Applied'
  <2>1. filters[dev][req.client] = NoClass => Limit(dev, req.client) = NoRate
    BY <1>a, ClientClassesApart DEF Limit, TypeOK
  <2> QED
    BY <1>a, <1>c, <1>d, <1>e, <1>h, <2>1
    DEF Applied, AsAsked, Placed, Setting, Clearing, AfterDirection, Wanted, current
<1> QED
  BY <1>1, <1>2, <1>4, <1>5, <1>6, <1>7, <1>8, <1>9

\* SetClass: an existing client's limit is the one asked for.
LEMMA SetClassStep ==
    ShapingInv /\ SetClass => ShapingInv'
<1> SUFFICES ASSUME ShapingInv, SetClass
             PROVE  ShapingInv'
  OBVIOUS
<1> USE DEF ShapingInv, NoClass, NoRate, ParentClassid
<1>a. stage = "class" /\ UNCHANGED <<root, leaves, filters, link, ingress, req, num, outcome>>
  BY DEF SetClass
<1>b. /\ DOMAIN classes' = Devices
      /\ \A d \in Devices : d # dev => classes'[d] = classes[d]
      /\ DOMAIN classes'[dev] = DOMAIN classes[dev] \cup {num}
      /\ classes'[dev][num] = Wanted(dev)
      /\ \A n \in DOMAIN classes[dev] :
            n # num => classes'[dev][n] = classes[dev][n]
  BY ClassPut DEF SetClass
<1>c. IF filters[dev][req.client] # NoClass
      THEN AfterDirection ELSE stage' = "leaf" /\ dev' = dev
  BY DEF SetClass
<1>d. dev \in Devices /\ req.iface \in Devices /\ Ifb \in Devices /\ req.iface # Ifb
  BY ShapingAssumption DEF TypeOK, Requests, Devices
<1>e. req.client \in Clients /\ dev' \in Devices
  BY <1>a, <1>c, <1>d DEF TypeOK, Requests, AfterDirection
<1>f. num \in ClientClassids /\ num \notin {ParentClassid, NoClass}
  <2>1. num \in FirstClassid .. LastClassid + 1 /\ num <= LastClassid
    BY DEF SetClass, Working, Setting
  <2> QED
    BY <2>1, ShapingAssumption, ClientClassesApart DEF ClientClassids
<1>g. Wanted(dev) \in Rates \cup {NoRate}
  BY <1>d DEF TypeOK, Requests, Wanted
<1>1. FiltersBacked' /\ FiltersDistinct' /\ Working'
  BY <1>a, <1>b, <1>c, <1>d, <1>e, <1>f, <1>g, ClientClassesApart
  DEF FiltersBacked, TypeOK, FiltersDistinct, Working, Setting, Clearing,
      Wanted, Placed, AfterDirection
<1>2. Placed' /\ HierarchyBuilt' /\ IfbUp'
  BY <1>a, <1>b, <1>c, <1>d, <1>e, <1>f, <1>g, ClientClassesApart
  DEF Placed, TypeOK, Redirect, Hierarchy, Setting, Clearing,
      HierarchyBuilt, Shaped, Based, IfbUp, FiltersBacked, AfterDirection
<1>4. InconsistentOnlyAtDefault' /\ UploadsAreRedirected'
  BY <1>a, <1>b, <1>c, <1>d, <1>e, <1>f, <1>g, ClientClassesApart
  DEF InconsistentOnlyAtDefault, Placed, UploadsAreRedirected, TypeOK,
      AfterDirection
<1>5. TypeOK'
  <2>1. Wanted(dev) # NoRate
    BY <1>a DEF Working, Setting
  <2>2. ASSUME NEW d \in Devices
        PROVE  /\ DOMAIN classes'[d] \subseteq Classids
               /\ \A n \in DOMAIN classes'[d] : classes'[d][n] \in Rates \cup {UnlimitedKbit}
    <3>1. CASE d # dev
      BY <1>b, <2>2, <3>1 DEF TypeOK
    <3>2. CASE d = dev
      BY <1>b, <1>d, <1>f, <1>g, <3>2, <2>1, ClientClassesApart DEF TypeOK
    <3> QED
      BY <3>1, <3>2
  <2>3. stage' \in Stages
    BY <1>c DEF Stages, Hierarchy, Setting, Clearing, Redirect, AfterDirection
  <2> QED
    BY <1>a, <1>b, <1>e, <2>2, <2>3 DEF TypeOK
<1>6. Applied'
  <2>1. ASSUME filters[dev][req.client] # NoClass, NEW d \in Devices, d = dev
        PROVE  \/ Limit(d, req.client)' = Wanted(dev)
               \/ filters[d][req.client] = DefaultClassid
    BY <1>a, <1>b, <1>d, <1>f, <2>1 DEF Limit, Working, InfrastructureClasses
  <2>2. \A d \in Devices : d # dev => Limit(d, req.client)' = Limit(d, req.client)
    BY <1>a, <1>b, LimitFrame
  <2>3. CASE filters[dev][req.client] = NoClass
    BY <1>a, <1>c, <1>d, <2>2, <2>3 DEF Applied, AsAsked, Placed, Setting, Clearing
  <2>4. CASE filters[dev][req.client] # NoClass
    BY <1>a, <1>c, <1>d, <2>1, <2>2, <2>4
    DEF Applied, AsAsked, Placed, Setting, Clearing, AfterDirection, Wanted
  <2> QED
    BY <2>3, <2>4
<1> QED
  BY <1>1, <1>2, <1>4, <1>5, <1>6

\* SetLeaf: the new class has a queue.
LEMMA SetLeafStep ==
    ShapingInv /\ SetLeaf => ShapingInv'
<1> SUFFICES ASSUME ShapingInv, SetLeaf
             PROVE  ShapingInv'
  OBVIOUS
<1> USE DEF ShapingInv, NoClass, NoRate, ParentClassid
<1>a. req.iface \in Devices /\ Ifb \in Devices /\ req.iface # Ifb
      /\ req.client \in Clients /\ dev \in Devices
  BY ShapingAssumption DEF TypeOK, Requests, Devices
<1>1. FiltersBacked' /\ FiltersDistinct' /\ Working'
  BY ShapingAssumption
  DEF SetLeaf, FiltersBacked, TypeOK, FiltersDistinct, Working, Setting,
      Clearing, Wanted, Placed
<1>2. Placed' /\ HierarchyBuilt' /\ IfbUp'
  BY ShapingAssumption
  DEF SetLeaf, Placed, TypeOK, Redirect, Hierarchy, Setting, Clearing,
      HierarchyBuilt, Shaped, Based, IfbUp, FiltersBacked
<1>3. Applied'
  BY ShapingAssumption, LimitFrame
  DEF SetLeaf, TypeOK, Wanted, Placed, Hierarchy,
      Redirect, Applied, AsAsked, Setting, Clearing, Limit
<1>4. InconsistentOnlyAtDefault' /\ UploadsAreRedirected'
  BY ShapingAssumption
  DEF SetLeaf, InconsistentOnlyAtDefault, Placed, UploadsAreRedirected, TypeOK
<1>5. TypeOK'
  <2>1. num \in Classids
    BY ClientClassesApart DEF SetLeaf, Working, Setting
  <2>2. stage' \in Stages
    BY DEF SetLeaf, Stages, Setting
  <2> QED
    BY <1>a, <2>1, <2>2 DEF SetLeaf, TypeOK
<1> QED
  BY <1>1, <1>2, <1>3, <1>4, <1>5

\* SetFilter: the new class is the client's, and nobody else's.
LEMMA SetFilterStep ==
    ShapingInv /\ SetFilter => ShapingInv'
<1> SUFFICES ASSUME ShapingInv, SetFilter
             PROVE  ShapingInv'
  OBVIOUS
<1> USE DEF ShapingInv, NoClass, NoRate, ParentClassid
<1>a. req.iface \in Devices /\ Ifb \in Devices /\ req.iface # Ifb
      /\ req.client \in Clients /\ dev \in Devices
  BY ShapingAssumption DEF TypeOK, Requests, Devices
<1>1. TypeOK'
  <2>1. num \in Classids
    BY ClientClassesApart DEF SetFilter, Working
  <2>2. stage' \in Stages /\ dev' \in Devices
    BY <1>a DEF SetFilter, AfterDirection, Stages, Redirect
  <2> QED
    BY <1>a, <2>1, <2>2 DEF SetFilter, TypeOK
<1>2. Working'
  BY ShapingAssumption
  DEF SetFilter, Working, TypeOK, Setting, Clearing, Wanted, Placed,
      AfterDirection
<1>3. Placed' /\ HierarchyBuilt' /\ IfbUp'
  BY ShapingAssumption
  DEF SetFilter, Placed, TypeOK, Redirect, Hierarchy, Setting, Clearing,
      HierarchyBuilt, Shaped, Based, IfbUp, FiltersBacked, AfterDirection
<1>5. InconsistentOnlyAtDefault' /\ UploadsAreRedirected'
  BY ShapingAssumption
  DEF SetFilter, InconsistentOnlyAtDefault, Placed, UploadsAreRedirected, TypeOK,
      AfterDirection
<1>6. FiltersBacked'
  <2>1. num \in ClientClassids /\ num \in DOMAIN classes[dev] \cap leaves[dev]
    BY DEF SetFilter, Working, Setting
  <2>2. root[dev] = "htb" /\ (dev = Ifb => link # "absent")
    BY DEF SetFilter, HierarchyBuilt, Shaped, Based, IfbUp, Setting
  <2>3. \A d \in Devices, c \in Clients :
            filters'[d][c] = IF d = dev /\ c = req.client THEN num ELSE filters[d][c]
    BY <1>a DEF SetFilter, TypeOK
  <2> QED
    BY <2>1, <2>2, <2>3 DEF SetFilter, FiltersBacked
<1>7. FiltersDistinct'
  <2>1. \A c \in Clients : filters[dev][c] = num => c = req.client
    BY DEF SetFilter, Working, Setting
  <2>2. \A d \in Devices, c \in Clients :
            filters'[d][c] = IF d = dev /\ c = req.client THEN num ELSE filters[d][c]
    BY <1>a DEF SetFilter, TypeOK
  <2> QED
    BY <2>1, <2>2 DEF FiltersDistinct
<1>8. Applied'
  <2>1. \A d \in Devices : d # dev => filters'[d] = filters[d]
    BY <1>a DEF SetFilter, TypeOK
  <2>2. \A d \in Devices : d # dev => Limit(d, req.client)' = Limit(d, req.client)
    BY <2>1 DEF SetFilter, Limit
  <2>3. ASSUME NEW d \in Devices, d = dev
        PROVE  \/ Limit(d, req.client)' = Wanted(dev)
               \/ filters'[d][req.client] = DefaultClassid
    <3>1. filters'[d][req.client] = num
      BY <1>a, <2>3 DEF SetFilter, TypeOK
    <3>2. /\ num \in DOMAIN classes[dev] /\ classes[dev][num] = Wanted(dev)
          /\ num # ParentClassid
      BY ClientClassesApart DEF SetFilter, Working, Setting
    <3> QED
      BY <2>3, <3>1, <3>2 DEF SetFilter, Limit, InfrastructureClasses
  <2> QED
    BY <1>a, <2>2, <2>3
    DEF SetFilter, Applied, AsAsked, Placed, Setting, Clearing, AfterDirection, Wanted
<1> QED
  BY <1>1, <1>2, <1>3, <1>5, <1>6, <1>7, <1>8

\* DeleteFilter: the client's class is nobody's.
LEMMA DeleteFilterStep ==
    ShapingInv /\ DeleteFilter => ShapingInv'
<1> SUFFICES ASSUME ShapingInv, DeleteFilter
             PROVE  ShapingInv'
  OBVIOUS
<1> USE DEF ShapingInv, NoClass, NoRate, ParentClassid
<1>a. req.iface \in Devices /\ Ifb \in Devices /\ req.iface # Ifb
      /\ req.client \in Clients /\ dev \in Devices
  BY ShapingAssumption DEF TypeOK, Requests, Devices
<1>1. TypeOK'
  BY ShapingAssumption
  DEF DeleteFilter, TypeOK, Stages, Hierarchy, Setting, Clearing,
      Redirect, Outcomes, Classids, Devices
<1>2. FiltersBacked' /\ FiltersDistinct'
  BY ShapingAssumption
  DEF DeleteFilter, FiltersBacked, TypeOK, FiltersDistinct
<1>3. Placed' /\ HierarchyBuilt' /\ IfbUp'
  BY ShapingAssumption
  DEF DeleteFilter, Placed, TypeOK, Redirect, Hierarchy, Setting,
      Clearing, HierarchyBuilt, Shaped, Based, IfbUp, FiltersBacked
<1>5. InconsistentOnlyAtDefault' /\ UploadsAreRedirected'
  BY ShapingAssumption
  DEF DeleteFilter, InconsistentOnlyAtDefault, Placed, UploadsAreRedirected,
      TypeOK
<1>6. Working'
  <2>1. filters'[dev][req.client] = NoClass
    BY <1>a DEF DeleteFilter, TypeOK
  <2>2. \A c \in Clients : filters'[dev][c] # num
    <3>1. \A c \in Clients : c # req.client => filters'[dev][c] = filters[dev][c]
      BY <1>a DEF DeleteFilter, TypeOK
    <3>2. filters[dev][req.client] = num /\ num # NoClass
      BY ClientClassesApart DEF DeleteFilter, Working, Clearing
    <3> QED
      BY <1>a, <2>1, <3>1, <3>2 DEF FiltersDistinct
  <2> QED
    BY <2>1, <2>2 DEF DeleteFilter, Working, Setting, Clearing, Wanted
<1>7. Applied'
  <2>1. \A d \in Devices : d # dev => filters'[d] = filters[d]
    BY <1>a DEF DeleteFilter, TypeOK
  <2>2. \A d \in Devices : d # dev => Limit(d, req.client)' = Limit(d, req.client)
    BY <2>1 DEF DeleteFilter, Limit
  <2> QED
    BY <1>a, <2>2 DEF DeleteFilter, Applied, AsAsked, Placed, Clearing
<1> QED
  BY <1>1, <1>2, <1>3, <1>5, <1>6, <1>7

\* DeleteLeaf: its queue is gone.
LEMMA DeleteLeafStep ==
    ShapingInv /\ DeleteLeaf => ShapingInv'
<1> SUFFICES ASSUME ShapingInv, DeleteLeaf
             PROVE  ShapingInv'
  OBVIOUS
<1> USE DEF ShapingInv, NoClass, NoRate, ParentClassid
<1>a. req.iface \in Devices /\ Ifb \in Devices /\ req.iface # Ifb
      /\ req.client \in Clients /\ dev \in Devices
  BY ShapingAssumption DEF TypeOK, Requests, Devices
<1>1. TypeOK'
  BY ShapingAssumption
  DEF DeleteLeaf, TypeOK, Stages, Hierarchy, Setting, Clearing, Redirect,
      Outcomes, Classids, Devices
<1>2. FiltersDistinct' /\ Working'
  BY ShapingAssumption
  DEF DeleteLeaf, FiltersDistinct, TypeOK, Working, Setting, Clearing,
      Wanted, Placed
<1>3. Placed' /\ HierarchyBuilt' /\ IfbUp'
  BY ShapingAssumption
  DEF DeleteLeaf, Placed, TypeOK, Redirect, Hierarchy, Setting, Clearing,
      HierarchyBuilt, Shaped, Based, IfbUp, FiltersBacked
<1>4. Applied'
  BY ShapingAssumption, LimitFrame
  DEF DeleteLeaf, TypeOK, Wanted, Placed, Hierarchy,
      Redirect, Applied, AsAsked, Setting, Clearing, Limit
<1>5. InconsistentOnlyAtDefault' /\ UploadsAreRedirected'
  BY ShapingAssumption
  DEF DeleteLeaf, InconsistentOnlyAtDefault, Placed, UploadsAreRedirected, TypeOK
<1>6. FiltersBacked'
  <2>1. \A c \in Clients : filters[dev][c] # num
    BY DEF DeleteLeaf, Working
  <2>2. /\ \A d \in Devices : d # dev => leaves'[d] = leaves[d]
        /\ leaves'[dev] = leaves[dev] \ {num}
    BY DEF DeleteLeaf, TypeOK
  <2> QED
    BY <2>1, <2>2 DEF DeleteLeaf, FiltersBacked
<1> QED
  BY <1>1, <1>2, <1>3, <1>4, <1>5, <1>6

\* DeleteClass: the class is gone, no filter named it.
LEMMA DeleteClassStep ==
    ShapingInv /\ DeleteClass => ShapingInv'
<1> SUFFICES ASSUME ShapingInv, DeleteClass
             PROVE  ShapingInv'
  OBVIOUS
<1> USE DEF ShapingInv, NoClass, NoRate, ParentClassid
<1>a. stage = "unclass" /\ UNCHANGED <<root, leaves, filters, link, ingress, req, num, outcome>>
  BY DEF DeleteClass
<1>b. /\ DOMAIN classes' = Devices
      /\ \A d \in Devices : d # dev => classes'[d] = classes[d]
      /\ DOMAIN classes'[dev] = DOMAIN classes[dev] \ {num}
      /\ \A n \in DOMAIN classes[dev] :
            n # num => classes'[dev][n] = classes[dev][n]
  BY ClassDrop DEF DeleteClass
<1>c. AfterDirection
  BY DEF DeleteClass
<1>d. dev \in Devices /\ req.iface \in Devices /\ Ifb \in Devices /\ req.iface # Ifb
  BY ShapingAssumption DEF TypeOK, Requests, Devices
<1>e. req.client \in Clients /\ dev' \in Devices
  BY <1>a, <1>c, <1>d DEF TypeOK, Requests, AfterDirection
<1>f. num \in ClientClassids /\ num \notin {ParentClassid, NoClass}
  BY <1>a, ClientClassesApart DEF Working, Setting, Clearing
<1>g. Wanted(dev) \in Rates \cup {NoRate}
  BY <1>d DEF TypeOK, Requests, Wanted
<1>1. FiltersDistinct' /\ Working'
  BY <1>a, <1>b, <1>c, <1>d, <1>e, <1>f, <1>g, ClientClassesApart
  DEF FiltersDistinct, TypeOK, Working, Setting, Clearing, Wanted, Placed,
      AfterDirection
<1>2. Placed' /\ HierarchyBuilt' /\ IfbUp'
  BY <1>a, <1>b, <1>c, <1>d, <1>e, <1>f, <1>g, ClientClassesApart
  DEF Placed, TypeOK, Redirect, Hierarchy, Setting, Clearing,
      HierarchyBuilt, Shaped, Based, IfbUp, FiltersBacked, AfterDirection
<1>4. InconsistentOnlyAtDefault' /\ UploadsAreRedirected'
  BY <1>a, <1>b, <1>c, <1>d, <1>e, <1>f, <1>g, ClientClassesApart
  DEF InconsistentOnlyAtDefault, Placed, UploadsAreRedirected, TypeOK,
      AfterDirection
<1>5. TypeOK'
  <2>1. DOMAIN classes' = Devices /\ \A d \in Devices :
          /\ DOMAIN classes'[d] \subseteq Classids
          /\ \A n \in DOMAIN classes'[d] : classes'[d][n] \in Rates \cup {UnlimitedKbit}
    BY <1>a, <1>b, <1>c, <1>d, <1>e, <1>f, <1>g, ClientClassesApart DEF TypeOK, Working, Setting
  <2>2. stage' \in Stages
    BY <1>c DEF Stages, Hierarchy, Setting, Clearing, Redirect, AfterDirection
  <2> QED
    BY <1>a, <1>e, <2>1, <2>2 DEF TypeOK
<1>6. FiltersBacked'
  <2>1. \A c \in Clients : filters[dev][c] # num
    BY <1>a DEF Working
  <2> QED
    BY <1>a, <1>b, <2>1 DEF FiltersBacked
<1>7. Applied'
  <2>1. ASSUME NEW d \in Devices, d = dev
        PROVE  Limit(d, req.client)' = NoRate
    <3>1. filters'[d][req.client] = NoClass
      BY <1>a, <2>1 DEF Working
    <3>2. NoClass \notin DOMAIN classes'[d]
      BY <1>b, <2>1, ClientClassesApart DEF TypeOK
    <3> QED
      BY <1>a, <3>1, <3>2 DEF Limit
  <2>2. Wanted(dev) = NoRate
    BY <1>a DEF Working, Clearing
  <2>3. \A d \in Devices : d # dev => Limit(d, req.client)' = Limit(d, req.client)
    BY <1>a, <1>b, LimitFrame
  <2> QED
    BY <1>a, <1>c, <1>d, <2>1, <2>2, <2>3
    DEF Applied, AsAsked, Placed, Setting, Clearing, AfterDirection, Wanted
<1> QED
  BY <1>1, <1>2, <1>4, <1>5, <1>6, <1>7

\* AddLink: the IFB device exists.
LEMMA AddLinkStep ==
    ShapingInv /\ AddLink => ShapingInv'
<1> SUFFICES ASSUME ShapingInv, AddLink
             PROVE  ShapingInv'
  OBVIOUS
<1> USE DEF ShapingInv, NoClass, NoRate, ParentClassid
<1>1. TypeOK'
  BY ShapingAssumption
  DEF AddLink, TypeOK, Stages, Hierarchy, Setting, Clearing, Redirect,
      Outcomes, Classids, Devices
<1>2. FiltersBacked' /\ FiltersDistinct' /\ Working'
  BY ShapingAssumption
  DEF AddLink, FiltersBacked, TypeOK, FiltersDistinct, Working, Setting,
      Clearing, Wanted, Placed
<1>3. Placed' /\ HierarchyBuilt' /\ IfbUp'
  BY ShapingAssumption
  DEF AddLink, Placed, TypeOK, Redirect, Hierarchy, Setting, Clearing,
      HierarchyBuilt, Shaped, Based, IfbUp, FiltersBacked
<1>4. Applied'
  BY ShapingAssumption, LimitFrame
  DEF AddLink, TypeOK, Wanted, Placed, Hierarchy,
      Redirect, Applied, AsAsked, Setting, Clearing, Limit
<1>5. InconsistentOnlyAtDefault' /\ UploadsAreRedirected'
  BY ShapingAssumption
  DEF AddLink, InconsistentOnlyAtDefault, Placed, UploadsAreRedirected, TypeOK
<1> QED
  BY <1>1, <1>2, <1>3, <1>4, <1>5

\* RaiseLink: the IFB device is up.
LEMMA RaiseLinkStep ==
    ShapingInv /\ RaiseLink => ShapingInv'
<1> SUFFICES ASSUME ShapingInv, RaiseLink
             PROVE  ShapingInv'
  OBVIOUS
<1> USE DEF ShapingInv, NoClass, NoRate, ParentClassid
<1>1. TypeOK'
  BY ShapingAssumption
  DEF RaiseLink, TypeOK, Stages, Hierarchy, Setting, Clearing, Redirect,
      Outcomes, Classids, Devices
<1>2. FiltersBacked' /\ FiltersDistinct' /\ Working'
  BY ShapingAssumption
  DEF RaiseLink, FiltersBacked, TypeOK, FiltersDistinct, Working, Setting,
      Clearing, Wanted, Placed
<1>3. Placed' /\ HierarchyBuilt' /\ IfbUp'
  BY ShapingAssumption
  DEF RaiseLink, Placed, TypeOK, Redirect, Hierarchy, Setting, Clearing,
      HierarchyBuilt, Shaped, Based, IfbUp, FiltersBacked
<1>4. Applied'
  BY ShapingAssumption, LimitFrame
  DEF RaiseLink, TypeOK, Wanted, Placed, Hierarchy,
      Redirect, Applied, AsAsked, Setting, Clearing, Limit
<1>5. InconsistentOnlyAtDefault' /\ UploadsAreRedirected'
  BY ShapingAssumption
  DEF RaiseLink, InconsistentOnlyAtDefault, Placed, UploadsAreRedirected, TypeOK
<1> QED
  BY <1>1, <1>2, <1>3, <1>4, <1>5

\* EnsureIngress: the hook is ours or has to be completed.
LEMMA EnsureIngressStep ==
    ShapingInv /\ EnsureIngress => ShapingInv'
<1> SUFFICES ASSUME ShapingInv, EnsureIngress
             PROVE  ShapingInv'
  OBVIOUS
<1> USE DEF ShapingInv, NoClass, NoRate, ParentClassid
<1>a. req.iface \in Devices /\ Ifb \in Devices /\ req.iface # Ifb
      /\ req.client \in Clients /\ dev \in Devices
  BY ShapingAssumption DEF TypeOK, Requests, Devices
<1>1. TypeOK'
  BY ShapingAssumption
  DEF EnsureIngress, TypeOK, Stages, Hierarchy, Setting, Clearing,
      Redirect, Outcomes, Classids, Devices
<1>2. FiltersBacked' /\ FiltersDistinct' /\ Working'
  BY ShapingAssumption
  DEF EnsureIngress, FiltersBacked, TypeOK, FiltersDistinct, Working,
      Setting, Clearing, Wanted, Placed
<1>3. Placed'
  BY ShapingAssumption
  DEF EnsureIngress, Placed, TypeOK, Redirect, Hierarchy, Setting,
      Clearing
<1>4. Applied'
  BY ShapingAssumption, LimitFrame
  DEF EnsureIngress, TypeOK, Wanted, Placed, Hierarchy,
      Redirect, Applied, AsAsked, Setting, Clearing, Limit
<1>5. InconsistentOnlyAtDefault' /\ UploadsAreRedirected'
  BY ShapingAssumption
  DEF EnsureIngress, InconsistentOnlyAtDefault, Placed, UploadsAreRedirected,
      TypeOK
<1>6. HierarchyBuilt'
  BY DEF EnsureIngress, HierarchyBuilt, TypeOK, Shaped, Based, Placed, IfbUp, Setting,
         Redirect
<1>7. IfbUp'
  <2>1. dev = Ifb /\ link = "up" /\ Shaped(Ifb)' /\ Based(Ifb)'
    BY DEF EnsureIngress, IfbUp, Placed, Redirect, Shaped, Based
  <2>2. stage' = "redirect" => ingress'[req.iface] = "bare"
    BY DEF EnsureIngress, TypeOK, Requests
  <2> QED
    BY <2>1, <2>2 DEF EnsureIngress, IfbUp, Hierarchy, Setting
<1> QED
  BY <1>1, <1>2, <1>3, <1>4, <1>5, <1>6, <1>7

\* AddRedirect: the hook is complete.
LEMMA AddRedirectStep ==
    ShapingInv /\ AddRedirect => ShapingInv'
<1> SUFFICES ASSUME ShapingInv, AddRedirect
             PROVE  ShapingInv'
  OBVIOUS
<1> USE DEF ShapingInv, NoClass, NoRate, ParentClassid
<1>a. req.iface \in Devices /\ Ifb \in Devices /\ req.iface # Ifb
      /\ req.client \in Clients /\ dev \in Devices
  BY ShapingAssumption DEF TypeOK, Requests, Devices
<1>1. TypeOK'
  BY ShapingAssumption
  DEF AddRedirect, TypeOK, Stages, Hierarchy, Setting, Clearing, Redirect,
      Outcomes, Classids, Devices
<1>2. FiltersBacked' /\ FiltersDistinct' /\ Working'
  BY ShapingAssumption
  DEF AddRedirect, FiltersBacked, TypeOK, FiltersDistinct, Working,
      Setting, Clearing, Wanted, Placed
<1>3. Placed' /\ IfbUp'
  BY ShapingAssumption
  DEF AddRedirect, Placed, TypeOK, Redirect, Hierarchy, Setting, Clearing,
      IfbUp, Shaped, Based, FiltersBacked
<1>5. InconsistentOnlyAtDefault' /\ UploadsAreRedirected'
  BY ShapingAssumption
  DEF AddRedirect, InconsistentOnlyAtDefault, Placed, UploadsAreRedirected, TypeOK
<1>6. HierarchyBuilt'
  BY DEF AddRedirect, HierarchyBuilt, TypeOK, Shaped, Based, Placed, IfbUp, Setting,
         Redirect
<1>7. Applied'
  <2>1. ingress'[req.iface] = "ours"
    BY DEF AddRedirect, TypeOK, Requests
  <2>2. Limit(req.iface, req.client)' = Limit(req.iface, req.client)
    BY DEF AddRedirect, Limit
  <2> QED
    BY <2>1, <2>2 DEF AddRedirect, Applied, AsAsked, Placed, Redirect
<1> QED
  BY <1>1, <1>2, <1>3, <1>5, <1>6, <1>7

\* Return: the steps that end a call change nothing in the kernel; the final check succeeds.
LEMMA ReturnStep ==
    ShapingInv /\ (RefuseForeignRoot \/ RefuseForeignIngress
                        \/ Verify \/ CommandFails) => ShapingInv'
<1> SUFFICES ASSUME ShapingInv,
                    (RefuseForeignRoot \/ RefuseForeignIngress
                        \/ Verify \/ CommandFails)
             PROVE  ShapingInv'
  OBVIOUS
<1> USE DEF ShapingInv, NoClass, NoRate, ParentClassid
<1>1. TypeOK'
  BY ShapingAssumption
  DEF RefuseForeignRoot, RefuseForeignIngress, Verify, CommandFails,
      TypeOK, Stages, Hierarchy, Setting, Clearing, Redirect, Outcomes,
      Classids, Devices, Return
<1>2. FiltersBacked' /\ FiltersDistinct' /\ Working'
  BY ShapingAssumption
  DEF RefuseForeignRoot, RefuseForeignIngress, Verify, CommandFails,
      FiltersBacked, TypeOK, FiltersDistinct, Working, Setting, Clearing,
      Wanted, Placed, Return
<1>3. Placed' /\ HierarchyBuilt' /\ IfbUp'
  BY ShapingAssumption
  DEF RefuseForeignRoot, RefuseForeignIngress, Verify, CommandFails,
      Placed, TypeOK, Redirect, Hierarchy, Setting, Clearing,
      HierarchyBuilt, Shaped, Based, IfbUp, FiltersBacked, Return
<1>4. Applied'
  BY ShapingAssumption, LimitFrame
  DEF RefuseForeignRoot, RefuseForeignIngress, Verify, CommandFails,
      TypeOK, Wanted, Placed, Hierarchy, Redirect,
      Applied, AsAsked, Setting, Clearing, Limit, Return
<1>5. InconsistentOnlyAtDefault'
  BY DEF RefuseForeignRoot, RefuseForeignIngress, Verify, CommandFails, Return,
          ReadState, InconsistentOnlyAtDefault, Applied, AsAsked, Placed
<1>6. UploadsAreRedirected'
  BY DEF RefuseForeignRoot, RefuseForeignIngress, Verify, CommandFails, Return,
          UploadsAreRedirected, Applied, AsAsked, Placed
<1> QED
  BY <1>1, <1>2, <1>3, <1>4, <1>5, <1>6

\* Start: the call's arguments are valid.
LEMMA StartStep ==
    ShapingInv /\ (\E r \in Asked : Start(r)) => ShapingInv'
<1> SUFFICES ASSUME ShapingInv, NEW r \in Asked, Start(r)
             PROVE  ShapingInv'
  OBVIOUS
<1> USE DEF ShapingInv
<1>1. /\ r \in Requests /\ r.iface \in Ifaces /\ r.iface # Ifb
      /\ r.iface \in Devices /\ Ifb \in Devices
  BY ShapingAssumption DEF Requests, Devices
<1>2. /\ stage' = "root" /\ req' = r /\ dev' = r.iface /\ outcome' = "none"
      /\ UNCHANGED <<root, classes, leaves, filters, link, ingress, num>>
  BY DEF Start
<1>3. TypeOK'
  BY <1>1, <1>2 DEF TypeOK, Stages, Hierarchy, Outcomes
<1>4. FiltersBacked' /\ FiltersDistinct'
  BY <1>2 DEF FiltersBacked, FiltersDistinct
<1>5. Placed' /\ HierarchyBuilt'
  BY <1>1, <1>2 DEF Placed, HierarchyBuilt, Hierarchy, Redirect, Setting
<1>6. IfbUp'
  BY <1>1, <1>2 DEF IfbUp, Hierarchy, Setting, Shaped, Based
<1>9. Working' /\ Applied'
  BY <1>1, <1>2 DEF Working, Applied, AsAsked, Hierarchy, Setting, Clearing
<1>10. InconsistentOnlyAtDefault' /\ UploadsAreRedirected'
  BY <1>2 DEF InconsistentOnlyAtDefault, UploadsAreRedirected
<1> QED
  BY <1>3, <1>4, <1>5, <1>6, <1>9, <1>10

\* The invariant holds before the first call.
LEMMA InitInv == Init => ShapingInv
<1> SUFFICES ASSUME Init PROVE ShapingInv
  OBVIOUS
<1>1. /\ req \in Requests /\ req.iface \in Ifaces /\ dev = req.iface
      /\ dev # Ifb /\ dev \in Devices /\ stage = "idle" /\ outcome = "none"
  BY ShapingAssumption DEF Init, Requests, Devices
<1>2. TypeOK
  BY <1>1 DEF Init, TypeOK, Stages, Outcomes
<1>3. FiltersBacked /\ FiltersDistinct
  BY DEF Init, FiltersBacked, FiltersDistinct
<1>4. Placed /\ HierarchyBuilt
  BY <1>1 DEF Placed, HierarchyBuilt, Hierarchy, Redirect, Setting
<1>5. IfbUp
  BY <1>1 DEF Init, IfbUp, Hierarchy, Setting
<1>6. Working /\ Applied
  BY <1>1 DEF Working, Applied, AsAsked, Hierarchy, Redirect, Setting, Clearing
<1>7. InconsistentOnlyAtDefault /\ UploadsAreRedirected
  BY <1>1 DEF InconsistentOnlyAtDefault, UploadsAreRedirected
<1> QED
  BY <1>2, <1>3, <1>4, <1>5, <1>6, <1>7 DEF ShapingInv

\* Every step keeps the invariant.
LEMMA NextInv == ShapingInv /\ [Next]_vars => ShapingInv'
<1> SUFFICES ASSUME ShapingInv, [Next]_vars PROVE ShapingInv'
  OBVIOUS
<1>1. CASE \E r \in Asked : Start(r)
  BY <1>1, StartStep
<1>2. CASE EnsureRoot
  BY <1>2, EnsureRootStep
<1>3. CASE RefuseForeignRoot
  BY <1>3, ReturnStep
<1>4. CASE EnsureParentClass
  BY <1>4, EnsureParentClassStep
<1>5. CASE EnsureDefaultClass
  BY <1>5, EnsureDefaultClassStep
<1>6. CASE EnsureDefaultLeaf
  BY <1>6, EnsureDefaultLeafStep
<1>7. CASE Classify
  BY <1>7, ClassifyStep
<1>8. CASE SetClass
  BY <1>8, SetClassStep
<1>9. CASE SetLeaf
  BY <1>9, SetLeafStep
<1>10. CASE SetFilter
  BY <1>10, SetFilterStep
<1>11. CASE DeleteFilter
  BY <1>11, DeleteFilterStep
<1>12. CASE DeleteLeaf
  BY <1>12, DeleteLeafStep
<1>13. CASE DeleteClass
  BY <1>13, DeleteClassStep
<1>14. CASE AddLink
  BY <1>14, AddLinkStep
<1>15. CASE RaiseLink
  BY <1>15, RaiseLinkStep
<1>16. CASE EnsureIngress
  BY <1>16, EnsureIngressStep
<1>17. CASE RefuseForeignIngress
  BY <1>17, ReturnStep
<1>18. CASE AddRedirect
  BY <1>18, AddRedirectStep
<1>19. CASE Verify
  BY <1>19, ReturnStep
<1>20. CASE CommandFails
  BY <1>20, ReturnStep
<1>21. CASE UNCHANGED vars
  BY <1>21 DEF vars, ShapingInv, TypeOK, FiltersBacked, FiltersDistinct, Placed,
     HierarchyBuilt, Shaped, Based, IfbUp, Wanted, NextFreeClassid,
     UsedClassids, Working, Applied, AsAsked, Limit, InconsistentOnlyAtDefault, UploadsAreRedirected
<1> QED
  BY <1>1, <1>2, <1>3, <1>4, <1>5, <1>6, <1>7, <1>8, <1>9, <1>10, <1>11, <1>12, <1>13, <1>14, <1>15, <1>16, <1>17, <1>18, <1>19, <1>20, <1>21 DEF Next, Command

\* The invariant holds in every reachable state.
LEMMA Invariance == Spec => []ShapingInv
<1>1. Init => ShapingInv
  BY InitInv
<1>2. ShapingInv /\ [Next]_vars => ShapingInv'
  BY NextInv
<1> QED
  BY <1>1, <1>2, PTL DEF Spec

-----------------------------------------------------------------------------
(* Theorems.                                                               *)

(* Every variable keeps its type: in particular a client's class is always *)
(* in the range next_free_classid hands out.                               *)
THEOREM ShapingTypeCorrect == Spec => []TypeOK
<1>1. ShapingInv => TypeOK
  BY DEF ShapingInv
<1> QED
  BY <1>1, Invariance, PTL

(* set_limit returns `Inconsistent` only for a client that was given the   *)
(* number of the default class, whatever calls cut short have left behind. *)
THEOREM VerifySucceeds == Spec => []InconsistentOnlyAtDefault
<1>1. ShapingInv => InconsistentOnlyAtDefault
  BY DEF ShapingInv
<1> QED
  BY <1>1, Invariance, PTL

(* An upload limit that set_limit reports as set is on an interface that   *)
(* redirects to the IFB device.                                            *)
THEOREM UploadLimitsBite == Spec => []UploadsAreRedirected
<1>1. ShapingInv => UploadsAreRedirected
  BY DEF ShapingInv
<1> QED
  BY <1>1, Invariance, PTL

(* No interface starts to redirect to the IFB device before it is up with *)
(* its whole hierarchy; afterwards the device stays up, classes can be put *)
(* on it, and only a command for a client that was given the number of the *)
(* default class takes that class away.                                    *)
THEOREM RedirectsAreReady == Spec => RedirectReady
<1> DEFINE Live == \E i \in Ifaces : ingress[i] = "ours"
           Fresh == \E i \in Ifaces : ingress'[i] = "ours" /\ ingress[i] # "ours"
<1>1. ASSUME ShapingInv, Next
      PROVE  Live' => \/ DefaultOpen'
                      \/ /\ ~Fresh
                         /\ ~DefaultOpen \/ num = DefaultClassid
  <2> USE DEF ShapingInv
  <2>1. CASE AddRedirect
    <3>1. DefaultOpen
      BY <1>1, <2>1 DEF AddRedirect, IfbUp, Shaped, DefaultOpen
    <3> QED
      BY <2>1, <3>1 DEF AddRedirect, DefaultOpen
  <2>2. CASE EnsureIngress
    <3>1. ~Fresh /\ classes' = classes
      BY <1>1, <2>2 DEF EnsureIngress, TypeOK
    <3> QED
      BY <3>1 DEF DefaultOpen
  <2>3. CASE ingress' = ingress /\ classes' = classes
    BY <2>3 DEF DefaultOpen
  <2>4. CASE EnsureParentClass
    <3>1. /\ \A d \in Devices : d # dev => classes'[d] = classes[d]
          /\ DOMAIN classes'[dev] = DOMAIN classes[dev] \cup {ParentClassid}
          /\ \A n \in DOMAIN classes[dev] :
                n # ParentClassid => classes'[dev][n] = classes[dev][n]
      BY <1>1, <2>4, ClassPut DEF EnsureParentClass
    <3>2. ingress' = ingress /\ Ifb \in Devices
      BY <2>4 DEF EnsureParentClass, Devices
    <3> QED
      BY <3>1, <3>2, ClientClassesApart DEF DefaultOpen
  <2>5. CASE EnsureDefaultClass
    <3>1. /\ \A d \in Devices : d # dev => classes'[d] = classes[d]
          /\ DOMAIN classes'[dev] = DOMAIN classes[dev] \cup {DefaultClassid}
          /\ classes'[dev][DefaultClassid] = UnlimitedKbit
      BY <1>1, <2>5, ClassPut DEF EnsureDefaultClass
    <3>2. ingress' = ingress /\ Ifb \in Devices
      BY <2>5 DEF EnsureDefaultClass, Devices
    <3> QED
      BY <3>1, <3>2 DEF DefaultOpen
  <2>6. CASE SetClass
    <3>1. /\ \A d \in Devices : d # dev => classes'[d] = classes[d]
          /\ DOMAIN classes'[dev] = DOMAIN classes[dev] \cup {num}
          /\ \A n \in DOMAIN classes[dev] :
                n # num => classes'[dev][n] = classes[dev][n]
      BY <1>1, <2>6, ClassPut DEF SetClass
    <3>2. ingress' = ingress /\ Ifb \in Devices
      BY <2>6 DEF SetClass, Devices
    <3> QED
      BY <3>1, <3>2 DEF DefaultOpen
  <2>7. CASE DeleteClass
    <3>1. /\ \A d \in Devices : d # dev => classes'[d] = classes[d]
          /\ DOMAIN classes'[dev] = DOMAIN classes[dev] \ {num}
          /\ \A n \in DOMAIN classes[dev] :
                n # num => classes'[dev][n] = classes[dev][n]
      BY <1>1, <2>7, ClassDrop DEF DeleteClass
    <3>2. ingress' = ingress /\ Ifb \in Devices
      BY <2>7 DEF DeleteClass, Devices
    <3> QED
      BY <3>1, <3>2 DEF DefaultOpen
  <2> QED
    BY <1>1, <2>1, <2>2, <2>3, <2>4, <2>5, <2>6, <2>7
    DEF Next, Command, Start, EnsureRoot, RefuseForeignRoot,
        EnsureDefaultLeaf, Classify, SetLeaf, SetFilter, DeleteFilter,
        DeleteLeaf, AddLink, RaiseLink, RefuseForeignIngress, Verify,
        CommandFails
<1>2. ShapingInv' => (Live' => link' = "up" /\ root'[Ifb] = "htb"
                                  /\ ParentClassid \in DOMAIN classes'[Ifb])
  BY DEF ShapingInv, IfbUp, Based
<1>3. ASSUME ShapingInv, ShapingInv', [Next]_vars
      PROVE  [(\E i \in Ifaces : ingress'[i] = "ours") =>
                 /\ link' = "up" /\ root'[Ifb] = "htb"
                 /\ ParentClassid \in DOMAIN classes'[Ifb]
                 /\ \/ DefaultOpen'
                    \/ /\ \A i \in Ifaces : ingress'[i] = "ours" => ingress[i] = "ours"
                       /\ ~DefaultOpen \/ num = DefaultClassid]_vars
  BY <1>1, <1>2, <1>3
<1> QED
  BY <1>3, Invariance, PTL DEF RedirectReady, Spec

(* Every tc command the program issues finds what it needs and nothing     *)
(* that is in its way.                                                     *)
THEOREM CommandsAccepted == Spec => []TcAccepts
<1>1. ASSUME ShapingInv PROVE TcAccepts
  <2> USE <1>1 DEF ShapingInv
  <2>1. stage \in (Hierarchy \ {"root"}) \cup Setting \cup Clearing => root[dev] = "htb"
    BY DEF HierarchyBuilt, Working, Shaped, Based, Hierarchy, Setting
  <2>2. /\ stage = "default" => ParentClassid \in DOMAIN classes[dev]
        /\ stage = "default_leaf" => DefaultClassid \in DOMAIN classes[dev]
        /\ stage = "class" => ParentClassid \in DOMAIN classes[dev]
    BY DEF HierarchyBuilt, Shaped, Based, Setting
  <2>3. stage \in {"leaf", "filter"} =>
          /\ num \in DOMAIN classes[dev]
          /\ \A c \in Clients : filters[dev][c] # num
    BY ClientClassesApart DEF Working, Setting
  <2>4. /\ stage = "unfilter" => filters[dev][req.client] = num
        /\ stage = "unleaf" => num \in leaves[dev]
        /\ stage \in {"unleaf", "unclass"} =>
              /\ num \in DOMAIN classes[dev]
              /\ \A c \in Clients : filters[dev][c] # num
    BY DEF Working, Clearing
  <2>5. dev = Ifb /\ stage \notin {"idle", "link_add", "classify", "verify"} => link # "absent"
    BY DEF TypeOK, Stages, IfbUp, Working, Clearing, Hierarchy, Setting, Redirect
  <2>6. stage = "redirect" => ingress[req.iface] = "bare"
    BY DEF IfbUp
  <2> QED
    BY <2>1, <2>2, <2>3, <2>4, <2>5, <2>6 DEF TcAccepts
<1> QED
  BY <1>1, Invariance, PTL

(* What another tool set up on an interface stays.                         *)
THEOREM ForeignStays == Spec => ForeignUntouched
<1> DEFINE Kept == /\ \A d \in Devices : root[d] = "foreign" => root'[d] = "foreign"
                   /\ \A i \in Ifaces : ingress[i] = "foreign" => ingress'[i] = "foreign"
<1>1. ASSUME ShapingInv, [Next]_vars PROVE Kept
  <2> USE DEF ShapingInv, TypeOK
  <2>1. CASE EnsureRoot
    BY <1>1, <2>1 DEF EnsureRoot
  <2>2. CASE EnsureIngress
    BY <1>1, <2>2 DEF EnsureIngress
  <2>3. CASE AddRedirect
    <3>1. ingress[req.iface] = "bare"
      BY <1>1, <2>3 DEF AddRedirect, IfbUp
    <3> QED
      BY <1>1, <2>3, <3>1 DEF AddRedirect
  <2>4. CASE UNCHANGED <<root, ingress>>
    BY <2>4
  <2> QED
    BY <1>1, <2>1, <2>2, <2>3, <2>4
    DEF Next, Command, Start, RefuseForeignRoot, EnsureParentClass,
        EnsureDefaultClass, EnsureDefaultLeaf, Classify, SetClass, SetLeaf,
        SetFilter, DeleteFilter, DeleteLeaf, DeleteClass, AddLink, RaiseLink,
        RefuseForeignIngress, Verify, CommandFails, vars
<1> QED
  BY <1>1, Invariance, PTL DEF ForeignUntouched, Spec

(* A call changes nobody's limit but its own client's, and that one only   *)
(* to what was asked for.                                                  *)
THEOREM ClientsAreIsolated == Spec => LimitsMoveAsAsked
<1> DEFINE Moves(d, c) ==
              Limit(d, c)' # Limit(d, c) =>
                  /\ c = req.client /\ d \in {req.iface, Ifb}
                  /\ Limit(d, c)' = Wanted(d)
<1>1. ASSUME ShapingInv, [Next]_vars, NEW d \in Devices, NEW c \in Clients
      PROVE  Moves(d, c)
  <2> USE DEF ShapingInv
  <2>1. CASE UNCHANGED <<classes, filters>>
    BY <2>1, LimitFrame
  <2>2. CASE EnsureParentClass
    <3>1. /\ \A e \in Devices : e # dev => classes'[e] = classes[e]
          /\ DOMAIN classes'[dev] = DOMAIN classes[dev] \cup {ParentClassid}
          /\ \A n \in DOMAIN classes[dev] :
                n # ParentClassid => classes'[dev][n] = classes[dev][n]
      BY <1>1, <2>2, ClassPut DEF EnsureParentClass
    <3>2. filters' = filters
      BY <2>2 DEF EnsureParentClass
    <3> QED
      BY <3>1, <3>2 DEF Limit, InfrastructureClasses
  <2>3. CASE EnsureDefaultClass
    <3>1. /\ \A e \in Devices : e # dev => classes'[e] = classes[e]
          /\ DOMAIN classes'[dev] = DOMAIN classes[dev] \cup {DefaultClassid}
          /\ \A n \in DOMAIN classes[dev] :
                n # DefaultClassid => classes'[dev][n] = classes[dev][n]
      BY <1>1, <2>3, ClassPut DEF EnsureDefaultClass
    <3>2. filters' = filters
      BY <2>3 DEF EnsureDefaultClass
    <3> QED
      BY <3>1, <3>2 DEF Limit, InfrastructureClasses
  <2>4. CASE SetClass
    <3>1. /\ \A e \in Devices : e # dev => classes'[e] = classes[e]
          /\ DOMAIN classes'[dev] = DOMAIN classes[dev] \cup {num}
          /\ classes'[dev][num] = Wanted(dev)
          /\ \A n \in DOMAIN classes[dev] :
                n # num => classes'[dev][n] = classes[dev][n]
      BY <1>1, <2>4, ClassPut DEF SetClass
    <3>2. filters' = filters /\ stage = "class"
      BY <2>4 DEF SetClass
    <3>3. num # ParentClassid /\ (filters[dev][c] = num => c = req.client)
      BY <1>1, <3>2, ShapingAssumption DEF Working, Setting, ParentClassid
    <3>4. CASE d # dev
      BY <3>1, <3>2, <3>4 DEF Limit
    <3>5. CASE d = dev /\ filters[d][c] # num
      BY <3>1, <3>2, <3>5 DEF Limit
    <3>6. CASE d = dev /\ filters[d][c] = num
      BY <1>1, <3>1, <3>2, <3>3, <3>6, ClientClassesApart
      DEF Limit, InfrastructureClasses, Placed
    <3> QED
      BY <3>4, <3>5, <3>6
  <2>5. CASE DeleteClass
    <3>1. /\ \A e \in Devices : e # dev => classes'[e] = classes[e]
          /\ DOMAIN classes'[dev] = DOMAIN classes[dev] \ {num}
          /\ \A n \in DOMAIN classes[dev] :
                n # num => classes'[dev][n] = classes[dev][n]
      BY <1>1, <2>5, ClassDrop DEF DeleteClass
    <3>2. filters' = filters /\ filters[dev][c] # num
      BY <1>1, <2>5 DEF DeleteClass, Working
    <3> QED
      BY <3>1, <3>2 DEF Limit
  <2>6. CASE SetFilter
    <3>1. classes' = classes
      BY <2>6 DEF SetFilter
    <3>2. CASE d = dev /\ c = req.client
      <4>1. filters'[d][c] = num
        BY <1>1, <2>6, <3>2 DEF SetFilter, TypeOK
      <4>2. /\ num \in DOMAIN classes[d] /\ classes[d][num] = Wanted(d)
            /\ num # ParentClassid /\ filters[d][c] = NoClass
        BY <1>1, <2>6, <3>2, ClientClassesApart DEF SetFilter, Working, Setting
      <4>3. Limit(d, c) = NoRate
        BY <1>1, <4>2, ClientClassesApart DEF Limit, TypeOK
      <4> QED
        BY <1>1, <3>1, <3>2, <4>1, <4>2, <4>3 DEF Limit, InfrastructureClasses, Placed
    <3>3. CASE ~ (d = dev /\ c = req.client)
      <4>1. filters'[d][c] = filters[d][c]
        BY <1>1, <2>6, <3>3 DEF SetFilter, TypeOK
      <4> QED
        BY <3>1, <4>1 DEF Limit
    <3> QED
      BY <3>2, <3>3
  <2>7. CASE DeleteFilter
    <3>1. classes' = classes
      BY <2>7 DEF DeleteFilter
    <3>2. CASE d = dev /\ c = req.client
      <4>1. filters'[d][c] = NoClass /\ Wanted(d) = NoRate
        BY <1>1, <2>7, <3>2 DEF DeleteFilter, TypeOK, Working, Clearing
      <4> QED
        BY <1>1, <3>1, <3>2, <4>1, ClientClassesApart DEF Limit, TypeOK, Placed
    <3>3. CASE ~ (d = dev /\ c = req.client)
      <4>1. filters'[d][c] = filters[d][c]
        BY <1>1, <2>7, <3>3 DEF DeleteFilter, TypeOK
      <4> QED
        BY <3>1, <4>1 DEF Limit
    <3> QED
      BY <3>2, <3>3
  <2> QED
    BY <1>1, <2>1, <2>2, <2>3, <2>4, <2>5, <2>6, <2>7
    DEF Next, Command, Start, EnsureRoot, RefuseForeignRoot,
        EnsureDefaultLeaf, Classify, SetLeaf, DeleteLeaf, AddLink, RaiseLink,
        EnsureIngress, RefuseForeignIngress, AddRedirect, Verify, CommandFails,
        vars
<1>2. ASSUME ShapingInv, [Next]_vars
      PROVE  [\A d \in Devices, c \in Clients :
                Limit(d, c)' # Limit(d, c) =>
                    /\ c = req.client /\ d \in {req.iface, Ifb}
                    /\ Limit(d, c)' = Wanted(d)]_vars
  BY <1>1, <1>2
<1> QED
  BY <1>2, Invariance, PTL DEF LimitsMoveAsAsked, Spec
=============================================================================
