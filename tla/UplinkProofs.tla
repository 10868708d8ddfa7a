----------------------------- MODULE UplinkProofs ---------------------------
(***************************************************************************)
(* Theorems about the dispatcher script, for any interfaces, addresses and *)
(* rule handles: with any command failing and any run killed, it removes   *)
(* no rule of Docker's unless the table was made anew between its listing  *)
(* and its deletion, and one undisturbed run sets everything right.        *)
(***************************************************************************)
EXTENDS Uplink, ListFacts, FiniteSetTheorems, TLAPS

USE UplinkAssumption

-----------------------------------------------------------------------------
(* Type correctness.                                                       *)

\* find_uplink_iface prints an interface or nothing.
LEMMA UplinkForType ==
    ASSUME NEW h, NEW routes \in Routes
    PROVE  UplinkFor(h, routes) \in Ifaces \cup {None}
<1> DEFINE others == {i \in DOMAIN routes : routes[i] # h}
<1>1. routes \in Seq(Ifaces)
  OBVIOUS
<1>2. DOMAIN routes \subseteq Nat /\ \A i \in DOMAIN routes : routes[i] \in Ifaces
  BY <1>1
<1>3. others # {} => Min(others) \in others
  BY <1>2, MinNat
<1> QED BY <1>2, <1>3 DEF UplinkFor

\* A world's parts.
LEMMA WorldType ==
    ASSUME NEW w \in Worlds
    PROVE  /\ w.hot \in Ifaces \cup {None}
           /\ w.addr \in Subnets \cup {None}
           /\ w.routes \in Routes
  BY DEF Worlds

-----------------------------------------------------------------------------
(* The invariant that needs no calm.                                       *)

\* The script's variables are filled in the order it reads them.
Filled ==
    /\ pc \in {"idle", "hotspot"} =>
          hot = None /\ addr = None /\ uplink = None /\ handles = {}
    /\ pc = "address" => hot # None /\ uplink = None /\ handles = {}
    /\ pc = "route" => hot # None /\ addr # None /\ uplink = None /\ handles = {}
    /\ uplink # None => hot # None /\ addr # None
    /\ pc \in DOMAIN After => uplink # None

\* A handle names one rule.
HandlesNameRules == \A r, s \in chain : r.id = s.id => r = s

\* The script never holds a handle of a rule of Docker's, unless the table the
\* handle was for is gone.
HeldAreOwn == stale \/ \A r \in chain : r.tag = "docker" => r.id \notin handles

SafeInv == TypeOK /\ Filled /\ HandlesNameRules /\ HeldAreOwn

\* A rule is tagged by the script or is Docker's, and has a handle.
LEMMA RuleType ==
    ASSUME NEW r \in Rules
    PROVE  r.id \in Handles /\ r.tag \in {"out", "in", "docker"}
  BY DEF Rules, Tags

\* A script that ends leaves nothing of its own behind.
LEMMA ExitSafe ==
    ASSUME SafeInv, calm' \in BOOLEAN, Exit, UNCHANGED <<world, docker, chain>>,
           nat' \in NatTables \cup {None}
    PROVE  SafeInv'
<1>1. TypeOK'
  BY DEF SafeInv, TypeOK, Exit, Stages
<1>2. Filled' /\ HandlesNameRules' /\ HeldAreOwn'
  BY DEF SafeInv, Filled, HandlesNameRules, HeldAreOwn, Exit, After
<1> QED BY <1>1, <1>2 DEF SafeInv

\* Reading the network disturbs no rule, and fills one variable.
LEMMA ReadSafe ==
    ASSUME SafeInv, calm' \in BOOLEAN,
           \/ \E found \in Ifaces \cup {None} : FindHotspot(found)
           \/ \E found \in Subnets \cup {None} : FindAddress(found)
           \/ \E found \in Ifaces \cup {None} : FindUplink(found)
    PROVE  SafeInv'
<1> USE DEF SafeInv, TypeOK, Filled, HandlesNameRules, HeldAreOwn, Stages, After,
        kernel, script
<1>1. CASE \E found \in Ifaces \cup {None} : FindHotspot(found)
  BY <1>1 DEF FindHotspot
<1>2. CASE \E found \in Subnets \cup {None} : FindAddress(found)
  <2>1. PICK found \in Subnets \cup {None} : FindAddress(found)
    BY <1>2
  <2>2. CASE found = None
    BY <2>1, <2>2, ExitSafe DEF FindAddress
  <2>3. CASE found # None
    BY <2>1, <2>3 DEF FindAddress
  <2> QED BY <2>2, <2>3
<1>3. CASE \E found \in Ifaces \cup {None} : FindUplink(found)
  BY <1>3 DEF FindUplink
<1> QED BY <1>1, <1>2, <1>3

\* Listing yields handles of tagged rules only; deleting and moving on leave
\* what is there distinct.
LEMMA RemoveSafe ==
    ASSUME SafeInv, calm' \in BOOLEAN, NEW tag \in Tags,
           \/ \E found \in {Tagged(tag), {}} : List(tag, found)
           \/ \E id \in handles : Delete(tag, id) \/ DeleteFails(tag, id)
           \/ Dropped(tag)
    PROVE  SafeInv'
<1> USE DEF SafeInv, TypeOK, Filled, HandlesNameRules, HeldAreOwn, Stages, After,
        kernel, script, ListStage, DropStage, AfterDrop, Tags
<1>1. Tagged(tag) \subseteq Handles
  BY RuleType DEF Tagged
<1>2. \A r \in chain : r.tag = "docker" => r.id \notin Tagged(tag)
  BY DEF Tagged
<1>3. CASE \E found \in {Tagged(tag), {}} : List(tag, found)
  <2>1. PICK found \in {Tagged(tag), {}} : List(tag, found)
    BY <1>3
  <2>2. /\ handles' = found /\ stale' = FALSE /\ pc' = DropStage(tag)
        /\ pc = ListStage(tag) /\ found \subseteq Handles
        /\ UNCHANGED <<world, docker, chain, nat, hot, addr, uplink>>
    BY <1>1, <2>1 DEF List
  <2>3. TypeOK' /\ Filled'
    BY <2>2
  <2>4. HandlesNameRules' /\ HeldAreOwn'
    BY <1>2, <2>2
  <2> QED BY <2>3, <2>4
<1>4. CASE \E id \in handles : Delete(tag, id)
  BY <1>4 DEF Delete
<1>5. CASE \E id \in handles : DeleteFails(tag, id)
  BY <1>5 DEF DeleteFails
<1>6. CASE Dropped(tag)
  BY <1>6 DEF Dropped
<1> QED BY <1>3, <1>4, <1>5, <1>6

\* A new rule has a handle nobody else has.
LEMMA InstallSafe ==
    ASSUME SafeInv, calm' \in BOOLEAN, Install
    PROVE  SafeInv'
<1> USE DEF SafeInv, After
<1>1. /\ pc \in DOMAIN After /\ pc' = After[pc]
      /\ UNCHANGED <<world, docker>>
      /\ IF After[pc] = "idle" THEN Exit ELSE UNCHANGED script
  BY DEF Install, Proceed, Exit
<1>2. hot \in Ifaces /\ addr \in Subnets /\ uplink \in Ifaces
  BY <1>1 DEF Filled, TypeOK
<1>3. /\ pc' \in Stages /\ Filled'
      /\ {hot', uplink'} \subseteq Ifaces \cup {None} /\ addr' \in Subnets \cup {None}
      /\ handles' \subseteq Handles /\ stale' \in BOOLEAN
      /\ handles' = {} \/ (handles' = handles /\ stale' = stale)
  <2>1. CASE After[pc] = "idle"
    BY <1>1, <2>1 DEF Filled, Exit, Stages
  <2>2. CASE After[pc] # "idle"
    BY <1>1, <1>2, <2>2 DEF TypeOK, Filled, script, Stages
  <2> QED BY <2>1, <2>2
<1>4. CASE \E tag \in Tags : Insert(tag)
  <2>1. PICK tag \in Tags : Insert(tag)
    BY <1>4
  <2>2. CASE ~docker
    BY <1>1, <1>3, <2>1, <2>2 DEF Insert, TypeOK, HandlesNameRules, HeldAreOwn
  <2>3. CASE docker
    <3>1. PICK id \in Unused :
             chain' = chain \cup
                        {[tag |-> tag, hot |-> hot, uplink |-> uplink, id |-> id]}
      BY <2>1, <2>3 DEF Insert
    <3> DEFINE rule == [tag |-> tag, hot |-> hot, uplink |-> uplink, id |-> id]
    <3>2. id \in Handles /\ \A r \in chain : r.id # id
      BY <3>1 DEF Unused
    <3>3. rule \in Rules /\ rule.id = id /\ rule.tag # "docker"
      BY <1>2, <3>2 DEF Rules, Tags
    <3>4. chain' \subseteq Rules
      BY <3>1, <3>3 DEF TypeOK
    <3>5. UNCHANGED nat
      BY <2>1 DEF Insert
    <3>6. TypeOK'
      BY <1>1, <1>3, <2>3, <3>4, <3>5 DEF TypeOK
    <3>7. HandlesNameRules' /\ HeldAreOwn'
      BY <1>1, <1>3, <3>1, <3>2, <3>3 DEF HandlesNameRules, HeldAreOwn
    <3> QED BY <1>3, <3>6, <3>7
  <2> QED BY <2>2, <2>3
<1>5. CASE AddTable \/ AddChain \/ Flush \/ Masquerade
  <2>1. nat' \in NatTables \cup {None}
    <3>1. CASE AddTable
      BY <3>1 DEF AddTable, NatTables, TypeOK
    <3>2. CASE AddChain
      BY <3>2 DEF AddChain, NatTables, TypeOK
    <3>3. CASE Flush
      BY <3>3 DEF Flush, NatTables, TypeOK
    <3>4. CASE Masquerade
      <4>1. [addr |-> addr, hot |-> hot] \in Masquerades
        BY <1>2 DEF Masquerades
      <4> QED BY <3>4, <4>1 DEF Masquerade, NatTables, TypeOK
    <3> QED BY <1>5, <3>1, <3>2, <3>3, <3>4
  <2>2. UNCHANGED chain
    BY <1>5 DEF AddTable, AddChain, Flush, Masquerade
  <2> QED BY <1>1, <1>3, <2>1, <2>2 DEF TypeOK, HandlesNameRules, HeldAreOwn
<1> QED BY <1>4, <1>5 DEF Install, Tags

\* The safe invariant is inductive.
LEMMA SafeStep ==
    ASSUME SafeInv, [Next]_vars
    PROVE  SafeInv'
<1> USE DEF SafeInv
<1>1. world.hot \in Ifaces \cup {None} /\ world.addr \in Subnets \cup {None}
  BY WorldType DEF TypeOK
<1>2. UplinkFor(hot, world.routes) \in Ifaces \cup {None}
  BY UplinkForType, WorldType DEF TypeOK
<1>3. CASE Works
  <2>1. calm' \in BOOLEAN
    BY <1>3 DEF Works, TypeOK
  <2>2. CASE FindHotspot(world.hot)
    BY <1>1, <2>1, <2>2, ReadSafe
  <2>3. CASE \/ world.hot = hot /\ FindAddress(world.addr)
             \/ \E found \in Subnets \cup {None} : FindAddress(found)
    BY <1>1, <2>1, <2>3, ReadSafe
  <2>4. CASE FindUplink(UplinkFor(hot, world.routes))
    BY <1>2, <2>1, <2>4, ReadSafe
  <2>5. CASE \E tag \in Tags : \/ List(tag, Tagged(tag))
                               \/ \E id \in handles : Delete(tag, id)
                               \/ Dropped(tag)
    BY <2>1, <2>5, RemoveSafe
  <2>6. CASE DropTable
    BY <2>1, <2>6 DEF DropTable, AfterRemoval, Exit, TypeOK, Filled, HandlesNameRules,
                      HeldAreOwn, Stages, After, kernel, script
  <2>7. CASE Install
    BY <2>1, <2>7, InstallSafe
  <2> QED BY <1>3, <2>2, <2>3, <2>4, <2>5, <2>6, <2>7 DEF Works
<1>4. CASE CommandFails
  <2>1. calm' \in BOOLEAN
    BY <1>4 DEF CommandFails
  <2>2. CASE FindHotspot(None) \/ FindAddress(None) \/ FindUplink(None)
    BY <2>1, <2>2, ReadSafe
  <2>3. CASE \E tag \in Tags : List(tag, {}) \/ \E id \in handles : DeleteFails(tag, id)
    BY <2>1, <2>3, RemoveSafe
  <2>4. CASE NftFails
    <3>1. UNCHANGED <<world, docker, chain, nat>> /\ nat \in NatTables \cup {None}
      BY <2>4 DEF NftFails, kernel, TypeOK
    <3>2. CASE Exit
      BY <2>1, <3>1, <3>2, ExitSafe
    <3>3. CASE ~Exit
      <4>1. UNCHANGED script /\ pc' \in DOMAIN After /\ uplink # None
        BY <2>4, <3>3 DEF NftFails, AfterRemoval, Proceed, After, Filled
      <4> QED BY <2>1, <3>1, <4>1 DEF TypeOK, Filled, HandlesNameRules, HeldAreOwn,
                                      Stages, After, script
    <3> QED BY <3>2, <3>3
  <2> QED BY <1>4, <2>2, <2>3, <2>4 DEF CommandFails
<1>5. CASE Dispatch
  BY <1>5 DEF Dispatch, TypeOK, Filled, HandlesNameRules, HeldAreOwn, Stages, After,
              kernel, script
<1>6. CASE Killed
  BY <1>6 DEF Killed, Exit, TypeOK, Filled, HandlesNameRules, HeldAreOwn, Stages, After, kernel, script
<1>7. CASE NetworkChanges
  <2>1. world' \in Worlds /\ calm' = FALSE /\ UNCHANGED <<kernel, pc, script>>
    BY <1>7, WorldType DEF NetworkChanges, TypeOK, Worlds
  <2> QED BY <2>1 DEF TypeOK, Filled, HandlesNameRules, HeldAreOwn, kernel, script
<1>8. CASE Docker
  <2>1. UNCHANGED <<world, nat, pc, hot, addr, uplink, handles>> /\ calm' = FALSE
    BY <1>8 DEF Docker
  <2>2. CASE docker' = ~docker /\ chain' = {} /\ stale' \in {stale, handles # {}}
    BY <2>1, <2>2 DEF TypeOK, Filled, HandlesNameRules, HeldAreOwn
  <2>3. CASE /\ \E r \in DockersOwn : chain' = chain \ {r}
             /\ UNCHANGED <<docker, stale>>
    BY <2>1, <2>3 DEF DockersOwn, TypeOK, Filled, HandlesNameRules, HeldAreOwn
  <2>4. CASE /\ docker /\ UNCHANGED <<docker, stale>>
             /\ \E id \in Unused : chain' = chain \cup {[tag |-> "docker", id |-> id]}
    <3>1. PICK id \in Unused : chain' = chain \cup {[tag |-> "docker", id |-> id]}
      BY <2>4
    <3>2. /\ id \in Handles /\ (stale \/ id \notin handles)
          /\ \A r \in chain : r.id # id
      BY <3>1 DEF Unused
    <3>3. [tag |-> "docker", id |-> id] \in Rules
      BY <3>2 DEF Rules
    <3>4. HandlesNameRules' /\ HeldAreOwn'
      BY <2>1, <2>4, <3>1, <3>2 DEF HandlesNameRules, HeldAreOwn
    <3> QED BY <2>1, <2>4, <3>1, <3>3, <3>4 DEF TypeOK, Filled
  <2> QED BY <1>8, <2>2, <2>3, <2>4 DEF Docker
<1>9. CASE UNCHANGED vars
  BY <1>9 DEF vars, kernel, script, TypeOK, Filled, HandlesNameRules, HeldAreOwn
<1> QED BY <1>3, <1>4, <1>5, <1>6, <1>7, <1>8, <1>9 DEF Next

\* It holds when the machine starts.
LEMMA SafeInit == Init => SafeInv
<1> SUFFICES ASSUME Init PROVE SafeInv
  OBVIOUS
<1>1. chain \subseteq Rules /\ HandlesNameRules /\ HeldAreOwn
  <2>1. CASE chain = {}
    BY <2>1 DEF HandlesNameRules, HeldAreOwn
  <2>2. CASE \E i \in Handles : chain = {[tag |-> "docker", id |-> i]}
    BY <2>2 DEF Init, Rules, HandlesNameRules, HeldAreOwn
  <2> QED BY <2>1, <2>2 DEF Init
<1>2. TypeOK
  BY <1>1 DEF Init, TypeOK, Stages
<1>3. Filled
  BY DEF Init, Filled, After
<1> QED BY <1>1, <1>2, <1>3 DEF SafeInv

\* Every variable keeps its type, whatever fails.
THEOREM UplinkTypeCorrect == Spec => []TypeOK
<1>1. SafeInv => TypeOK
  BY DEF SafeInv
<1> QED BY <1>1, SafeInit, SafeStep, PTL DEF Spec

\* No step but Docker's own changes which rules of Docker's there are, as long
\* as the handles the script holds are of the table that is there.
THEOREM DockerIsSafe == Spec => DockerUntouched
<1>1. SafeInv /\ [Next]_vars => [Docker \/ stale \/ DockersOwn' = DockersOwn]_vars
  <2> SUFFICES ASSUME SafeInv, Next, ~Docker, ~stale
               PROVE  DockersOwn' = DockersOwn
    BY DEF vars
  <2>1. CASE UNCHANGED chain
    BY <2>1 DEF DockersOwn
  <2>2. CASE \E tag \in Tags, id \in handles : Delete(tag, id)
    <3>1. PICK id \in handles : chain' = {r \in chain : r.id # id}
      BY <2>2 DEF Delete
    <3> QED BY <3>1 DEF SafeInv, HeldAreOwn, DockersOwn
  <2>3. CASE \E tag \in Tags : Insert(tag)
    <3>1. PICK tag \in Tags : Insert(tag)
      BY <2>3
    <3>2. \/ chain' = chain
          \/ \E id \in Unused :
               chain' = chain \cup
                          {[tag |-> tag, hot |-> hot, uplink |-> uplink, id |-> id]}
      BY <3>1 DEF Insert
    <3> QED BY <3>2 DEF DockersOwn, Tags
  <2>4. \/ UNCHANGED chain
        \/ \E tag \in Tags, id \in handles : Delete(tag, id)
        \/ \E tag \in Tags : Insert(tag)
    <3>1. CASE Works
      BY <3>1 DEF Works, FindHotspot, FindAddress, FindUplink, List, Dropped, DropTable,
                  Install, AddTable, AddChain, Flush, Masquerade, kernel, Tags
    <3>2. CASE CommandFails
      BY <3>2 DEF CommandFails, FindHotspot, FindAddress, FindUplink, List, DeleteFails,
                  NftFails, kernel
    <3> QED BY <3>1, <3>2 DEF Next, Dispatch, Killed, NetworkChanges, kernel
  <2> QED BY <2>1, <2>2, <2>3, <2>4
<1> QED BY <1>1, SafeInit, SafeStep, PTL DEF Spec, DockerUntouched
-----------------------------------------------------------------------------
(* The invariant of an undisturbed run.                                    *)

\* What the script has read is still so.
Current ==
    /\ pc \notin {"idle", "hotspot"} => hot = world.hot
    /\ pc \notin {"idle", "hotspot", "address"} /\ hot # None => addr = world.addr
    /\ pc \notin {"idle", "hotspot", "address", "route"} /\ hot # None
          => uplink = UplinkFor(hot, world.routes)

Absent(tag) == \A r \in chain : r.tag # tag

Placed(tag, h, up) ==
    docker => \E id \in Handles :
                 {r \in chain : r.tag = tag} =
                    {[tag |-> tag, hot |-> h, uplink |-> up, id |-> id]}

Held(tag) == \A r \in chain : r.tag = tag => r.id \in handles

Translation(a, h) == [chain |-> TRUE, rules |-> {[addr |-> a, hot |-> h]}]

\* What the commands so far have achieved.
Removing ==
    /\ pc = "drop_out" => Held("out")
    /\ pc = "drop_in" => Held("in")
    /\ pc \in {"list_in", "drop_in", "drop_table", "insert_out"} => Absent("out")
    /\ pc \in {"drop_table", "insert_out", "insert_in"} => Absent("in")

Installing ==
    /\ pc \in {"insert_in", "add_table", "add_chain", "flush", "masquerade"} => Placed("out", hot, uplink)
    /\ pc \in {"add_table", "add_chain", "flush", "masquerade"} => Placed("in", hot, uplink)
    /\ pc \in {"insert_out", "insert_in", "add_table"} => nat = None
    /\ pc = "add_chain" => nat = [chain |-> FALSE, rules |-> {}]
    /\ pc \in {"flush", "masquerade"} => nat = [chain |-> TRUE, rules |-> {}]

Done ==
    pc = "idle" /\ (world.hot = None \/ world.addr # None) =>
        LET up == UplinkFor(world.hot, world.routes) IN
        IF world.hot = None \/ up = None
        THEN Absent("out") /\ Absent("in") /\ nat = None
        ELSE /\ Placed("out", world.hot, up) /\ Placed("in", world.hot, up)
             /\ nat = Translation(world.addr, world.hot)

Undisturbed == Current /\ Removing /\ Installing /\ Done

CalmInv == SafeInv /\ (calm => Undisturbed)

\* The reads set each variable to what the world has.
LEMMA ReadCalm ==
    ASSUME SafeInv, SafeInv', Undisturbed,
           \/ FindHotspot(world.hot)
           \/ FindAddress(world.addr)
           \/ FindUplink(UplinkFor(hot, world.routes))
    PROVE  Undisturbed'
<1> USE DEF Undisturbed, Current, Removing, Installing, Done, kernel, After
<1>1. CASE FindHotspot(world.hot)
  BY <1>1 DEF FindHotspot
<1>2. CASE FindAddress(world.addr)
  BY <1>2 DEF FindAddress, Exit, SafeInv, Filled
<1>3. CASE FindUplink(UplinkFor(hot, world.routes))
  BY <1>3 DEF FindUplink
<1> QED BY <1>1, <1>2, <1>3

\* Listing and deleting leave no rule with the tag.
LEMMA RemoveCalm ==
    ASSUME SafeInv, SafeInv', Undisturbed, NEW tag \in Tags,
           \/ List(tag, Tagged(tag))
           \/ \E id \in handles : Delete(tag, id)
           \/ Dropped(tag)
    PROVE  Undisturbed'
<1> USE DEF Undisturbed, Tags, ListStage, DropStage, AfterDrop, kernel, script
<1>1. CASE List(tag, Tagged(tag))
  <2>1. Held(tag)'
    BY <1>1 DEF List, Held, Tagged
  <2> QED BY <1>1, <2>1 DEF List, Current, Removing, Installing, Done, Absent
<1>2. CASE \E id \in handles : Delete(tag, id)
  <2>1. PICK id \in handles : Delete(tag, id)
    BY <1>2
  <2>2. chain' \subseteq chain /\ (Held(tag) => Held(tag)')
    BY <2>1 DEF Delete, Held
  <2>3. \A t \in Tags : Absent(t) => Absent(t)'
    BY <2>2 DEF Absent
  <2> QED BY <2>1, <2>2, <2>3 DEF Delete, Current, Removing, Installing, Done
<1>3. CASE Dropped(tag)
  <2>1. Held(tag) => Absent(tag)
    BY <1>3 DEF Dropped, Held, Absent
  <2> QED BY <1>3, <2>1 DEF Dropped, Current, Removing, Installing, Done, Absent
<1> QED BY <1>1, <1>2, <1>3

\* With the table gone, either all is done or install_for begins from nothing.
LEMMA DropTableCalm ==
    ASSUME SafeInv, SafeInv', Undisturbed, DropTable
    PROVE  Undisturbed'
<1>1. /\ pc = "drop_table" /\ nat' = None /\ UNCHANGED <<world, docker, chain>>
      /\ Absent("out")' /\ Absent("in")'
  BY DEF DropTable, Undisturbed, Removing, Absent
<1>2. CASE uplink = None
  <2>1. pc' = "idle"
    BY <1>2 DEF DropTable, AfterRemoval, Exit
  <2>2. world.hot # None /\ world.addr # None => UplinkFor(world.hot, world.routes) = None
    BY <1>1, <1>2 DEF Undisturbed, Current
  <2> QED BY <1>1, <2>1, <2>2 DEF Undisturbed, Current, Removing, Installing, Done
<1>3. CASE uplink # None
  <2>1. pc' = "insert_out" /\ UNCHANGED script
    BY <1>3 DEF DropTable, AfterRemoval
  <2> QED BY <1>1, <2>1 DEF Undisturbed, Current, Removing, Installing, Done, script
<1> QED BY <1>2, <1>3

\* A table without rules is a table.
LEMMA EmptyTable ==
    ASSUME NEW b \in BOOLEAN
    PROVE  [chain |-> b, rules |-> {}] # None
<1>1. {} \in SUBSET Masquerades
  OBVIOUS
<1>2. [chain |-> b, rules |-> {}] \in NatTables
  BY <1>1 DEF NatTables
<1> QED BY <1>2

\* install_for adds one rule of each kind and builds the table.
LEMMA InstallCalm ==
    ASSUME SafeInv, SafeInv', Undisturbed, Install
    PROVE  Undisturbed'
<1>1. /\ pc \in DOMAIN After /\ UNCHANGED <<world, docker>>
      /\ pc # "masquerade" => pc' = After[pc] /\ UNCHANGED <<hot, addr, uplink, handles>>
      /\ pc = "masquerade" => pc' = "idle"
  BY DEF Install, Proceed, Exit, After, script
<1>2. /\ hot # None /\ addr # None /\ uplink # None
      /\ hot = world.hot /\ addr = world.addr
      /\ uplink = UplinkFor(world.hot, world.routes)
  BY <1>1 DEF SafeInv, Filled, Undisturbed, Current, After
<1>3. Current'
  BY <1>1 DEF Undisturbed, Current, After
<1>4. ASSUME NEW tag \in Tags, Insert(tag)
      PROVE  /\ Absent(tag) => Placed(tag, hot, uplink)'
             /\ \A t \in Tags \ {tag} :
                   /\ Absent(t) => Absent(t)'
                   /\ Placed(t, hot, uplink) => Placed(t, hot, uplink)'
             /\ UNCHANGED nat
  <2>1. UNCHANGED <<hot, uplink>>
    BY <1>1, <1>4 DEF Insert
  <2>2. CASE ~docker
    BY <1>1, <1>4, <2>1, <2>2 DEF Insert, Absent, Placed
  <2>3. CASE docker
    <3>1. PICK id \in Unused :
             chain' = chain \cup
                        {[tag |-> tag, hot |-> hot, uplink |-> uplink, id |-> id]}
      BY <1>4, <2>3 DEF Insert
    <3> DEFINE rule == [tag |-> tag, hot |-> hot, uplink |-> uplink, id |-> id]
    <3>2. id \in Handles
      BY DEF Unused
    <3>3. Absent(tag) => {r \in chain' : r.tag = tag} = {rule}
      BY <3>1 DEF Absent
    <3>4. \A t \in Tags \ {tag} : {r \in chain' : r.tag = t} = {r \in chain : r.tag = t}
      BY <3>1
    <3>5. Absent(tag) => Placed(tag, hot, uplink)'
      BY <1>1, <2>1, <3>2, <3>3 DEF Placed
    <3>6. \A t \in Tags \ {tag} : Absent(t) => Absent(t)'
      BY <3>1 DEF Absent
    <3>7. \A t \in Tags \ {tag} : Placed(t, hot, uplink) => Placed(t, hot, uplink)'
      BY <1>1, <2>1, <3>4 DEF Placed
    <3> QED BY <1>4, <3>5, <3>6, <3>7 DEF Insert
  <2> QED BY <2>2, <2>3
<1>5. CASE Insert("out")
  <2>1. pc = "insert_out" /\ pc' = "insert_in"
    BY <1>1, <1>5 DEF Insert, After
  <2>2. Placed("out", hot, uplink)' /\ Absent("in")' /\ nat' = None
    BY <1>4, <1>5, <2>1 DEF Undisturbed, Removing, Installing, Tags
  <2> QED BY <1>3, <2>1, <2>2 DEF Undisturbed, Removing, Installing, Done
<1>6. CASE Insert("in")
  <2>1. pc = "insert_in" /\ pc' = "add_table"
    BY <1>1, <1>6 DEF Insert, After
  <2>2. Placed("out", hot, uplink)' /\ Placed("in", hot, uplink)' /\ nat' = None
    BY <1>4, <1>6, <2>1 DEF Undisturbed, Removing, Installing, Tags
  <2> QED BY <1>3, <2>1, <2>2 DEF Undisturbed, Removing, Installing, Done
<1>7. CASE AddTable \/ AddChain \/ Flush \/ Masquerade
  <2>1. UNCHANGED <<chain, docker>> /\ pc \in {"add_table", "add_chain", "flush", "masquerade"}
    BY <1>1, <1>7 DEF AddTable, AddChain, Flush, Masquerade
  <2>2. Placed("out", hot, uplink) /\ Placed("in", hot, uplink)
    BY <2>1 DEF Undisturbed, Installing
  <2>3. pc # "masquerade" => Placed("out", hot, uplink)' /\ Placed("in", hot, uplink)'
    BY <1>1, <2>1, <2>2 DEF Placed
  <2>4. CASE AddTable
    BY <1>1, <1>3, <2>3, <2>4
    DEF AddTable, After, Undisturbed, Removing, Installing, Done
  <2>5. CASE AddChain
    <3>1. pc = "add_chain" /\ pc' = "flush" /\ nat = [chain |-> FALSE, rules |-> {}]
      BY <1>1, <2>5 DEF AddChain, After, Undisturbed, Installing
    <3>2. nat # None
      BY <3>1, EmptyTable
    <3>3. nat' = [chain |-> TRUE, rules |-> {}]
      BY <2>5, <3>1, <3>2 DEF AddChain
    <3> QED BY <1>3, <2>3, <3>1, <3>3 DEF Undisturbed, Removing, Installing, Done
  <2>6. CASE Flush
    <3>1. pc = "flush" /\ pc' = "masquerade" /\ nat = [chain |-> TRUE, rules |-> {}]
      BY <1>1, <2>6 DEF Flush, After, Undisturbed, Installing
    <3>2. nat' = [chain |-> TRUE, rules |-> {}]
      BY <2>6, <3>1 DEF Flush
    <3> QED BY <1>3, <2>3, <3>1, <3>2 DEF Undisturbed, Removing, Installing, Done
  <2>7. CASE Masquerade
    <3>1. pc = "masquerade" /\ pc' = "idle" /\ nat = [chain |-> TRUE, rules |-> {}]
      BY <1>1, <2>7 DEF Masquerade, Undisturbed, Installing
    <3>2. nat # None
      BY <3>1, EmptyTable
    <3>3. nat' = Translation(world.addr, world.hot)
      BY <1>2, <2>7, <3>1, <3>2 DEF Masquerade, Translation
    <3>4. /\ Placed("out", world.hot, UplinkFor(world.hot, world.routes))'
          /\ Placed("in", world.hot, UplinkFor(world.hot, world.routes))'
      BY <1>1, <1>2, <2>1, <2>2 DEF Placed
    <3>5. Translation(world.addr, world.hot)' = Translation(world.addr, world.hot)
      BY <1>1 DEF Translation
    <3>6. Done'
      BY <1>1, <1>2, <3>3, <3>4, <3>5 DEF Done
    <3> QED BY <1>3, <3>1, <3>6 DEF Undisturbed, Removing, Installing
  <2> QED BY <1>7, <2>4, <2>5, <2>6, <2>7
<1> QED BY <1>5, <1>6, <1>7 DEF Install

\* The invariant of an undisturbed run is inductive.
LEMMA CalmStep ==
    ASSUME CalmInv, [Next]_vars
    PROVE  CalmInv'
<1>1. SafeInv /\ SafeInv'
  BY SafeStep DEF CalmInv
<1>2. CASE Works
  <2> SUFFICES ASSUME calm PROVE Undisturbed'
    BY <1>1, <1>2 DEF Works, CalmInv
  <2>1. Undisturbed
    BY DEF CalmInv
  <2>2. CASE FindHotspot(world.hot) \/ FindUplink(UplinkFor(hot, world.routes))
    BY <1>1, <2>1, <2>2, ReadCalm
  <2>3. CASE world.hot = hot /\ FindAddress(world.addr)
    BY <1>1, <2>1, <2>3, ReadCalm
  <2>4. CASE world.hot # hot /\ \E found \in Subnets \cup {None} : FindAddress(found)
    BY <2>1, <2>4 DEF Undisturbed, Current, FindAddress
  <2>5. CASE \E tag \in Tags : \/ List(tag, Tagged(tag))
                               \/ \E id \in handles : Delete(tag, id)
                               \/ Dropped(tag)
    BY <1>1, <2>1, <2>5, RemoveCalm
  <2>6. CASE DropTable
    BY <1>1, <2>1, <2>6, DropTableCalm
  <2>7. CASE Install
    BY <1>1, <2>1, <2>7, InstallCalm
  <2> QED BY <1>2, <2>2, <2>3, <2>4, <2>5, <2>6, <2>7 DEF Works
<1>3. CASE CommandFails \/ Killed \/ NetworkChanges \/ Docker
  <2>1. calm' = FALSE
    BY <1>3 DEF CommandFails, Killed, NetworkChanges, Docker
  <2> QED BY <1>1, <2>1 DEF CalmInv
<1>4. CASE Dispatch
  BY <1>1, <1>4 DEF Dispatch, CalmInv, Undisturbed, Current, Removing, Installing, Done
<1>5. CASE UNCHANGED vars
  BY <1>1, <1>5 DEF vars, kernel, script, CalmInv, Undisturbed, Current, Removing,
                    Installing, Done, Absent, Placed, Held, Translation
<1> QED BY <1>2, <1>3, <1>4, <1>5 DEF Next

\* A rule that is placed is the only one with its tag.
LEMMA PlacedCounts ==
    ASSUME SafeInv, NEW tag \in Tags, NEW h, NEW up, Placed(tag, h, up)
    PROVE  /\ Cardinality(Tagged(tag)) = (IF docker THEN 1 ELSE 0)
           /\ \A r \in chain : r.tag = tag => r.hot = h /\ r.uplink = up
<1>1. CASE docker
  <2>1. PICK id \in Handles :
           {r \in chain : r.tag = tag} =
              {[tag |-> tag, hot |-> h, uplink |-> up, id |-> id]}
    BY <1>1 DEF Placed
  <2>2. Tagged(tag) = {id}
    <3> DEFINE rules == {r \in chain : r.tag = tag}
               rule == [tag |-> tag, hot |-> h, uplink |-> up, id |-> id]
    <3>1. rules = {rule} /\ rule.id = id
      BY <2>1
    <3>2. Tagged(tag) = {r.id : r \in rules}
      BY DEF Tagged
    <3> HIDE DEF rules, rule
    <3> QED BY <3>1, <3>2
  <2>3. Cardinality(Tagged(tag)) = 1
    BY <2>2, FS_Singleton
  <2>4. \A r \in chain : r.tag = tag => r.hot = h /\ r.uplink = up
    BY <2>1
  <2> QED BY <1>1, <2>3, <2>4
<1>2. CASE ~docker
  <2>1. chain = {}
    BY <1>2 DEF SafeInv, TypeOK
  <2>2. Tagged(tag) = {}
    BY <2>1 DEF Tagged
  <2> QED BY <1>2, <2>1, <2>2, FS_EmptySet
<1> QED BY <1>1, <1>2

\* One run during which nothing else happens and nothing fails leaves exactly
\* the rules that the hotspot and the uplink call for.
THEOREM Idempotent == Spec => []OneRunSuffices
<1>1. Init => CalmInv
  BY SafeInit DEF Init, CalmInv
<1>2. CalmInv => OneRunSuffices
  <2> SUFFICES ASSUME CalmInv, calm, pc = "idle", world.hot # None => world.addr # None
               PROVE  Reconciled
    BY DEF OneRunSuffices
  <2> DEFINE up == UplinkFor(world.hot, world.routes)
  <2>1. SafeInv /\ Done
    BY DEF CalmInv, Undisturbed
  <2>2. CASE world.hot = None \/ up = None
    <3>1. Own = {} /\ nat = None
      BY <2>1, <2>2 DEF Done, Absent, Own, Tags
    <3> QED BY <2>2, <3>1 DEF Reconciled
  <2>3. CASE ~(world.hot = None \/ up = None)
    <3>1. /\ Placed("out", world.hot, up) /\ Placed("in", world.hot, up)
          /\ nat = Translation(world.addr, world.hot)
      BY <2>1, <2>3 DEF Done
    <3>2. \A tag \in Tags :
             /\ Cardinality(Tagged(tag)) = (IF docker THEN 1 ELSE 0)
             /\ \A r \in chain : r.tag = tag => r.hot = world.hot /\ r.uplink = up
      BY <2>1, <3>1, PlacedCounts DEF Tags
    <3>3. \A r \in Own : r.hot = world.hot /\ r.uplink = up
      BY <3>2 DEF Own
    <3> QED BY <2>3, <3>1, <3>2, <3>3 DEF Reconciled, Translation
  <2> QED BY <2>2, <2>3
<1> QED BY <1>1, <1>2, CalmStep, PTL DEF Spec
=============================================================================
