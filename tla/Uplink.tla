-------------------------------- MODULE Uplink ------------------------------
(***************************************************************************)
(* The NetworkManager dispatcher script 90-hotstream-uplink: what it reads *)
(* and every nft command it issues, one after the other, while the network *)
(* changes, Docker edits its own chain, commands fail and runs are killed. *)
(*                                                                         *)
(* NetworkManager runs one script at a time, on any event and possibly     *)
(* long after it, so a run may start at any moment.  The script is without *)
(* `set -e`: a command that fails is passed over.  nft, nmcli, ip and jq   *)
(* are external and modelled from how the script uses them.  Where in      *)
(* Docker's chain a rule stands is left out, so the chain is a set.        *)
(***************************************************************************)
EXTENDS Naturals, Sequences, FiniteSets, FiniteSetsExt

CONSTANTS
    Ifaces,     \* network interfaces
    Subnets,    \* addresses a hotspot may have
    None,       \* no interface, no address, no table
    Routes,     \* bound: the IPv4 default routes, most preferred first
    Handles,    \* bound: the handles nft has for the rules of a table
    DockerRules \* bound: the rules Docker has in its chain at once

VARIABLES
    world,      \* hotspot, its address, the default routes in order
    docker,     \* whether Docker's chain `ip filter FORWARD` is there
    chain,      \* the rules in it
    nat,        \* the table `hotstream-uplink-nat`, or None
    pc,         \* the script's next command
    hot, addr, uplink,      \* its variables
    handles,    \* handles it has listed and not yet deleted
    stale,      \* history: their table was deleted since, and may be made anew
    calm        \* history: since this run, or the last, began, nothing but the
                \* script moved and nothing failed

script == <<hot, addr, uplink, handles, stale>>

kernel == <<docker, chain, nat>>

vars == <<world, kernel, pc, script, calm>>

-----------------------------------------------------------------------------
(* Data.                                                                   *)

Tags == {"out", "in"}       \* TAG_OUT, TAG_IN

Rules ==
    [tag : Tags, hot : Ifaces, uplink : Ifaces, id : Handles]
        \cup [tag : {"docker"}, id : Handles]

Masquerades == [addr : Subnets, hot : Ifaces]

NatTables == [chain : BOOLEAN, rules : SUBSET Masquerades]

ASSUME UplinkAssumption ==
    /\ None \notin Ifaces \cup Subnets \cup NatTables
    /\ Routes \subseteq Seq(Ifaces)

Worlds == [hot : Ifaces, addr : Subnets \cup {None}, routes : Routes]
              \cup [hot : {None}, addr : {None}, routes : Routes]

\* Every command of install_for, in order, and what follows it.
After ==
    [insert_out |-> "insert_in", insert_in |-> "add_table",
     add_table |-> "add_chain", add_chain |-> "flush",
     flush |-> "masquerade", masquerade |-> "idle"]

Stages ==
    {"idle", "hotspot", "address", "route", "list_out", "drop_out", "list_in",
     "drop_in", "drop_table"} \cup DOMAIN After

TypeOK ==
    /\ world \in Worlds
    /\ docker \in BOOLEAN
    /\ chain \subseteq Rules /\ (chain # {} => docker)
    /\ nat \in NatTables \cup {None}
    /\ pc \in Stages
    /\ {hot, uplink} \subseteq Ifaces \cup {None}
    /\ addr \in Subnets \cup {None}
    /\ handles \subseteq Handles /\ stale \in BOOLEAN
    /\ calm \in BOOLEAN

\* find_uplink_iface: the first default route that is not the hotspot's.
UplinkFor(h, routes) ==
    LET others == {i \in DOMAIN routes : routes[i] # h}
    IN  IF others = {} THEN None ELSE routes[Min(others)]

Own == {r \in chain : r.tag \in Tags}

DockersOwn == {r \in chain : r.tag = "docker"}

\* Defect: jq selects every rule.
TaggedAny(tag) == {r.id : r \in chain}

\* The handles of the rules with this comment.
Tagged(tag) == {r.id : r \in {x \in chain : x.tag = tag}}

\* nft numbers the rules of a table one after the other, so a handle is not
\* given again while the script holds it, unless the table was made anew.
Unused == Handles \ ({r.id : r \in chain} \cup IF stale THEN {} ELSE handles)

Init ==
    /\ world \in Worlds
    /\ docker \in BOOLEAN
    /\ chain \in {{}} \cup {{[tag |-> "docker", id |-> i]} : i \in Handles}
    /\ chain # {} => docker
    /\ nat = None
    /\ pc = "idle"
    /\ hot = None /\ addr = None /\ uplink = None
    /\ handles = {} /\ stale = FALSE
    /\ calm = FALSE

-----------------------------------------------------------------------------
(* reconcile: what it reads.                                               *)

\* NetworkManager runs the script for an up or down event.
Dispatch ==
    /\ pc = "idle"
    /\ pc' = "hotspot"
    /\ calm' = TRUE
    /\ UNCHANGED <<world, kernel, script>>

\* The script ends, and its variables with it.
Exit ==
    /\ pc' = "idle"
    /\ hot' = None /\ addr' = None /\ uplink' = None
    /\ handles' = {} /\ stale' = FALSE

\* Without a hotspot all that is left to do is remove_owned.
FindHotspot(found) ==
    /\ pc = "hotspot"
    /\ hot' = found
    /\ pc' = IF found = None THEN "list_out" ELSE "address"
    /\ UNCHANGED <<world, kernel, addr, uplink, handles, stale>>

\* No address yet: "nothing to reconcile this run".
FindAddress(found) ==
    /\ pc = "address"
    /\ IF found = None THEN Exit
       ELSE /\ addr' = found /\ pc' = "route"
            /\ UNCHANGED <<hot, uplink, handles, stale>>
    /\ UNCHANGED <<world, kernel>>

\* Defect: leaves rules alone that are there already.
FindUplinkOnce(found) ==
    /\ pc = "route"
    /\ IF found # None /\ Own # {} THEN Exit
       ELSE /\ uplink' = found /\ pc' = "list_out"
            /\ UNCHANGED <<hot, addr, handles, stale>>
    /\ UNCHANGED <<world, kernel>>

FindUplink(found) ==
    /\ pc = "route"
    /\ uplink' = found
    /\ pc' = "list_out"
    /\ UNCHANGED <<world, kernel, hot, addr, handles, stale>>

-----------------------------------------------------------------------------
(* remove_owned.                                                           *)

AfterDrop(tag) == IF tag = "out" THEN "list_in" ELSE "drop_table"
ListStage(tag) == IF tag = "out" THEN "list_out" ELSE "list_in"
DropStage(tag) == IF tag = "out" THEN "drop_out" ELSE "drop_in"

List(tag, found) ==
    /\ pc = ListStage(tag)
    /\ handles' = found /\ stale' = FALSE
    /\ pc' = DropStage(tag)
    /\ UNCHANGED <<world, kernel, hot, addr, uplink>>

\* `nft delete rule ... handle`, which fails if the chain went away.
Delete(tag, id) ==
    /\ pc = DropStage(tag) /\ id \in handles
    /\ handles' = handles \ {id}
    /\ chain' = {r \in chain : r.id # id}
    /\ UNCHANGED <<world, docker, nat, pc, hot, addr, uplink, stale>>

Dropped(tag) ==
    /\ pc = DropStage(tag) /\ handles = {}
    /\ pc' = AfterDrop(tag) /\ stale' = FALSE
    /\ UNCHANGED <<world, kernel, hot, addr, uplink, handles>>

\* Without an uplink that was all.
AfterRemoval ==
    IF uplink = None THEN Exit
    ELSE pc' = "insert_out" /\ UNCHANGED script

DropTable ==
    /\ pc = "drop_table"
    /\ nat' = None
    /\ AfterRemoval
    /\ UNCHANGED <<world, docker, chain>>

-----------------------------------------------------------------------------
(* install_for.                                                            *)

\* Bound: with no handle left it can only fail.
Insert(tag) ==
    /\ pc = IF tag = "out" THEN "insert_out" ELSE "insert_in"
    /\ IF ~docker THEN UNCHANGED chain
       ELSE \E id \in Unused :
               chain' = chain \cup
                  {[tag |-> tag, hot |-> hot, uplink |-> uplink, id |-> id]}
    /\ UNCHANGED nat

AddTable ==
    /\ pc = "add_table"
    /\ nat' = IF nat = None THEN [chain |-> FALSE, rules |-> {}] ELSE nat
    /\ UNCHANGED chain

AddChain ==
    /\ pc = "add_chain"
    /\ nat' = IF nat = None THEN nat ELSE [nat EXCEPT !.chain = TRUE]
    /\ UNCHANGED chain

Flush ==
    /\ pc = "flush"
    /\ nat' = IF nat = None THEN nat ELSE [nat EXCEPT !.rules = {}]
    /\ UNCHANGED chain

Masquerade ==
    /\ pc = "masquerade"
    /\ nat' = IF nat = None \/ ~nat.chain THEN nat
              ELSE [nat EXCEPT !.rules = @ \cup {[addr |-> addr, hot |-> hot]}]
    /\ UNCHANGED chain

\* On to the next command, if there is one.
Proceed ==
    /\ pc \in DOMAIN After
    /\ IF After[pc] = "idle" THEN Exit
       ELSE pc' = After[pc] /\ UNCHANGED script

Install ==
    /\ Insert("out") \/ Insert("in") \/ AddTable \/ AddChain \/ Flush \/ Masquerade
    /\ Proceed
    /\ UNCHANGED <<world, docker>>

-----------------------------------------------------------------------------
(* A run in which every command succeeds, the ways it fails, and the rest  *)
(* of the machine.                                                         *)

Works ==
    /\ \/ FindHotspot(world.hot)
       \/ world.hot = hot /\ FindAddress(world.addr)
       \/ /\ world.hot # hot         \* whatever that interface has become
          /\ \E found \in Subnets \cup {None} : FindAddress(found)
       \/ FindUplink(UplinkFor(hot, world.routes))
       \/ \E tag \in Tags :
             \/ List(tag, Tagged(tag))
             \/ \E id \in handles : Delete(tag, id)
             \/ Dropped(tag)
       \/ DropTable
       \/ Install
    /\ UNCHANGED calm

DeleteFails(tag, id) ==
    /\ pc = DropStage(tag) /\ id \in handles
    /\ handles' = handles \ {id}
    /\ UNCHANGED <<world, kernel, pc, hot, addr, uplink, stale>>

NftFails ==
    /\ \/ pc = "drop_table" /\ AfterRemoval
       \/ Proceed
    /\ UNCHANGED <<world, kernel>>

\* A command that fails prints nothing and is passed over; a listing that
\* fails shows no rule.
CommandFails ==
    /\ \/ FindHotspot(None) \/ FindAddress(None) \/ FindUplink(None)
       \/ \E tag \in Tags :
             \/ List(tag, {})
             \/ \E id \in handles : DeleteFails(tag, id)
       \/ NftFails
    /\ calm' = FALSE

Killed ==
    /\ pc # "idle"
    /\ Exit
    /\ calm' = FALSE
    /\ UNCHANGED <<world, kernel>>

\* One change after the other: another hotspot, its address, other routes.
NetworkChanges ==
    /\ \/ \E h \in (Ifaces \cup {None}) \ {world.hot} :
             world' = [hot |-> h, addr |-> None, routes |-> world.routes]
       \/ /\ world.hot # None
          /\ \E a \in (Subnets \cup {None}) \ {world.addr} :
                world' = [world EXCEPT !.addr = a]
       \/ \E r \in Routes \ {world.routes} : world' = [world EXCEPT !.routes = r]
    /\ calm' = FALSE
    /\ UNCHANGED <<kernel, pc, script>>

\* With its table or without, Docker's chain may go and come back at any time.
Docker ==
    /\ \/ docker' = ~docker /\ chain' = {} /\ stale' \in {stale, handles # {}}
       \/ /\ \E r \in DockersOwn : chain' = chain \ {r}
          /\ UNCHANGED <<docker, stale>>
       \/ /\ docker /\ Cardinality(DockersOwn) < DockerRules
          /\ \E id \in Unused : chain' = chain \cup {[tag |-> "docker", id |-> id]}
          /\ UNCHANGED <<docker, stale>>
    /\ calm' = FALSE
    /\ UNCHANGED <<world, nat, pc, hot, addr, uplink, handles>>

Next == Dispatch \/ Works \/ CommandFails \/ Killed \/ NetworkChanges \/ Docker

Spec == Init /\ [][Next]_vars

-----------------------------------------------------------------------------
(* Properties.                                                             *)

(* "Docker's own rules are never edited, reordered, or removed": whatever  *)
(* fails, and whatever Docker adds and removes between a listing and the   *)
(* deletions, the script removes rules of its own only (remove_owned).     *)
(* The code has one exception: a table that is made anew meanwhile gives   *)
(* out again the handles the script still holds.                           *)
DockerUntouched == [][Docker \/ stale \/ DockersOwn' = DockersOwn]_vars

\* What the rules should be: "exactly that (hotspot interface, uplink
\* interface) pair".
Reconciled ==
    LET up == UplinkFor(world.hot, world.routes) IN
    IF world.hot = None \/ up = None
    THEN Own = {} /\ nat = None
    ELSE /\ \A r \in Own : r.hot = world.hot /\ r.uplink = up
         /\ \A tag \in Tags : Cardinality(Tagged(tag)) = (IF docker THEN 1 ELSE 0)
         /\ nat = [chain |-> TRUE,
                   rules |-> {[addr |-> world.addr, hot |-> world.hot]}]

(* "every run re-derives the actual current state": one run during which   *)
(* nothing else happens sets everything right, whatever earlier runs were  *)
(* killed or failed in the middle of, and nothing piles up.  A hotspot     *)
(* without an address is the exception the script makes (reconcile).       *)
OneRunSuffices ==
    calm /\ pc = "idle" /\ (world.hot # None => world.addr # None) => Reconciled
=============================================================================
