# A formal model of Hot-Stream

Hot-Stream shows the clients of the laptop's Wi-Fi hotspot and enforces three policies on them: blocked
clients, a maximum number of clients, and bandwidth limits. This directory models how it does that in
TLA+, checks the models with TLC on small instances, and proves the central results with TLAPS for every
value of the constants.

Paths below are relative to the repository root; `H` stands for `src-tauri/src`.

## The system

| Component | Source | State it keeps | Operations | What is hard about it |
|---|---|---|---|---|
| nft enforcement | `H/enforce/kernel.rs`, `mod.rs` | one nftables table: a block set, an admitted set with a size, two rules scoped to an interface | `block`, `unblock`, `set_admission`, `status`: read everything, edit, rewrite everything | up to three nft calls per write; the set must be resized before the batch; any call may fail |
| helper process and lock | `H/bin/hot-stream-helper.rs`, `H/enforce/lock.rs` | an flock | one process per call, holding the lock from the first read to the last | concurrent helpers, death in the middle, waiting without a bound |
| helper client | `H/enforce/helper_client.rs` | none | run a helper, give up after five seconds and kill it | the nft process of a killed helper lives on |
| bandwidth shaping | `H/enforce/shaping.rs` | tc: an HTB hierarchy per device, an IFB device for uploads, an ingress redirect | `set_limit`, `read_state`, `clear_all` | up to some twenty commands per call, none atomic; class numbers are chosen anew from the kernel's state |
| window | `src/main.ts`, `src/format.ts`, `H/commands.rs` | the `View`: last readings, fields being edited, calls pending | two-second poll, block/unblock, Apply, Set, automatic reconciliation of the admitted set | calls run at the same time and are answered in any order |
| discovery | `H/discovery/{mod,iw,ip,dns}.rs` | none | one snapshot of interface, stations, addresses, names | made of separate calls while the hotspot changes |
| running tools | `H/discovery/exec.rs` | child process, three threads | run with a deadline | full pipes, deadline, spawn retry, children that keep pipes open |
| uplink dispatcher | `contrib/system/90-hotstream-uplink` | two tagged rules in Docker's chain, one NAT table | reconcile on every interface event | six unchecked commands, events in any order |
| the rest | `H/model.rs`, `H/lib.rs`, `H/enforce/ambient.rs`, `contrib/desktop` | none | address parsing, start-up, capability raising, installation | nothing concurrent |

The parts interact like this. The window polls discovery, then the helper's status. A click, or a client
list that no longer matches the admitted set, makes it run a helper. The helper takes the lock, changes nft
or tc, reads back and prints the resulting state, which replaces what the window believed. Between window
and helper there is only the process: arguments in, one JSON reading out, or an error. The dispatcher runs
on its own and shares nothing with the helper but the machine.

What makes each part correct:

- **nft enforcement**: no update is lost between concurrent calls; a success is real; block and admission
  do not disturb each other; no half-written table blocks other interfaces' traffic.
- **lock**: two live helpers never overlap; the lock always comes free and every caller gets an answer.
- **shaping**: a call changes no client but its own; what a broken call leaves behind never makes a later
  one fail; traffic is not redirected to a device that is not ready; other tools' qdiscs are left alone.
- **window**: the admitted set reaches the oldest clients; what the user types is kept; the window ends up
  showing what the kernel enforces.
- **discovery, tools, dispatcher**: the snapshot is of one hotspot; a tool never hangs its caller; rules
  match the current uplink and do not pile up.

## Modules

| Module | What it is |
|---|---|
| `Policy` | the data shared by the nft model, its abstract specification and the window: policies, requests, the edit a request makes |
| `NftTable` | the kernel's table as a value; the parser (`ReadPolicy`), the check before a write (`Buildable`), the three writes (`AddTable`, `Resize`, `RunBatch`) and the kernel's own size check (`BatchFits`) |
| `Enforcement` | helper processes over that table: lock, nft calls one by one, failures, kills, orphaned nft processes |
| `PolicyStore` | the abstract specification: one shared policy, every successful call edits it exactly once |
| `EnforcementProofs` | theorems about `Enforcement` |
| `Shaping` | `set_limit` as a sequence of tc and ip commands |
| `ShapingProofs` | theorems about `Shaping` |
| `Window` | the poll loop, the user, reconciliation, both forms and the calls in flight, over the helper as `PolicyStore` promises it |
| `WindowProofs` | theorems about `Window` |
| `Exec` | `run_with_stdin`: the caller, the tool it runs, three pipes and the threads that serve them |
| `ExecProofs` | theorems about `Exec` |
| `Dns` | from a DNS reply to a hostname, as functions of the reply |
| `Snapshot` | one reading of the hotspot after another: four tools and the lookups, over a machine that changes; uses `Dns` |
| `SnapshotProofs` | theorems about `Snapshot` and `Dns` |
| `Uplink` | the dispatcher script, one command at a time, between Docker and a changing network |
| `UplinkProofs` | theorems about `Uplink` |
| `PolicyFacts`, `ListFacts` | lemmas that several proof modules cite: about policies and requests; about least numbers, repeated steps, counting, sorted and flattened sequences |
| `MCEnforcement`, `MCShaping`, `MCWindow`, `MCExec`, `MCSnapshot`, `MCUplink` | sets of requests, table entries and datagrams, and symmetry, for the model checker |

Definitions named as a defect in their comment are variations of the one they precede or follow; they are
not used by any specification and exist to confirm that each property notices that kind of mistake.

### Enforcement

A slot of `Helpers` runs one call after another. Its stage `pc` goes through `lock` (`lock::acquire`),
`read` (`read_desired` and `build_apply_script`), `add_table`, `add_set`, `batch` (the nft calls of
`apply`), `read_back` and `report` (`read_status`), back to `idle`. `req` is the argument list, `desired`
the `Desired` value, `outcome` what the caller was told. A call without a limit to enforce goes straight to
the batch.

`table` is what nft prints: whether the table is there, the sets, the admitted set's size and the interface
each rule names. `max = 0` stands for `admission: None`; the code refuses a maximum of 0, so nothing is
lost. Addresses are in normal form.

Failures: `CommandFails` is an nft call that cannot start, is refused, or is killed at its own time-out,
which may be the very moment it commits. `Kill` is the window's deadline: the lock comes free at once, and
if an nft process that writes was running, the slot becomes `orphaned` until `OrphanEnds`, which commits or
does not. `PunctualSpec` leaves the kills out; `Spec` has them.

### Shaping

The lock makes calls sequential, so there is one caller; `stage` is the command it issues next. Per device
(each interface and the IFB device) the model has the root qdisc, the classes with their rates, the queues
and the client filters; beside them the state of the IFB link and of each interface's ingress hook. tc is
external: its commands do what their arguments say. A call may end at any command (`CommandFails`), which
also stands for a killed helper; the next call starts from what is left. Rates are stored as tc's bytes per
second and come back as the same kbit/s, so they are kept as kbit/s.

`next_free_classid` has no upper bound, and neither has the model. The program's first class is 10, the class
of everyone without a limit 999 (`DefaultClassid`), and the largest number tc reads 9999 (`LastClassid`), since
the program writes decimal digits where tc reads up to four hexadecimal ones; a number past that can only make
`class replace` fail. The run scales these to 10, 12 and 12, so that a second client climbs onto the default
class and past the last one. What the code promises of limits does not hold for the client that gets the
default class, and two properties name it as their exception: `InconsistentOnlyAtDefault` (`read_rates` leaves
that class out, so the final read finds no limit) and `RedirectReady` (setting or clearing that client's limit
changes or deletes the class all unlimited traffic goes through).

### Window

Code between two awaits is one action: the answer to the status, the refill of the fields, and the decision
to reconcile are one (`StatusAnswered`). A call is `sent`, then `answered` when the helper served it (or it
failed, with or without its effect), and is handled in a later step; until then a newer answer may overtake
it. Slots: the poll's `status`, one `manual` and one `auto` change of the maximum, one call per client the
user toggles, and in `setting` one `set_bandwidth` per client. `admissionPending` is one flag for both
changes of the maximum, as in the code. The hotspot changes at any moment; its reading is taken to arrive as
it is made, which loses nothing since the hotspot may change right after.

`policy` and `limits` are what is in force. They survive a restart of the window, so `Init` starts from whatever
an earlier one has left (`Earlier`), a maximum with more clients admitted than it allows included: a call that
writes is refused if what it would write is not `Valid`, as `build_apply_script` refuses it, but a status read
validates nothing, and that is how the window sees such a limit and repairs it. A row of the bandwidth form is
`rateText[m]`: per direction what the field says and whether it was edited; polls refill fields that were not
(`Refill`), Set sends both directions, and its answer resets both. `form` and `rows` are the page as it was last
drawn: `Redraw` is `rerender`, and a button or field, the maximum's included, can only be used if it was drawn.
A reading of the hotspot alone does not redraw, so what is on the page may be older than `shown`; a toggle may
carry either label.

### Exec

`pc` is the caller: the spawn with its bounded retry, the `try_wait` loop, the kill after the deadline, the
joins of the two reader threads. `thread` has a thread per pipe. The child is any program: it calls read or
write on a pipe of its choice, is blocked until the pipe lets it go on, and exits, or loops, whenever it
likes. A pipe's content is the difference of two counters, in units of any number of bytes. Success is an
exit code of 0; a signal from elsewhere may end the child too. What `Enforcement` adds is the one thing
missing here, the nft process that outlives the helper it was started by.

### Snapshot and Dns

`stage` goes through `dev` (`iw dev`, `pick_hotspot`), `stations`, `address`, `neigh`, `names` (one thread
per client with an address, each waiting for its datagram) to `done`. `mode` and `arrivals` are the machine;
interfaces change mode or go, clients come and leave between any two stages, and inside none, since each is
one process that asks the kernel. Each tool may fail; `iw` may find its interface gone (`Vanished`). What a
tool prints is a sequence of lines, a table of entries or a datagram, and `Field`, `AccessPoints`,
`Stations`, `Ipv4ByMac`, `Clients` are what the parsers make of it; interfaces and clients are numbers in the
order of their names and addresses. A driver may not tell how long a client has been connected (`Silent`).
Times count whole seconds for every station alike, as mac80211 derives them from one clock.

A DNS body is a sequence of cells, each the bytes read together (a label, a pointer, the end of a name, a
length with reserved bits, the fixed part of a record); `ReadName` follows pointers as `read_name` does, with
its bound on jumps and on length. `DecorationsAreTrue` compares it with `Spelled`, which says what a name is
without saying how to read it.

### Uplink

`pc` is the script's next command: the three reads of `reconcile` (`hotspot`, `address`, `route`), a listing
and its deletions for either tag (`remove_owned`), the table, and the six commands of `install_for`.
`Works` is a command that succeeds, `CommandFails` one that fails and, there being no `set -e`, is passed
over; `Killed` is NetworkManager ending the script. `world` is what nmcli and ip would print now; it
changes between any two commands. Docker's chain is a set of rules with handles: where a rule stands in it
decides nothing the script reads. `docker` says whether the chain exists; inserting into a missing one
fails like any other command, and the run goes on. nft numbers the rules of a table one after the other, so a
handle the script has listed is not given to another rule before it is deleted (`Unused`), unless Docker makes
the table anew meanwhile: then numbering starts over, and `stale`, a history variable, says that the handles the
script holds are from before. `calm` is a history variable: nothing but the script has
moved, and nothing failed, since the last run began.

## Runs

| Run | Specification and bounds | What it shows |
|---|---|---|
| `punctual` | `PunctualSpec`; 2 helpers, 2 clients, 1 interface, maxima 0-2, every request | `TypeOK`, `NeverInconsistent`, `NeverRejectedByKernel`, `OnlyValidPoliciesWritten`, `SerialEdits`, `SuccessIsReal`, and that `Enforcement` refines `PolicyStore` |
| `killed_helpers` | `FairSpec`; 2 helpers, 2 clients, 2 interfaces, 6 requests | `MutualExclusion`, `RulesCoherent` with kills and orphans; `EveryCallReturns`, `LockIsReleased` |
| `shaping` | `Spec`; 2 clients, 2 interfaces, 2 rates, first class 10, default and last class 12, at most one class left without a filter (`OneStray`) | all safety properties of `Shaping`, any command failing |
| `window` | `FairSpec`; 2 clients, any maximum up to 2 in force when the window opens, met or exceeded, the user sets 1 or none and has one call in flight beside the automatic ones | `TypeOK`, `AdmissionAlone`, `TypingIsKept`, `Settles` for the maximum |
| `window_calls` | `FairSpec`; 1 client, blocked already or not, that is blocked, unblocked and limited, 1 direction and rate, two calls of the user's in flight | `TypingIsKept`, `Settles` for rates and with three kinds of stale answer |
| `exec` | `FairSpec`; pipes of 1, 2 units of input, up to 2 of output per stream, 2 spawn attempts | `TypeOK`, `NothingCutOff`, `NobodyBlocks`, `CallReturns` |
| `snapshot` | `FairSpec`; 2 interfaces, 2 clients, up to 2 of 7 neighbour entries, 15 datagrams, a deadline of 1 tick | `TypeOK`, `ReadingIsTrue`, `OrderKept`, `DecorationsAreTrue`, `SnapshotEnds` |
| `uplink` | `Spec`; 2 interfaces that may swap roles, 1 address, two default routes or none, 5 rule handles, at most 1 rule of Docker's | `OneRunSuffices`, `DockerUntouched`: any command failing, any run killed, Docker and the network moving between any two commands |
| `orphan_overwrites`, `stranded_limit`, `stale_maximum`, `untouched_cleared` | one property each | the findings below |

Why the bounds are enough. Interference is between two helpers, one reading and one writing; a third only
repeats it. Two clients and a maximum of two give a limit that grows, shrinks, is full and is exceeded.
`killed_helpers` keeps to the requests that interfere (grow, shrink, remove, block, unblock, also after a move
to another interface) because orphans multiply the states; the theorems have no such restriction. For shaping
two clients give every sharing of a class number. They climb by being cleared and limited again in turn while
the other stays: from 10 to the default class 12 and to 13, which tc refuses; no call is kept from starting.
`OneStray`, a state constraint, ends behaviours in which two classes at once, on either device, were left
without a filter by calls that broke off, setting or clearing; one is enough for a stray class to be given to a
later client or to stay. The theorems have no such bound. Upload limits take one rate in that run, and on the
second interface there are only upload limits, so that a moved hotspot is reached within the state budget. In
`window` a maximum of 1 below the number of clients is what makes "oldest" matter, and a maximum of 2 already in
force is what can be lowered beneath the clients it admits: a `set_admission` that fails between its resize and
its batch then leaves a limit that is exceeded (`Fail`), which a status read reports and a reconciliation has to
repair. `window` and `window_calls` divide the calls between them, since together they exceed what can be
checked: the maximum with two clients in one, toggles and rates of one client, with up to two of the user's
calls overlapping (`Clicks`) and a poll beside them, in the other; toggles and rates of different clients do not
meet anywhere in the code. The theorems about `Window` have no such division. In `exec`, a pipe of one unit and
two units to put through it block every writer that is not read from, which is all that a larger pipe can do;
the theorems about `Exec` are for any size. In `snapshot`, two interfaces let the access point move, two clients
can be told apart or tied in their connected time; `MaxEntries` of 2 lets any two neighbour entries compete;
`MaxJumps` 1 and `MaxName` 2 put the program's own bounds (8 jumps, 255 octets) within reach of short bodies,
and the datagrams hold one of each kind the parser tells apart: compressed, looping, forward and dangling
pointers, a name too long, an alias before the record, a record cut off, an error code, a stray. In `uplink`
five handles let a run start over a complete pair and a rule of Docker's, or over two pairs, the second left by
a run whose listing failed; Docker adds and removes its rule at any time, also between a listing and the
deletions. A run starts and Docker acts whatever handles are left; with none, an insertion can only fail. Two
interfaces give every change of hotspot and uplink; with two default routes the hotspot's own may come first,
and with none there is no uplink. The theorems about `Uplink` have neither bound. Clients, helpers and rule
handles are interchangeable, so symmetry reduction is used where only safety is checked.

Deadlock is checked in every run: no part of the system ever stops.

### Fairness

`Enforcement!FairSpec` assumes one thing: `WF_vars(Kill(h))`, since the window's wait loop in
`exec.rs` looks at the clock every five milliseconds. flock, nft and the helpers may hang for ever, and
still every call returns.

`Window!FairSpec` assumes that the browser's event queue runs: timers fire and answers are handled; and that every call
is eventually answered, which is what `EveryCallReturns` gives. It assumes nothing of the user or the hotspot.
`Exec!FairSpec` assumes that the caller and its threads run, and that a child that is blocked on a pipe goes on
once the pipe lets it. It assumes nothing of the child otherwise: it may loop for ever. The clock is a
hypothesis of `CallReturns` and none of `NobodyBlocks`: it is not the deadline that keeps pipes from
blocking. `Snapshot!FairSpec` assumes that tools answer or fail (`CallReturns`) and that a lookup's clock
runs; datagrams may keep arriving or never come.

`Settles` speaks of behaviours in which clients, user and failures have come to rest. A failed reading when
there is nothing new to read does not count against that, and neither does a call that is refused: if what the
window writes were refused for good, `Settles` would be violated.

`Uplink`, `Shaping` and the runs of one violated property have no fairness: what they check are safety
properties.

## What is proved

`EnforcementProofs`, for any sets of clients, interfaces and helpers and any `MaxLimit`:

- with kills and orphans (`Spec`): `TypeCorrect`, `LockExcludes`, `TableStaysCoherent`,
  `InvalidNeverWritten`. The invariant `KilledInv` conjoins the four properties with `ResizeHasLimit` (a resize is only ever issued for a
  policy that has a limit), and they hold of orphaned writers as of live ones: that is why an orphan can
  overwrite but never corrupt.
- with helpers that answer in time (`PunctualSpec`): `ReadBackMatches`, `WritesAccepted`, `NoLostUpdate`,
  `SuccessHonoured` and `ImplementsPolicyStore`. Each needs more than its own statement: the invariant
  `PunctualInv` says what the holder of the lock already knows about the table at each stage of its cycle
  (`CycleIntact`): that the table is still what it read, apart from its own resize, and after the batch is
  exactly `desired`. The properties and the refinement mapping (`Policy`, `AbstractStage`) follow
  from it step by step.

`ShapingProofs`, for any clients, interfaces, rates and class numbers, the default class among those clients
may get: `ShapingTypeCorrect`, `VerifySucceeds`,
`UploadLimitsBite`, `RedirectsAreReady`, `CommandsAccepted`, `ForeignStays`, `ClientsAreIsolated`. The
inductive invariant `ShapingInv` is about what a broken call may leave: every filter has its class
(`FiltersBacked`), no two filters of a device share one (`FiltersDistinct`), the client being worked on has
the class the code chose (`Placed`, `RoomLeft`), the hierarchy is there from the stage on that needs it
(`HierarchyBuilt`, `IfbUp`), and what the call has applied so far is in force (`Applied`), unless its client
was given the number of the default class. `VerifySucceeds` and `RedirectsAreReady` state that exception in
their properties, the code having no bound that would exclude it: see the first remark under Findings.

`UplinkProofs`, for any interfaces, addresses and rule handles: `UplinkTypeCorrect`, `DockerIsSafe` and
`Idempotent`. The first two rest on `SafeInv`: a handle names one rule (`HandlesNameRules`) and the script
never holds one of a rule of Docker's (`HeldAreOwn`), because handles are not given twice while it holds
them, unless the table was made anew (`stale`): `DockerUntouched` excepts exactly that case, in which the code
may delete a rule of Docker's (see Findings). `Idempotent` needs `CalmInv`: as long as
nothing else has moved, what was read is still so (`Current`), and each stage has achieved its part
(`Removing`, `Installing`, `Done`).

`WindowProofs`, for any clients, interfaces, rates and any number of calls in flight: `WindowTypes`,
`AdmissionNeverOverlaps` and `TypingStays`. `WindowInv` says who may be in flight when: the flag is up while
either change of the maximum is (`FlagHeld`), a field that was edited still says what its call sent
(`MaximumHeld`, `RatesHeld`), since it cannot be edited meanwhile, and nothing is edited before there is a page
(`PageFirst`). That is why an answer that resets a field cannot undo what is being typed. `WindowTypes` needs
that invariant too: that no client is listed twice and that a call always names the interface of a hotspot that
runs depends on what was shown when it was sent.

`ExecProofs`, for pipes, inputs and outputs of any size and any number of attempts: `ExecTypeCorrect` and
`WholeOutput`. `ExecInv` says that a thread outlives its end of the pipe (`ReadersEndLast`, `WriterEndsLast`)
and that the answer is put together after all of them (`JoinsInOrder`). `OutputLeft` concerns the bound
`MaxOutput` only.

`SnapshotProofs`, for any interfaces, clients, neighbour entries, patience and datagrams: `TypeCorrect`,
`ReadsTrue`, `OrderIsKept`, `AddressesAreRight`, `DecorationsAreRight`, and, of the functions of `Dns`,
`NameIsSpelled` and `RepliesAreRead`.

- The first half is about parsers: whatever order a tool prints its blocks in, what is read back is what the
  machine had (`DevParsed`, `DumpParsed`, `DumpListed`). A tool's output is a flattened sequence of blocks, so
  these rest on `ListFacts`: where the lines of a flattened sequence stand, and that a numbering by rank
  is a sorting. (`Ranked` numbers the elements of a set by how many come before; the community modules' own
  sort is defined by a choice that the provers cannot look into.)
- `SnapInv` then says what the snapshot knows at each stage: the interface it chose is an access point or has
  changed its mode since (`StageOK`), the stations are those of a dump of it (`StationsOK`), whoever was
  there and still is stayed on the same interface, in the order of arrival (`StayedHere`, `OrderOK`). Two
  clients keep their order because what sorts them, who came first and then the address, does not change while
  both stay: `Earlier`.
- `NameIsSpelled` says of every body and every bound on pointers and labels that `ReadName` gives exactly what
  `Spelled` defines: the whole name, or none if it loops, runs out of the datagram or is too long.
  The walk through the cells is an infinite sequence (`Trail`); a reading that still allows as many
  pointers and labels as the name has is that name (`ReadsName`), and one that gives a name has found an end it
  allows (`NameRead`). `RepliesAreRead` adds the rest of the datagram. Every datagram has a layout (`Laid`,
  `LayoutExists`): the places of its questions and records, each where the one before ends, up to a first one
  that breaks off. It is the first PTR record before that place which is read, and none is if there is no such
  record, however many of them the header promises. `ReadsTrue` uses both halves: a name shown is one that a
  clean reply spells in a PTR record.
- `DecorationsAreRight` states the run's `DecorationsAreTrue` in full, under one hypothesis, `StartTold`: a
  model datagram carries a field `start`, which the code does not read and the property compares with, and
  it has to say truly where the data of the first whole PTR record begins, or 0 if there is none. Datagrams that
  are no reply, or whose server reports an error, are free of it.

Induction in these proofs goes through `LeastNat` (a set of naturals has a least element, from the
well-foundedness of `<`), because the library's induction theorems take an operator as a parameter, which the
provers cannot instantiate; recursive functions are shown to exist by `Iterates` or, for `ReadName`, by
`ReadsExist`.

The assumptions on constants (`ExecAssumption`, `DnsAssumption`, `SnapshotAssumption`, `PolicyAssumption`,
`EnforcementAssumption`, `ShapingAssumption`,
`WindowAssumption`, `EarlierAssumption`, `UplinkAssumption`) are evaluated by TLC in the runs.

Only model-checked: all liveness (`EveryCallReturns`, `LockIsReleased`, `Settles`, `NobodyBlocks`, `CallReturns`,
`SnapshotEnds`), which is beyond the prover. Every invariant and action property of a passing run
is a theorem, `DecorationsAreTrue` under the hypothesis named above.
`Uplink!TypeOK` is only proved; no run repeats it.

## Findings

Each is a run whose one property TLC refutes.

1. `orphan_overwrites` - a killed helper's nft process commits its old snapshot after another call has been
   acknowledged and silently undoes it (`helper_client.rs:33`; `lock.rs:16` promises a queue).
2. `stranded_limit` - when `set_admission` fails between resize and batch, the enforced limit is left with
   more admitted clients than its maximum; a block is then refused until a `set_admission` succeeds
   (`kernel.rs:351`; `mod.rs:11` promises independence). A window that shows the hotspot issues one by itself
   with its next poll (`main.ts:508-514`); `window` has this in `Settles`.
3. `stale_maximum` - a status served before a manual change of the maximum and answered after it replaces
   the newer reading; a reconciliation in that round puts the old maximum back (`main.ts:509`).
4. `untouched_cleared` - a status served before a Set and answered after it fills the row's fields with the
   old rates; the next Set of either direction sends the other one along and undoes it (`main.ts:466`).

Seen in the code while modelling it, without a run of their own:

- Class numbers have no upper bound (`shaping.rs:181`). While one client stays limited and others come and go they
  climb to 999, the class of everyone without a limit. The client that gets it throttles all of them to its own
  rate, its own call ends with `Inconsistent` because `read_rates` leaves 999 out, and clearing its limit deletes the
  class; "never a cap on unconfigured clients" (`shaping.rs:42`) and "never themselves a bottleneck"
  (`shaping.rs:72`) do not hold then. The `shaping` run reaches it, and `InconsistentOnlyAtDefault` and
  `RedirectReady` name it as their only exception.
- After a failure between the ingress qdisc and its filter, the program takes its own qdisc for another
  tool's and refuses upload limits on that interface from then on (`shaping.rs:450`); `Shaping` has this as
  `ingress = "bare"`.
- A status read lists filters, then classes; two whole calls in between can give one client's name the rate
  of another (`shaping.rs:358`). The next poll repairs it.
- An interface that turns from access point into client between `iw dev` and its station dump is still asked for
  its stations, and the upstream access point is shown as a client (`mod.rs:48` of discovery), against "Only ever call
  this for an interface in AP mode" (`iw.rs:145`). `ReadingIsTrue` is about interfaces that stayed as they were
  chosen.
- If Docker deletes and makes anew the table `ip filter` between a listing and the deletions, nft numbers its rules
  from the start, and the dispatcher's old handles may name rules of Docker's (`90-hotstream-uplink:57`), which its
  header says are never removed (lines 33-36). `DockerUntouched` excepts this case with `stale`.
- The notice about a failed action is not cleared by a successful poll, as its comment says it is
  (`main.ts:38`).
- A typed rate below half a kbit/s is rounded to 0 (`format.ts:111`), which never sets a limit.

## Not modelled, and why

- Parsing and printing below what decides something: JSON, addresses, SSID, channel, signal and traffic, the
  decimal text of rates, page layout, `clientStatus`: pure functions with unit tests.
- `kernel::clear`, `shaping::clear_all`: not reachable from the helper's command line.
- `ambient.rs`, `lib.rs`, `main.rs`, `contrib/desktop`: straight-line start-up and installation.
- For `Shaping`: tc processes that outlive a killed helper, and status reads beside a running call. Either is a
  second process beside the caller; with the eight million states one caller has, neither fits a run.
- For `Window`: a second interface (the rules in force may then name the earlier one until the next write),
  text in a field that is no number, the notices shown for errors.
- For `Exec`: a tool that exits and leaves a process of its own holding the pipes; none of the program's does.
- For `Snapshot`: whether a station is authorized yet, and the clients of a second access point.
- For `Uplink`: which of several shared connections is taken, how nmcli's output is split, and the order of
  the rules in Docker's chain. When the hotspot has no address yet the script leaves earlier rules as they are;
  `OneRunSuffices` excepts that case, as the script's own message does.

## Plan

Done: every module above, with proofs for all of them. Left, in this order:

1. For `PolicyStore`, that acknowledged policies stay valid.
2. A small instance of `Shaping` with a reader beside the caller, for the property that a status which
   overlaps at most one call shows a limit that was in force.
