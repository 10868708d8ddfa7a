-------------------------------- MODULE Window ------------------------------
(***************************************************************************)
(* The GUI of `main.ts`: its two-second poll loop, the user's clicks, and  *)
(* the calls they have in flight.                                          *)
(*                                                                         *)
(* JavaScript runs one piece of code at a time, so every stretch from one  *)
(* await to the next is one action; but a call is answered some time after *)
(* the helper served it, answers arrive in any order, and every one of     *)
(* them replaces the whole of `view.enforcement`.  The helper is what      *)
(* PolicyStore promises of it: each call is one edit of what is in force,  *)
(* and reports all of it.  A field's text is the number it stands for, 0   *)
(* for an empty one; text that does not parse makes Apply and Set no-ops   *)
(* and is left out.  A row that was never filled is an empty one that was  *)
(* not touched.  Two clients that arrive within a second, which            *)
(* assemble_clients puts in the order of their addresses, arrive one after *)
(* the other here.                                                         *)
(***************************************************************************)
EXTENDS Policy, Sequences

CONSTANTS
    Unknown, Failed,    \* nothing read yet; an error as answer
    Earlier,            \* bound: what may be in force when the window opens
    Toggled,            \* the clients the user may block and unblock
    Limited,            \* the clients whose rates the user may set
    Directions,         \* download and upload
    Rates,              \* bound: the rates the user may type
    Maxima,             \* bound: the maxima the user may type and apply
    Clicks              \* bound: the user's calls in flight at once

ASSUME WindowAssumption ==
    /\ Toggled \subseteq Macs /\ Limited \subseteq Macs
    /\ 0 \notin Rates
    /\ Ifaces # {} /\ Unknown \notin Policies /\ Failed \notin Policies
    /\ Unknown # Failed
    /\ Unknown \notin [iface : Ifaces \cup {NoIface}, clients : Seq(Macs)]
    /\ IsFiniteSet(Macs) /\ Macs \cap {"status", "manual", "auto"} = {}
    /\ Clicks \in Nat /\ Maxima \subseteq 0 .. MaxLimit

VARIABLES
    policy, limits,     \* what is in force: nft's part and tc's
    world,              \* the hotspot: running or not, clients oldest first
    shown,              \* view.state
    enforcement,        \* view.enforcement
    maxText,            \* view.maxInputText
    touched,            \* view.maxInputTouched
    admissionPending,   \* view.admissionPending
    rateText,           \* view.bandwidthInputText
    form, rows,         \* the page as last drawn: whether it has the maximum's
                        \* form, and the clients whose row can be used
    call, setting,      \* the calls in flight; set_bandwidth's, by client
    pc                  \* where the poll loop is

kernel == <<policy, limits>>

field == <<maxText, touched>>

page == <<form, rows>>

view == <<shown, enforcement, field, admissionPending, rateText, page>>

vars == <<kernel, world, view, call, setting, pc>>

-----------------------------------------------------------------------------
(* Data.                                                                   *)

\* Clients in order of arrival.
Orders == {s \in UNION {[1 .. n -> Macs] : n \in 0 .. Cardinality(Macs)} :
              \A i, j \in DOMAIN s : s[i] = s[j] => i = j}

Readings == [iface : Ifaces, clients : Orders]
                \cup [iface : {NoIface}, clients : {<<>>}]

Members(s) == {s[i] : i \in DOMAIN s}

\* slice(0, max), and take(max) in commands.rs.
Oldest(s, n) == {s[i] : i \in {j \in DOMAIN s : j <= n}}

StatusRequests ==
    [op : {"status"}, iface : Ifaces \cup {NoIface}, macs : {{}}, max : {0}]

Slots == {"status", "manual", "auto"} \cup Toggled

Idle == [stage |-> "idle"]

Sent(r) == [stage |-> "sent", req |-> r]

\* Of the request only its maximum is used once it is answered.
Answered(n, a) == [stage |-> "answered", max |-> n, answer |-> a]

Limits == [Limited -> [Directions -> Rates \cup {0}]]

NoLimits == [m \in Limited |-> [d \in Directions |-> 0]]

\* The EnforcementState a call prints.
States == [policy : Policies, limits : Limits]

ASSUME EarlierAssumption == Earlier \subseteq States

Blank == [d \in Directions |-> [text |-> 0, touched |-> FALSE]]

CallsOf(requests) ==
    {Idle} \cup {Sent(r) : r \in requests}
        \cup {Answered(n, a) : n \in 0 .. MaxLimit, a \in States \cup {Failed}}

PolicyCalls == CallsOf(Requests \cup StatusRequests)

RateCalls == CallsOf([Directions -> Rates \cup {0}])

TypeOK ==
    /\ policy \in Policies /\ limits \in Limits
    /\ world \in Readings
    /\ shown \in Readings \cup {Unknown}
    /\ enforcement \in States \cup {Unknown}
    /\ maxText \in 0 .. MaxLimit
    /\ touched \in BOOLEAN /\ admissionPending \in BOOLEAN
    /\ rateText \in [Limited -> [Directions -> [text : Rates \cup {0},
                                                touched : BOOLEAN]]]
    /\ form \in BOOLEAN /\ rows \subseteq Macs
    /\ call \in [Slots -> PolicyCalls]
    /\ setting \in [Limited -> RateCalls]
    /\ pc \in {"state", "wait_status", "wait_auto", "sleep"}

Running == shown # Unknown /\ shown.iface # NoIface

\* The window opens on whatever is in force: nothing of it is the window's own.
Init ==
    /\ \E earlier \in Earlier :
          policy = earlier.policy /\ limits = earlier.limits
    /\ world \in Readings
    /\ shown = Unknown /\ enforcement = Unknown
    /\ maxText = 0 /\ touched = FALSE /\ admissionPending = FALSE
    /\ rateText = [m \in Limited |-> Blank] /\ form = FALSE /\ rows = {}
    /\ call = [s \in Slots |-> Idle] /\ setting = [m \in Limited |-> Idle]
    /\ pc = "state"

-----------------------------------------------------------------------------
(* The hotspot.                                                            *)

Join(m) ==
    /\ world.iface # NoIface /\ m \notin Members(world.clients)
    /\ world' = [world EXCEPT !.clients = Append(@, m)]
    /\ UNCHANGED <<kernel, view, call, setting, pc>>

Leave(m) ==
    /\ \E i \in 1 .. Len(world.clients) :
          /\ world.clients[i] = m
          /\ world' = [world EXCEPT !.clients =
                          SubSeq(@, 1, i - 1) \o SubSeq(@, i + 1, Len(@))]
    /\ UNCHANGED <<kernel, view, call, setting, pc>>

Switch ==
    /\ world' \in [iface : IF world.iface = NoIface THEN Ifaces ELSE {NoIface},
                   clients : {<<>>}]
    /\ UNCHANGED <<kernel, view, call, setting, pc>>

-----------------------------------------------------------------------------
(* The helper: calls are served one at a time, each at one moment.         *)

Valid(p) == HasLimit(p) => Cardinality(p.admitted) <= p.max

State(p, l) == [policy |-> p, limits |-> l]

\* A status read reports what is there; only what a call is about to write has
\* to be valid.  tc is only read for an interface, so without one no limit is
\* reported.
Serve(s) ==
    /\ call[s].stage = "sent"
    /\ LET r == call[s].req
           next == IF r.op = "status" THEN policy ELSE Edit(r, policy)
           refused == r.op # "status" /\ ~Valid(next)
           l == IF r.iface = NoIface THEN NoLimits ELSE limits
       IN /\ policy' = IF refused THEN policy ELSE next
          /\ call' = [call EXCEPT ![s] =
                        Answered(r.max, IF refused THEN Failed ELSE State(next, l))]
    /\ UNCHANGED <<limits, world, view, setting, pc>>

\* A call that fails may have had its effect, or moved the maximum only.
Fail(s) ==
    /\ call[s].stage = "sent"
    /\ call' = [call EXCEPT ![s] = Answered(@.req.max, Failed)]
    /\ LET r == call[s].req IN
       \/ UNCHANGED policy
       \/ r.op # "status" /\ Valid(Edit(r, policy)) /\ policy' = Edit(r, policy)
       \/ /\ r.op = "set_admission" /\ r.max > 0 /\ HasLimit(policy)
          /\ policy' = [policy EXCEPT !.max = r.max]
    /\ UNCHANGED <<limits, world, view, setting, pc>>

\* set_bandwidth: every direction is set, to a rate or to none.
ServeRates(m) ==
    /\ setting[m].stage = "sent"
    /\ limits' = [limits EXCEPT ![m] = setting[m].req]
    /\ setting' = [setting EXCEPT ![m] = Answered(0, State(policy, limits'))]
    /\ UNCHANGED <<policy, world, view, call, pc>>

\* Some directions may have been set before it failed.
FailRates(m) ==
    /\ setting[m].stage = "sent"
    /\ setting' = [setting EXCEPT ![m] = Answered(0, Failed)]
    /\ \E done \in SUBSET Directions :
          limits' = [limits EXCEPT ![m] = [d \in Directions |->
                        IF d \in done THEN setting[m].req[d] ELSE @[d]]]
    /\ UNCHANGED <<policy, world, view, call, pc>>

-----------------------------------------------------------------------------
(* The user.                                                               *)

\* rerender: what the user can click on from now on.
Redraw ==
    /\ form' = (shown' # Unknown /\ shown'.iface # NoIface)
    /\ rows' = IF shown' = Unknown \/ enforcement' = Unknown THEN {}
               ELSE Members(shown'.clients)

Send(s, r) == call' = [call EXCEPT ![s] = Sent(r)]

MayClick ==
    Cardinality({s \in {"manual"} \cup Toggled : call[s] # Idle})
        + Cardinality({m \in Limited : setting[m] # Idle}) < Clicks

\* onToggle.  The label on the button is as old as the page.
Toggle(m, op) ==
    /\ m \in rows /\ call[m] = Idle /\ MayClick
    /\ Running
    /\ Send(m, [op |-> op, iface |-> shown.iface, macs |-> {m}, max |-> 0])
    /\ UNCHANGED <<kernel, world, shown, enforcement, field, admissionPending,
                   rateText, setting, pc>>
    /\ Redraw

\* onMaxInput.
TypeMax(n) ==
    /\ form /\ ~admissionPending
    /\ maxText' = n /\ touched' = TRUE
    /\ UNCHANGED <<kernel, world, shown, enforcement, admissionPending,
                   rateText, call, setting, pc>>
    /\ Redraw

Admission(n) ==
    [op |-> "set_admission", iface |-> shown.iface, max |-> n,
     macs |-> Oldest(shown.clients, n)]

\* Defect: the page's form is enough, whatever was read since it was drawn.
ApplyMaxAnyway ==
    /\ form /\ ~admissionPending /\ MayClick /\ maxText \in Maxima
    /\ Send("manual", Admission(maxText))
    /\ admissionPending' = TRUE
    /\ UNCHANGED <<kernel, world, shown, enforcement, field, rateText, setting, pc>>
    /\ Redraw

\* onApplyMax, up to the await of applyAdmission.
ApplyMax ==
    /\ form /\ Running /\ ~admissionPending /\ MayClick /\ maxText \in Maxima
    /\ Send("manual", Admission(maxText))
    /\ admissionPending' = TRUE
    /\ UNCHANGED <<kernel, world, shown, enforcement, field, rateText, setting, pc>>
    /\ Redraw

RowEnabled(m) == m \in rows /\ setting[m] = Idle

\* onBandwidthInput.
TypeRate(m, d, n) ==
    /\ RowEnabled(m)
    /\ rateText' = [rateText EXCEPT ![m][d] = [text |-> n, touched |-> TRUE]]
    /\ UNCHANGED <<kernel, world, shown, enforcement, field, admissionPending,
                   call, setting, pc>>
    /\ Redraw

\* onApplyBandwidth, up to the await of applyBandwidth: both directions go.
ApplyRates(m) ==
    /\ RowEnabled(m) /\ MayClick
    /\ Running
    /\ setting' = [setting EXCEPT ![m] =
          Sent([d \in Directions |-> rateText[m][d].text])]
    /\ UNCHANGED <<kernel, world, shown, enforcement, field, admissionPending,
                   rateText, call, pc>>
    /\ Redraw

-----------------------------------------------------------------------------
(* Answers.                                                                *)

Answer(s) == call[s].answer

Hang(s) == call' = [call EXCEPT ![s] = Idle] /\ UNCHANGED setting

\* Defect: only the first reading counts.
LearnOnce(answer) ==
    enforcement' = IF answer = Failed \/ enforcement # Unknown
                   THEN enforcement ELSE answer

\* Every answer replaces the whole reading; an error leaves it as it is.
Learn(answer) ==
    enforcement' = IF answer = Failed THEN enforcement ELSE answer

ToggleAnswered(m) ==
    /\ call[m].stage = "answered"
    /\ Learn(Answer(m)) /\ Hang(m)
    /\ UNCHANGED <<kernel, world, shown, field, admissionPending, rateText, pc>>
    /\ Redraw

\* applyAdmission after its await, `manual`: the field is the kernel's again.
ManualAnswered ==
    /\ call["manual"].stage = "answered"
    /\ Learn(Answer("manual")) /\ Hang("manual")
    /\ admissionPending' = FALSE
    /\ IF Answer("manual") = Failed
       THEN UNCHANGED field
       ELSE maxText' = call["manual"].max /\ touched' = FALSE
    /\ UNCHANGED <<kernel, world, shown, rateText, pc>>
    /\ Redraw

\* applyAdmission after its await, not `manual`.
AutoAnswered ==
    /\ call["auto"].stage = "answered"
    /\ Learn(Answer("auto")) /\ Hang("auto")
    /\ admissionPending' = FALSE
    /\ pc' = "sleep"
    /\ UNCHANGED <<kernel, world, shown, field, rateText>>
    /\ Redraw

\* bandwidthFor, formatRateInput: what a field shows that nobody edits.
Filled(answer, m) ==
    [d \in Directions |-> [text |-> answer.limits[m][d], touched |-> FALSE]]

\* applyBandwidth after its await: both fields are the kernel's again.
RatesAnswered(m) ==
    /\ setting[m].stage = "answered"
    /\ LET answer == setting[m].answer IN
       /\ Learn(answer)
       /\ rateText' = IF answer = Failed THEN rateText
                      ELSE [rateText EXCEPT ![m] = Filled(answer, m)]
    /\ setting' = [setting EXCEPT ![m] = Idle]
    /\ UNCHANGED <<kernel, world, shown, field, admissionPending, call, pc>>
    /\ Redraw

-----------------------------------------------------------------------------
(* The poll loop.                                                          *)

\* With the reading of the hotspot there, good or not, get_enforcement_state is
\* called for the interface the window believes in.
AskStatus(iface) ==
    /\ Send("status", [op |-> "status", macs |-> {}, max |-> 0, iface |-> iface])
    /\ pc' = "wait_status"
    /\ UNCHANGED <<kernel, world, enforcement, field, admissionPending, rateText,
                   page, setting>>

\* get_hotspot_state arrives.  A reading is as old as its arrival makes it: the
\* hotspot may change right after this step.
PollState ==
    /\ pc = "state"
    /\ shown' = world
    /\ AskStatus(world.iface)

PollStateFails ==
    /\ pc = "state"
    /\ UNCHANGED shown
    /\ AskStatus(IF Running THEN shown.iface ELSE NoIface)

\* Defect: whether or not the user is typing.
RefillMaxAlways(answer) == answer.policy.max

\* The field follows what was read, unless it is being edited.
RefillMax(answer) == IF touched THEN maxText ELSE answer.policy.max

\* Defect: whether or not the user is typing.
RefillAll(answer) ==
    [m \in Limited |->
        IF shown = Unknown \/ m \notin Members(shown.clients) THEN Blank
        ELSE Filled(answer, m)]

\* The fields of the clients shown follow what was read, unless they are being
\* edited; the others go.
Refill(answer) ==
    [m \in Limited |->
        IF shown = Unknown \/ m \notin Members(shown.clients) THEN Blank
        ELSE [d \in Directions |-> IF rateText[m][d].touched THEN rateText[m][d]
                                   ELSE Filled(answer, m)[d]]]

\* Defect: reconciles while a manual apply is under way.
AmissAnyway(e) ==
    /\ e # Unknown /\ HasLimit(e.policy) /\ Running
    /\ Oldest(shown.clients, e.policy.max) # e.policy.admitted

\* Defect: compares how many are admitted, not who.
AmissByCount(e) ==
    /\ e # Unknown /\ HasLimit(e.policy) /\ Running /\ ~admissionPending
    /\ Cardinality(Oldest(shown.clients, e.policy.max))
          # Cardinality(e.policy.admitted)

\* The admitted clients are not the oldest ones, as far as the window knows.
Amiss(e) ==
    /\ e # Unknown /\ HasLimit(e.policy) /\ Running /\ ~admissionPending
    /\ Oldest(shown.clients, e.policy.max) # e.policy.admitted

\* Automatic reconciliation with the limit the window believes in force.
Reconcile ==
    IF Amiss(enforcement')
    THEN /\ call' = [call EXCEPT !["status"] = Idle,
                        !["auto"] = Sent(Admission(enforcement'.policy.max))]
         /\ admissionPending' = TRUE /\ pc' = "wait_auto"
    ELSE /\ call' = [call EXCEPT !["status"] = Idle]
         /\ pc' = "sleep"
         /\ UNCHANGED admissionPending

\* get_enforcement_state arrives.
StatusAnswered ==
    /\ call["status"].stage = "answered"
    /\ LET answer == Answer("status") IN
       /\ Learn(answer)
       /\ maxText' = IF answer = Failed THEN maxText ELSE RefillMax(answer)
       /\ rateText' = IF answer = Failed THEN rateText ELSE Refill(answer)
    /\ Reconcile
    /\ UNCHANGED <<kernel, world, shown, touched, setting>>
    /\ Redraw

Wake ==
    /\ pc = "sleep"
    /\ pc' = "state"
    /\ UNCHANGED <<kernel, world, view, call, setting>>

-----------------------------------------------------------------------------
Loop == PollState \/ StatusAnswered \/ AutoAnswered \/ Wake

User ==
    \/ \E m \in Toggled : Toggle(m, "block") \/ Toggle(m, "unblock")
    \/ \E n \in Maxima : TypeMax(n)
    \/ ApplyMax
    \/ \E m \in Limited : \/ ApplyRates(m)
                          \/ \E d \in Directions, n \in Rates \cup {0} :
                                TypeRate(m, d, n)

Hotspot == Switch \/ \E m \in Macs : Join(m) \/ Leave(m)

Failures == (\E s \in Slots : Fail(s)) \/ (\E m \in Limited : FailRates(m))

Next ==
    \/ User
    \/ Hotspot
    \/ PollStateFails
    \/ Failures
    \/ Loop
    \/ ManualAnswered
    \/ \E m \in Toggled : ToggleAnswered(m)
    \/ \E s \in Slots : Serve(s)
    \/ \E m \in Limited : ServeRates(m) \/ RatesAnswered(m)

Spec == Init /\ [][Next]_vars

(* Timers and answers are events of one browser queue; every call returns  *)
(* within the helper client's deadline (EveryCallReturns of Enforcement).  *)
FairSpec ==
    /\ Spec
    /\ WF_vars(Loop)
    /\ WF_vars(ManualAnswered)
    /\ \A m \in Toggled : WF_vars(ToggleAnswered(m))
    /\ \A s \in Slots : WF_vars(Serve(s) \/ Fail(s))
    /\ \A m \in Limited : /\ WF_vars(ServeRates(m) \/ FailRates(m))
                          /\ WF_vars(RatesAnswered(m))

-----------------------------------------------------------------------------
(* Properties.                                                             *)

(* Manual apply and reconciliation share one flag but are two calls; they  *)
(* must never be in flight together, or the order in which the helper      *)
(* happens to serve them decides which maximum stays (admissionPending).   *)
AdmissionAlone == call["manual"] = Idle \/ call["auto"] = Idle

(* What the user is typing is never changed under their hands: not by a    *)
(* poll, a reconciliation of the old maximum, or an answer to another call *)
(* (maxInputTouched, downloadTouched, uploadTouched).  The fields of a     *)
(* client that has left are given up.                                      *)
TypingIsKept ==
    [][/\ touched => \/ maxText' = maxText
                     \/ \E n \in Maxima : TypeMax(n)
       /\ \A m \in Limited, d \in Directions :
             rateText[m][d].touched =>
                \/ rateText'[m][d].text = rateText[m][d].text
                \/ \E n \in Rates \cup {0} : TypeRate(m, d, n)
                \/ m \notin Members(shown.clients)]_vars

\* A reading that fails when there is nothing new to read disturbs nobody, and
\* a call that is refused has not failed: refused for good, nothing settles.
Disturbance ==
    \/ User \/ Hotspot
    \/ shown # world /\ PollStateFails
    \/ \E s \in Slots : Fail(s) /\ ~Serve(s)
    \/ \E m \in Limited : FailRates(m)

Settled ==
    /\ shown = world
    /\ enforcement = State(policy, IF Running THEN limits ELSE NoLimits)
    /\ Running /\ HasLimit(policy) =>
          policy.admitted = Oldest(world.clients, policy.max)
    /\ touched \/ maxText = policy.max
    /\ \A m \in Limited, d \in Directions :
          \/ rateText[m][d].touched
          \/ m \notin Members(world.clients)
          \/ rateText[m][d].text = limits[m][d]

(* Once clients, user and failures have come to rest, the window shows     *)
(* what the kernel enforces, and the kernel admits exactly the oldest      *)
(* clients the limit allows -- whatever stale answers were under way.      *)
Settles == <>[][~Disturbance]_vars => <>[]Settled

(* "same `max`, just re-syncing admitted members": a reconciliation that    *)
(* the helper carries out never moves the maximum that is in force.        *)
ReconcileKeepsMaximum ==
    [][call["auto"].stage = "sent" /\ Serve("auto") =>
          policy'.max = policy.max]_vars

(* "download and upload are set independently": a Set the helper carries   *)
(* out changes no direction that the user has not typed in.  (A row is     *)
(* disabled while its Set is under way: `touched` is still what it was.)   *)
UntouchedKept ==
    [][\A m \in Limited : ServeRates(m) /\ m \in Members(shown.clients) =>
          \A d \in Directions :
             rateText[m][d].touched \/ limits'[m][d] = limits[m][d]]_vars
=============================================================================
