----------------------------- MODULE WindowProofs ---------------------------
(***************************************************************************)
(* Theorems about Window, for any clients, interfaces, rates and number of *)
(* calls in flight.                                                        *)
(***************************************************************************)
EXTENDS Window, PolicyFacts, ListFacts

Values == Rates \cup {0}

Fields == [Limited -> [Directions -> [text : Values, touched : BOOLEAN]]]

Worlds == [iface : Ifaces \cup {NoIface}, clients : Seq(Macs)]

(* A call of the maximum's own is in flight only while the flag both share *)
(* is up; the poll loop awaits the reconciliation's and the status read's. *)
FlagHeld ==
    /\ call = [s \in Slots |-> call[s]]
    /\ call["manual"] # Idle => admissionPending
    /\ call["auto"] # Idle => admissionPending /\ pc = "wait_auto"
    /\ call["status"] # Idle => pc = "wait_status"
    /\ AdmissionAlone

(* While a manual change is in flight, a field that was edited still says  *)
(* what was sent.                                                          *)
MaximumHeld ==
    touched =>
        /\ call["manual"].stage = "sent" => call["manual"].req.max = maxText
        /\ call["manual"].stage = "answered" => call["manual"].max = maxText

(* Rates are rates wherever they are: in force, sent, read, on the page.   *)
LimitsTyped ==
    /\ limits \in Limits
    /\ rateText \in Fields
    /\ setting = [m \in Limited |-> setting[m]]
    /\ \A m \in Limited :
          /\ setting[m].stage = "sent" => setting[m].req \in [Directions -> Values]
          /\ setting[m].stage = "answered" /\ setting[m].answer # Failed =>
                setting[m].answer.limits \in Limits

CallsTyped ==
    \A s \in Slots :
        call[s].stage = "answered" /\ call[s].answer # Failed =>
            call[s].answer.limits \in Limits

(* While a Set is in flight, a field that was edited still says what was   *)
(* sent, and so does the answer.                                           *)
RatesHeld ==
    \A m \in Limited, d \in Directions :
        rateText[m][d].touched =>
            /\ setting[m].stage = "sent" =>
                  setting[m].req[d] = rateText[m][d].text
            /\ setting[m].stage = "answered" /\ setting[m].answer # Failed =>
                  setting[m].answer.limits[m][d] = rateText[m][d].text

(* Nothing is edited before there is a page to edit it on.                 *)
PageFirst ==
    /\ world \in Worlds
    /\ shown = Unknown =>
          /\ rows = {}
          /\ \A m \in Limited, d \in Directions : ~rateText[m][d].touched

WindowInv ==
    /\ FlagHeld /\ MaximumHeld
    /\ LimitsTyped /\ CallsTyped /\ RatesHeld /\ PageFirst

-----------------------------------------------------------------------------
(* The invariant.                                                          *)

\* Init: nothing is in flight, no field was touched.
LEMMA InitInv == Init => WindowInv
<1> SUFFICES ASSUME Init PROVE WindowInv
  OBVIOUS
<1>1. FlagHeld /\ MaximumHeld
  BY DEF Init, FlagHeld, MaximumHeld, AdmissionAlone, Slots, Idle
<1>2. LimitsTyped /\ CallsTyped
  BY EarlierAssumption
  DEF Init, States, LimitsTyped, CallsTyped, Blank, Fields, Values, Slots, Idle
<1>3. RatesHeld
  BY DEF Init, RatesHeld, Idle
<1>4. world \in Worlds
  <2>1. Cardinality(Macs) \in Nat
    BY WindowAssumption, FS_CardinalityType
  <2>2. Orders \subseteq Seq(Macs)
    BY <2>1 DEF Orders
  <2>3. <<>> \in Seq(Macs)
    OBVIOUS
  <2>4. Readings \subseteq Worlds
    BY <2>2, <2>3 DEF Readings, Worlds
  <2> QED
    BY <2>4 DEF Init
<1>5. PageFirst
  BY <1>4 DEF Init, PageFirst, Blank
<1> QED
  BY <1>1, <1>2, <1>3, <1>5 DEF WindowInv

-----------------------------------------------------------------------------
(* Calls.                                                                  *)

\* Send: a call is put in its slot.
LEMMA SendSlot ==
    ASSUME call = [t \in Slots |-> call[t]], NEW s \in Slots, NEW r, Send(s, r)
    PROVE  /\ call' = [t \in Slots |-> call'[t]]
           /\ call'[s].stage = "sent" /\ call'[s].req = r
           /\ \A t \in Slots \ {s} : call'[t] = call[t]
BY DEF Send, Sent

\* Hang: it is taken out.
LEMMA HangSlot ==
    ASSUME call = [t \in Slots |-> call[t]], NEW s \in Slots, Hang(s)
    PROVE  /\ call' = [t \in Slots |-> call'[t]]
           /\ call'[s] = Idle
           /\ \A t \in Slots \ {s} : call'[t] = call[t]
BY DEF Hang

\* Serve, Fail: it is answered, with the limits in force if with any.
LEMMA ServeSlot ==
    ASSUME call = [t \in Slots |-> call[t]], NEW s \in Slots, Serve(s) \/ Fail(s)
    PROVE  /\ call' = [t \in Slots |-> call'[t]]
           /\ call[s].stage = "sent" /\ call'[s].stage = "answered"
           /\ call'[s].max = call[s].req.max
           /\ \/ call'[s].answer = Failed
              \/ call'[s].answer.limits \in {limits, NoLimits}
           /\ \A t \in Slots \ {s} : call'[t] = call[t]
           /\ UNCHANGED <<limits, world, view, setting, pc>>
<1>1. CASE Serve(s)
  <2> DEFINE r == call[s].req
             p == IF r.op = "status" THEN policy ELSE Edit(r, policy)
             l == IF r.iface = NoIface THEN NoLimits ELSE limits
             a == IF r.op # "status" /\ ~Valid(p) THEN Failed ELSE State(p, l)
  <2>1. call' = [call EXCEPT ![s] = Answered(r.max, a)]
    BY <1>1 DEF Serve
  <2>2. a = Failed \/ a.limits \in {limits, NoLimits}
    BY DEF State
  <2>3. call'[s] = Answered(r.max, a)
    BY <2>1
  <2>4. call[s].stage = "sent" /\ UNCHANGED <<limits, world, view, setting, pc>>
    BY <1>1 DEF Serve
  <2> HIDE DEF r, p, l, a
  <2>5. /\ call'[s].stage = "answered" /\ call'[s].max = r.max
        /\ call'[s].answer = a
    BY <2>3 DEF Answered
  <2>6. /\ call' = [t \in Slots |-> call'[t]]
        /\ \A t \in Slots \ {s} : call'[t] = call[t]
    BY <2>1
  <2> QED
    BY <2>2, <2>4, <2>5, <2>6 DEF r
<1>2. CASE Fail(s)
  <2>1. call' = [call EXCEPT ![s] = Answered(call[s].req.max, Failed)]
    BY <1>2 DEF Fail
  <2>2. call[s].stage = "sent" /\ UNCHANGED <<limits, world, view, setting, pc>>
    BY <1>2 DEF Fail
  <2> QED
    BY <2>1, <2>2 DEF Answered
<1> QED
  BY <1>1, <1>2

\* Reconcile: the status read is done, and a reconciliation sent if need be.
LEMMA ReconcileSlot ==
    ASSUME call = [t \in Slots |-> call[t]], Reconcile
    PROVE  /\ call' = [t \in Slots |-> call'[t]]
           /\ call'["status"] = Idle
           /\ \A t \in Slots \ {"status", "auto"} : call'[t] = call[t]
           /\ \/ /\ call'["auto"] = call["auto"]
                 /\ pc' = "sleep" /\ UNCHANGED admissionPending
              \/ /\ Amiss(enforcement')
                 /\ call'["auto"] = Sent(Admission(enforcement'.policy.max))
                 /\ pc' = "wait_auto" /\ admissionPending' = TRUE
<1>1. CASE Amiss(enforcement')
  BY <1>1 DEF Reconcile, Slots
<1>2. CASE ~Amiss(enforcement')
  BY <1>2 DEF Reconcile, Slots
<1> QED
  BY <1>1, <1>2

-----------------------------------------------------------------------------
(* The steps.                                                              *)

\* FlagHeld: the flag is taken before either call and given back after it.
LEMMA FlagStep == FlagHeld /\ [Next]_vars => FlagHeld'
<1> SUFFICES ASSUME FlagHeld, [Next]_vars PROVE FlagHeld'
  OBVIOUS
<1> USE WindowAssumption
  DEF FlagHeld, AdmissionAlone, Slots, Idle, Sent, Answered, kernel, view,
      field
<1>1. ASSUME NEW m \in Toggled, NEW op \in {"block", "unblock"},
            Toggle(m, op)
     PROVE  FlagHeld'
  BY <1>1 DEF Toggle, Send, Redraw
<1>2. ASSUME NEW n \in Maxima, TypeMax(n) PROVE FlagHeld'
  BY <1>2 DEF TypeMax, Redraw
<1>3. CASE ApplyMax
  BY <1>3 DEF ApplyMax, Send, Admission, Redraw
<1>4. ASSUME NEW m \in Limited, ApplyRates(m) PROVE FlagHeld'
  BY <1>4 DEF ApplyRates, RowEnabled, Redraw
<1>5. ASSUME NEW m \in Limited, NEW d \in Directions, NEW n \in Values,
            TypeRate(m, d, n)
     PROVE  FlagHeld'
  BY <1>5 DEF TypeRate, RowEnabled, Redraw
<1>6. CASE Hotspot
  BY <1>6 DEF Hotspot, Switch, Join, Leave
<1>7. CASE Wake
  BY <1>7 DEF Wake
<1>8. ASSUME NEW s \in Slots, Fail(s) \/ Serve(s) PROVE FlagHeld'
  <2>1. /\ call' = [t \in Slots |-> call'[t]]
        /\ call[s].stage = "sent" /\ UNCHANGED <<admissionPending, pc>>
        /\ \A t \in Slots \ {s} : call'[t] = call[t]
    BY <1>8, ServeSlot
  <2>2. call[s] # Idle
    BY <2>1
  <2> QED
    BY <2>1, <2>2
<1>9. ASSUME NEW m \in Limited, FailRates(m) \/ ServeRates(m) PROVE FlagHeld'
  BY <1>9 DEF FailRates, ServeRates
<1>10. CASE PollState \/ PollStateFails
  BY <1>10 DEF PollState, PollStateFails, AskStatus, Send
<1>11. CASE StatusAnswered
  <2>1. call["status"].stage = "answered" /\ Reconcile
    BY <1>11 DEF StatusAnswered
  <2>2. pc = "wait_status" /\ call["auto"] = Idle
    BY <2>1
  <2>3. /\ call' = [t \in Slots |-> call'[t]] /\ call'["status"] = Idle
        /\ call'["manual"] = call["manual"]
        /\ \/ /\ call'["auto"] = call["auto"]
              /\ pc' = "sleep" /\ UNCHANGED admissionPending
           \/ /\ ~admissionPending
              /\ pc' = "wait_auto" /\ admissionPending' = TRUE
    BY <2>1, ReconcileSlot DEF Amiss
  <2> QED
    BY <2>2, <2>3
<1>12. CASE AutoAnswered \/ ManualAnswered
  <2>1. CASE AutoAnswered
    <3>1. /\ call["auto"] # Idle /\ Hang("auto") /\ admissionPending' = FALSE
      BY <2>1 DEF AutoAnswered
    <3>2. call["manual"] = Idle /\ call["status"] = Idle
      BY <3>1
    <3>3. /\ call' = [t \in Slots |-> call'[t]] /\ call'["auto"] = Idle
          /\ \A t \in Slots \ {"auto"} : call'[t] = call[t]
      BY <3>1, HangSlot
    <3> QED
      BY <3>2, <3>3
  <2>2. CASE ManualAnswered
    <3>1. /\ call["manual"] # Idle /\ Hang("manual") /\ admissionPending' = FALSE
      BY <2>2 DEF ManualAnswered
    <3>2. call["auto"] = Idle
      BY <3>1
    <3>3. /\ call' = [t \in Slots |-> call'[t]] /\ call'["manual"] = Idle
          /\ \A t \in Slots \ {"manual"} : call'[t] = call[t]
      BY <3>1, HangSlot
    <3>4. pc' = pc
      BY <2>2 DEF ManualAnswered
    <3> QED
      BY <3>1, <3>2, <3>3, <3>4
  <2> QED
    BY <1>12, <2>1, <2>2
<1>13. ASSUME NEW m \in Toggled, ToggleAnswered(m) PROVE FlagHeld'
  BY <1>13 DEF ToggleAnswered, Learn, Hang, Answer, Redraw
<1>14. ASSUME NEW m \in Limited, RatesAnswered(m) PROVE FlagHeld'
  BY <1>14 DEF RatesAnswered, Learn, Filled, Redraw
<1>15. CASE UNCHANGED vars
  BY <1>15 DEF vars
<1> QED
  BY <1>1, <1>2, <1>3, <1>4, <1>5, <1>6, <1>7, <1>8, <1>9,
     <1>10, <1>11, <1>12, <1>13, <1>14, <1>15
  DEF Next, User, Hotspot, Failures, Loop, Values

\* MaximumHeld: the field cannot be edited while the flag is up.
LEMMA MaximumStep == FlagHeld /\ MaximumHeld /\ [Next]_vars => MaximumHeld'
<1> SUFFICES ASSUME FlagHeld, MaximumHeld, [Next]_vars PROVE MaximumHeld'
  OBVIOUS
<1> USE WindowAssumption
  DEF FlagHeld, MaximumHeld, Slots, Idle, Sent, Answered, kernel, view, field
<1>1. ASSUME NEW m \in Toggled, NEW op \in {"block", "unblock"},
            Toggle(m, op)
     PROVE  MaximumHeld'
  BY <1>1 DEF Toggle, Send, Redraw
<1>2. ASSUME NEW n \in Maxima, TypeMax(n) PROVE MaximumHeld'
  BY <1>2 DEF TypeMax, Redraw
<1>3. CASE ApplyMax
  BY <1>3 DEF ApplyMax, Send, Admission, Redraw
<1>4. ASSUME NEW m \in Limited, ApplyRates(m) PROVE MaximumHeld'
  BY <1>4 DEF ApplyRates, RowEnabled, Redraw
<1>5. ASSUME NEW m \in Limited, NEW d \in Directions, NEW n \in Values,
            TypeRate(m, d, n)
     PROVE  MaximumHeld'
  BY <1>5 DEF TypeRate, RowEnabled, Redraw
<1>6. CASE Hotspot
  BY <1>6 DEF Hotspot, Switch, Join, Leave
<1>7. CASE Wake
  BY <1>7 DEF Wake
<1>8. ASSUME NEW s \in Slots, Fail(s) \/ Serve(s) PROVE MaximumHeld'
  <2>1. /\ call[s].stage = "sent" /\ call'[s].stage = "answered"
        /\ call'[s].max = call[s].req.max /\ UNCHANGED <<touched, maxText>>
        /\ \A t \in Slots \ {s} : call'[t] = call[t]
    BY <1>8, ServeSlot
  <2> QED
    BY <2>1
<1>9. ASSUME NEW m \in Limited, FailRates(m) \/ ServeRates(m) PROVE MaximumHeld'
  BY <1>9 DEF FailRates, ServeRates
<1>10. CASE PollState \/ PollStateFails
  BY <1>10 DEF PollState, PollStateFails, AskStatus, Send
<1>11. CASE StatusAnswered
  <2>1. call'["manual"] = call["manual"] /\ touched' = touched
    BY <1>11, ReconcileSlot DEF StatusAnswered
  <2>2. touched => maxText' = maxText
    BY <1>11 DEF StatusAnswered, RefillMax
  <2> QED
    BY <2>1, <2>2
<1>12. CASE AutoAnswered \/ ManualAnswered
  <2>1. CASE AutoAnswered
    <3>1. Hang("auto") /\ UNCHANGED <<touched, maxText>>
      BY <2>1 DEF AutoAnswered
    <3>2. \A t \in Slots \ {"auto"} : call'[t] = call[t]
      BY <3>1, HangSlot
    <3>3. call'["manual"] = call["manual"]
      BY <3>2
    <3> QED
      BY <3>1, <3>3
  <2>2. CASE ManualAnswered
    BY <2>2, HangSlot DEF ManualAnswered
  <2> QED
    BY <1>12, <2>1, <2>2
<1>13. ASSUME NEW m \in Toggled, ToggleAnswered(m) PROVE MaximumHeld'
  BY <1>13 DEF ToggleAnswered, Learn, Hang, Answer, Redraw
<1>14. ASSUME NEW m \in Limited, RatesAnswered(m) PROVE MaximumHeld'
  BY <1>14 DEF RatesAnswered, Learn, Filled, Redraw
<1>15. CASE UNCHANGED vars
  BY <1>15 DEF vars
<1> QED
  BY <1>1, <1>2, <1>3, <1>4, <1>5, <1>6, <1>7, <1>8, <1>9,
     <1>10, <1>11, <1>12, <1>13, <1>14, <1>15
  DEF Next, User, Hotspot, Failures, Loop, Values

\* Filled: a field shows a rate.
LEMMA FilledTyped ==
    ASSUME NEW a, a.limits \in Limits, NEW m \in Limited
    PROVE  Filled(a, m) \in [Directions -> [text : Values, touched : BOOLEAN]]
BY DEF Filled, Limits, Values

\* NoLimits: no limit is one too.
LEMMA NoLimitsTyped == NoLimits \in Limits
BY DEF NoLimits, Limits

\* LimitsTyped: rates come from fields and fields from rates.
LEMMA LimitsStep ==
    FlagHeld /\ LimitsTyped /\ CallsTyped /\ [Next]_vars => LimitsTyped'
<1> SUFFICES ASSUME FlagHeld, LimitsTyped, CallsTyped, [Next]_vars PROVE LimitsTyped'
  OBVIOUS
<1> USE DEF LimitsTyped, Fields, Values, Idle, kernel, view, field
<1>1. ASSUME NEW m \in Toggled, NEW op \in {"block", "unblock"},
            Toggle(m, op)
     PROVE  LimitsTyped'
  BY <1>1 DEF Toggle, Send, Redraw
<1>2. ASSUME NEW n \in Maxima, TypeMax(n) PROVE LimitsTyped'
  BY <1>2 DEF TypeMax, Redraw
<1>3. CASE ApplyMax
  BY <1>3 DEF ApplyMax, Send, Admission, Redraw
<1>4. ASSUME NEW m \in Limited, ApplyRates(m) PROVE LimitsTyped'
  <2> DEFINE r == [d \in Directions |-> rateText[m][d].text]
  <2>1. r \in [Directions -> Values]
    OBVIOUS
  <2>2. setting' = [setting EXCEPT ![m] = Sent(r)]
    BY <1>4 DEF ApplyRates
  <2>3. UNCHANGED <<limits, rateText>>
    BY <1>4 DEF ApplyRates
  <2> HIDE DEF r
  <2> QED
    BY <2>1, <2>2, <2>3 DEF Sent
<1>5. ASSUME NEW m \in Limited, NEW d \in Directions, NEW n \in Values,
            TypeRate(m, d, n)
     PROVE  LimitsTyped'
  BY <1>5 DEF TypeRate, RowEnabled, Redraw
<1>6. CASE Hotspot
  BY <1>6 DEF Hotspot, Switch, Join, Leave
<1>7. CASE Wake
  BY <1>7 DEF Wake
<1>8. ASSUME NEW s \in Slots, Fail(s) \/ Serve(s) PROVE LimitsTyped'
  <2>1. UNCHANGED <<limits, rateText, setting>>
    BY <1>8, ServeSlot DEF FlagHeld, view
  <2> QED
    BY <2>1
<1>9. ASSUME NEW m \in Limited, FailRates(m) \/ ServeRates(m) PROVE LimitsTyped'
  <2>1. setting[m].req \in [Directions -> Values] /\ rateText' = rateText
    BY <1>9 DEF FailRates, ServeRates
  <2>2. CASE FailRates(m)
    <3>1. limits' \in Limits
      BY <2>1, <2>2 DEF FailRates, Limits
    <3>2. setting' = [setting EXCEPT ![m] = Answered(0, Failed)]
      BY <2>2 DEF FailRates
    <3> QED
      BY <2>1, <3>1, <3>2 DEF Answered
  <2>3. CASE ServeRates(m)
    <3>1. limits' \in Limits
      BY <2>1, <2>3 DEF ServeRates, Limits
    <3> DEFINE a == State(policy, limits')
    <3>2. setting' = [setting EXCEPT ![m] = Answered(0, a)]
      BY <2>3 DEF ServeRates
    <3>3. a.limits \in Limits
      BY <3>1 DEF State
    <3> HIDE DEF a
    <3> QED
      BY <2>1, <3>1, <3>2, <3>3 DEF Answered
  <2> QED
    BY <1>9, <2>2, <2>3
<1>10. CASE PollState \/ PollStateFails
  BY <1>10 DEF PollState, PollStateFails, AskStatus, Send
<1>11. CASE StatusAnswered
  <2>1. UNCHANGED <<limits, setting>>
    BY <1>11 DEF StatusAnswered
  <2> DEFINE a == call["status"].answer
  <2>2. CASE a = Failed
    BY <1>11, <2>1, <2>2 DEF StatusAnswered, Answer
  <2>3. CASE a # Failed
    <3>1. a.limits \in Limits
      BY <1>11, <2>3 DEF StatusAnswered, CallsTyped, Slots
    <3>2. rateText' = Refill(a)
      BY <1>11, <2>3 DEF StatusAnswered, Answer
    <3> HIDE DEF a
    <3>3. Blank \in [Directions -> [text : Values, touched : BOOLEAN]]
      BY DEF Blank
    <3>4. Refill(a) \in Fields
      BY <3>1, <3>3, FilledTyped DEF Refill
    <3> QED
      BY <2>1, <3>2, <3>4
  <2> QED
    BY <2>2, <2>3
<1>12. CASE AutoAnswered \/ ManualAnswered
  BY <1>12 DEF AutoAnswered, ManualAnswered, Hang
<1>13. ASSUME NEW m \in Toggled, ToggleAnswered(m) PROVE LimitsTyped'
  BY <1>13 DEF ToggleAnswered, Hang
<1>14. ASSUME NEW m \in Limited, RatesAnswered(m) PROVE LimitsTyped'
  <2>1. setting' = [setting EXCEPT ![m] = Idle] /\ limits' = limits
    BY <1>14 DEF RatesAnswered
  <2>2. rateText' \in Fields
    <3> DEFINE a == setting[m].answer
    <3>1. CASE a = Failed
      BY <1>14, <3>1 DEF RatesAnswered
    <3>2. CASE a # Failed
      <4>1. a.limits \in Limits
        BY <1>14, <3>2 DEF RatesAnswered
      <4>2. rateText' = [rateText EXCEPT ![m] = Filled(a, m)]
        BY <1>14, <3>2 DEF RatesAnswered
      <4> HIDE DEF a
      <4> QED
        BY <4>1, <4>2, FilledTyped
    <3> QED
      BY <3>1, <3>2
  <2> QED
    BY <2>1, <2>2
<1>15. CASE UNCHANGED vars
  BY <1>15 DEF vars
<1> QED
  BY <1>1, <1>2, <1>3, <1>4, <1>5, <1>6, <1>7, <1>8, <1>9,
     <1>10, <1>11, <1>12, <1>13, <1>14, <1>15
  DEF Next, User, Hotspot, Failures, Loop, Values

\* CallsTyped: the helper answers with the limits in force, or with none.
LEMMA CallsStep ==
    FlagHeld /\ LimitsTyped /\ CallsTyped /\ [Next]_vars => CallsTyped'
<1> SUFFICES ASSUME FlagHeld, LimitsTyped, CallsTyped, [Next]_vars PROVE CallsTyped'
  OBVIOUS
<1> USE DEF FlagHeld, CallsTyped, Slots, Idle, kernel, view, field
<1>1. ASSUME NEW m \in Toggled, NEW op \in {"block", "unblock"},
            Toggle(m, op)
     PROVE  CallsTyped'
  BY <1>1, SendSlot DEF Toggle
<1>2. ASSUME NEW n \in Maxima, TypeMax(n) PROVE CallsTyped'
  BY <1>2 DEF TypeMax, Redraw
<1>3. CASE ApplyMax
  BY <1>3, SendSlot DEF ApplyMax
<1>4. ASSUME NEW m \in Limited, ApplyRates(m) PROVE CallsTyped'
  BY <1>4 DEF ApplyRates
<1>5. ASSUME NEW m \in Limited, NEW d \in Directions, NEW n \in Values,
            TypeRate(m, d, n)
     PROVE  CallsTyped'
  BY <1>5 DEF TypeRate
<1>6. CASE Hotspot
  BY <1>6 DEF Hotspot, Switch, Join, Leave
<1>7. CASE Wake
  BY <1>7 DEF Wake
<1>8. ASSUME NEW s \in Slots, Fail(s) \/ Serve(s) PROVE CallsTyped'
  <2>1. /\ call'[s].answer = Failed \/ call'[s].answer.limits \in {limits, NoLimits}
        /\ \A t \in Slots \ {s} : call'[t] = call[t]
    BY <1>8, ServeSlot
  <2> QED
    BY <2>1, NoLimitsTyped DEF LimitsTyped
<1>9. ASSUME NEW m \in Limited, FailRates(m) \/ ServeRates(m) PROVE CallsTyped'
  BY <1>9 DEF FailRates, ServeRates
<1>10. CASE PollState \/ PollStateFails
  BY <1>10, SendSlot DEF PollState, PollStateFails, AskStatus
<1>11. CASE StatusAnswered
  <2>1. Reconcile /\ limits' = limits
    BY <1>11 DEF StatusAnswered
  <2> DEFINE r == Sent(Admission(enforcement'.policy.max))
  <2>2. r.stage = "sent"
    BY DEF Sent
  <2>3. /\ \A t \in Slots \ {"status", "auto"} : call'[t] = call[t]
        /\ call'["status"] = Idle
        /\ call'["auto"] = call["auto"] \/ call'["auto"] = r
    BY <2>1, ReconcileSlot DEF Idle
  <2> HIDE DEF r
  <2> QED
    BY <2>1, <2>2, <2>3
<1>12. CASE AutoAnswered \/ ManualAnswered
  BY <1>12, HangSlot, SMTT(20) DEF AutoAnswered, ManualAnswered
<1>13. ASSUME NEW m \in Toggled, ToggleAnswered(m) PROVE CallsTyped'
  BY <1>13, HangSlot, SMTT(20) DEF ToggleAnswered
<1>14. ASSUME NEW m \in Limited, RatesAnswered(m) PROVE CallsTyped'
  BY <1>14 DEF RatesAnswered
<1>15. CASE UNCHANGED vars
  BY <1>15 DEF vars
<1> QED
  BY <1>1, <1>2, <1>3, <1>4, <1>5, <1>6, <1>7, <1>8, <1>9,
     <1>10, <1>11, <1>12, <1>13, <1>14, <1>15
  DEF Next, User, Hotspot, Failures, Loop, Values

\* RatesHeld: a row cannot be edited while its Set is under way.
LEMMA RatesStep == LimitsTyped /\ RatesHeld /\ [Next]_vars => RatesHeld'
<1> SUFFICES ASSUME LimitsTyped, RatesHeld, [Next]_vars PROVE RatesHeld'
  OBVIOUS
<1> USE DEF LimitsTyped, RatesHeld, Fields, Values, Idle, Sent, Answered, kernel,
            view, field
<1>1. ASSUME NEW m \in Toggled, NEW op \in {"block", "unblock"},
            Toggle(m, op)
     PROVE  RatesHeld'
  BY <1>1 DEF Toggle, Send, Redraw
<1>2. ASSUME NEW n \in Maxima, TypeMax(n) PROVE RatesHeld'
  BY <1>2 DEF TypeMax, Redraw
<1>3. CASE ApplyMax
  BY <1>3 DEF ApplyMax, Send, Admission, Redraw
<1>4. ASSUME NEW m \in Limited, ApplyRates(m) PROVE RatesHeld'
  BY <1>4 DEF ApplyRates, RowEnabled, Redraw
<1>5. ASSUME NEW m \in Limited, NEW d \in Directions, NEW n \in Values,
            TypeRate(m, d, n)
     PROVE  RatesHeld'
  BY <1>5 DEF TypeRate, RowEnabled, Redraw
<1>6. CASE Hotspot
  BY <1>6 DEF Hotspot, Switch, Join, Leave
<1>7. CASE Wake
  BY <1>7 DEF Wake
<1>8. ASSUME NEW s \in Slots, Fail(s) \/ Serve(s) PROVE RatesHeld'
  BY <1>8 DEF Fail, Serve
<1>9. ASSUME NEW m \in Limited, FailRates(m) \/ ServeRates(m) PROVE RatesHeld'
  <2>1. rateText' = rateText /\ setting[m].stage = "sent"
    BY <1>9 DEF FailRates, ServeRates
  <2>2. CASE FailRates(m)
    <3>1. setting' = [setting EXCEPT ![m] = Answered(0, Failed)]
      BY <2>2 DEF FailRates
    <3> QED
      BY <2>1, <3>1 DEF Answered
  <2>3. CASE ServeRates(m)
    <3> DEFINE a == State(policy, limits')
    <3>1. setting' = [setting EXCEPT ![m] = Answered(0, a)]
      BY <2>3 DEF ServeRates
    <3>2. a.limits[m] = setting[m].req
      BY <2>3 DEF ServeRates, State, Limits
    <3> HIDE DEF a
    <3> QED
      BY <2>1, <3>1, <3>2 DEF Answered
  <2> QED
    BY <1>9, <2>2, <2>3
<1>10. CASE PollState \/ PollStateFails
  BY <1>10 DEF PollState, PollStateFails, AskStatus, Send
<1>11. CASE StatusAnswered
  BY <1>11 DEF StatusAnswered, Answer, Refill, Filled, Blank, Redraw
<1>12. CASE AutoAnswered \/ ManualAnswered
  BY <1>12 DEF AutoAnswered, ManualAnswered, Learn, Hang, Answer, Redraw
<1>13. ASSUME NEW m \in Toggled, ToggleAnswered(m) PROVE RatesHeld'
  BY <1>13 DEF ToggleAnswered, Learn, Hang, Answer, Redraw
<1>14. ASSUME NEW m \in Limited, RatesAnswered(m) PROVE RatesHeld'
  BY <1>14 DEF RatesAnswered, Learn, Filled, Redraw
<1>15. CASE UNCHANGED vars
  BY <1>15 DEF vars
<1> QED
  BY <1>1, <1>2, <1>3, <1>4, <1>5, <1>6, <1>7, <1>8, <1>9,
     <1>10, <1>11, <1>12, <1>13, <1>14, <1>15
  DEF Next, User, Hotspot, Failures, Loop, Values

\* PageFirst: once something was shown, something always is.
LEMMA PageStep == LimitsTyped /\ PageFirst /\ [Next]_vars => PageFirst'
<1> SUFFICES ASSUME LimitsTyped, PageFirst, [Next]_vars PROVE PageFirst'
  OBVIOUS
<1> USE WindowAssumption
  DEF LimitsTyped, PageFirst, Worlds, Fields, Values, kernel, view, field, page
<1>1. ASSUME NEW m \in Toggled, NEW op \in {"block", "unblock"},
            Toggle(m, op)
     PROVE  PageFirst'
  BY <1>1 DEF Toggle, Send, Redraw
<1>2. ASSUME NEW n \in Maxima, TypeMax(n) PROVE PageFirst'
  BY <1>2 DEF TypeMax, Redraw
<1>3. CASE ApplyMax
  BY <1>3 DEF ApplyMax, Send, Admission, Redraw
<1>4. ASSUME NEW m \in Limited, ApplyRates(m) PROVE PageFirst'
  BY <1>4 DEF ApplyRates, RowEnabled, Redraw
<1>5. ASSUME NEW m \in Limited, NEW d \in Directions, NEW n \in Values,
            TypeRate(m, d, n)
     PROVE  PageFirst'
  BY <1>5 DEF TypeRate, RowEnabled, Redraw
<1>6. CASE Hotspot
  <2>1. UNCHANGED <<shown, rows, rateText>>
    BY <1>6 DEF Hotspot, Switch, Join, Leave
  <2>2. world' \in Worlds
    <3>1. CASE Switch
      <4>1. <<>> \in Seq(Macs)
        OBVIOUS
      <4> QED
        BY <3>1, <4>1 DEF Switch
    <3>2. ASSUME NEW m \in Macs, Join(m) PROVE world' \in Worlds
      <4>1. Append(world.clients, m) \in Seq(Macs)
        OBVIOUS
      <4> QED
        BY <3>2, <4>1 DEF Join
    <3>3. ASSUME NEW m \in Macs, Leave(m) PROVE world' \in Worlds
      <4> DEFINE c == world.clients
      <4>1. PICK i \in 1 .. Len(c) :
               world' = [world EXCEPT !.clients =
                            SubSeq(c, 1, i - 1) \o SubSeq(c, i + 1, Len(c))]
        BY <3>3 DEF Leave
      <4>2. c \in Seq(Macs)
        OBVIOUS
      <4> HIDE DEF c
      <4>3. SubSeq(c, 1, i - 1) \in Seq(Macs)
        BY <4>2
      <4>4. SubSeq(c, i + 1, Len(c)) \in Seq(Macs)
        BY <4>2
      <4>5. SubSeq(c, 1, i - 1) \o SubSeq(c, i + 1, Len(c)) \in Seq(Macs)
        BY <4>3, <4>4
      <4> QED
        BY <4>1, <4>5
    <3> QED
      BY <1>6, <3>1, <3>2, <3>3 DEF Hotspot
  <2> QED
    BY <2>1, <2>2
<1>7. CASE Wake
  BY <1>7 DEF Wake
<1>8. ASSUME NEW s \in Slots, Fail(s) \/ Serve(s) PROVE PageFirst'
  BY <1>8 DEF Fail, Serve
<1>9. ASSUME NEW m \in Limited, FailRates(m) \/ ServeRates(m) PROVE PageFirst'
  BY <1>9 DEF FailRates, ServeRates
<1>10. CASE PollState \/ PollStateFails
  BY <1>10 DEF PollState, PollStateFails, AskStatus, Send, page
<1>11. CASE StatusAnswered
  BY <1>11 DEF StatusAnswered, Answer, Refill, Filled, Blank, Redraw
<1>12. CASE AutoAnswered \/ ManualAnswered
  BY <1>12 DEF AutoAnswered, ManualAnswered, Learn, Hang, Answer, Redraw
<1>13. ASSUME NEW m \in Toggled, ToggleAnswered(m) PROVE PageFirst'
  BY <1>13 DEF ToggleAnswered, Learn, Hang, Answer, Redraw
<1>14. ASSUME NEW m \in Limited, RatesAnswered(m) PROVE PageFirst'
  BY <1>14 DEF RatesAnswered, Learn, Filled, Redraw
<1>15. CASE UNCHANGED vars
  BY <1>15 DEF vars
<1> QED
  BY <1>1, <1>2, <1>3, <1>4, <1>5, <1>6, <1>7, <1>8, <1>9,
     <1>10, <1>11, <1>12, <1>13, <1>14, <1>15
  DEF Next, User, Hotspot, Failures, Loop, Values

\* Next: the conjuncts together.
LEMMA NextInv == WindowInv /\ [Next]_vars => WindowInv'
BY FlagStep, MaximumStep, LimitsStep, CallsStep, RatesStep, PageStep DEF WindowInv

LEMMA Invariance == Spec => []WindowInv
<1> QED
  BY InitInv, NextInv, PTL DEF Spec

-----------------------------------------------------------------------------
(* Theorems.                                                               *)

(* A manual change of the maximum and a reconciliation are never in flight *)
(* together (admissionPending).                                            *)
THEOREM AdmissionNeverOverlaps == Spec => []AdmissionAlone
<1>1. WindowInv => AdmissionAlone
  BY DEF WindowInv, FlagHeld
<1> QED
  BY <1>1, Invariance, PTL

MaximumKept ==
    touched => maxText' = maxText \/ \E n \in Maxima : TypeMax(n)

RateKept(m, d) ==
    rateText[m][d].touched =>
        \/ rateText'[m][d].text = rateText[m][d].text
        \/ \E n \in Rates \cup {0} : TypeRate(m, d, n)
        \/ m \notin Members(shown.clients)

\* The maximum's field: only an answer to Apply sets it, to what it says already.
LEMMA MaximumKeptStep == WindowInv /\ [Next]_vars => MaximumKept
<1> SUFFICES ASSUME WindowInv, [Next]_vars, touched,
                    ~\E n \in Maxima : TypeMax(n)
             PROVE  maxText' = maxText
  BY DEF MaximumKept
<1>1. CASE ManualAnswered
  BY <1>1 DEF WindowInv, MaximumHeld, ManualAnswered, field
<1>2. CASE StatusAnswered
  BY <1>2 DEF StatusAnswered, RefillMax
<1>3. CASE User
  BY <1>3 DEF User, Toggle, ApplyMax, ApplyRates, TypeRate, field
<1>4. CASE Hotspot \/ PollStateFails \/ Failures
  BY <1>4 DEF Hotspot, Switch, Join, Leave, PollStateFails, AskStatus, Failures,
     Fail, FailRates, view, field
<1>5. CASE PollState \/ AutoAnswered \/ Wake
  BY <1>5 DEF PollState, AskStatus, AutoAnswered, Wake, view, field
<1>6. ASSUME NEW m \in Toggled, ToggleAnswered(m) PROVE maxText' = maxText
  BY <1>6 DEF ToggleAnswered, field
<1>7. ASSUME NEW s \in Slots, Serve(s) PROVE maxText' = maxText
  BY <1>7 DEF Serve, view, field
<1>8. ASSUME NEW m \in Limited, ServeRates(m) \/ RatesAnswered(m)
      PROVE  maxText' = maxText
  BY <1>8 DEF ServeRates, RatesAnswered, view, field
<1>9. CASE UNCHANGED vars
  BY <1>9 DEF vars, view, field
<1> QED
  BY <1>1, <1>2, <1>3, <1>4, <1>5, <1>6, <1>7, <1>8, <1>9 DEF Next, Loop

\* A rate's field: only an answer to Set sets it, to what it says already.
LEMMA RateKeptStep ==
    WindowInv /\ [Next]_vars =>
        \A m \in Limited, d \in Directions : RateKept(m, d)
<1> SUFFICES ASSUME WindowInv, [Next]_vars,
                    NEW m \in Limited, NEW d \in Directions,
                    rateText[m][d].touched,
                    ~\E n \in Rates \cup {0} : TypeRate(m, d, n),
                    m \in Members(shown.clients)
             PROVE  rateText'[m][d].text = rateText[m][d].text
  BY DEF RateKept
<1> USE DEF WindowInv
<1>1. ASSUME NEW k \in Limited, RatesAnswered(k)
      PROVE  rateText'[m][d].text = rateText[m][d].text
  <2>1. CASE k = m /\ setting[k].answer # Failed
    <3>1. rateText'[m][d] = Filled(setting[m].answer, m)[d]
      BY <1>1, <2>1 DEF RatesAnswered, LimitsTyped, Fields
    <3>2. setting[m].answer.limits[m][d] = rateText[m][d].text
      BY <1>1, <2>1 DEF RatesAnswered, RatesHeld
    <3> QED
      BY <3>1, <3>2 DEF Filled
  <2>2. CASE k # m \/ setting[k].answer = Failed
    BY <1>1, <2>2 DEF RatesAnswered, LimitsTyped, Fields
  <2> QED
    BY <2>1, <2>2
<1>2. CASE StatusAnswered
  <2>1. shown # Unknown
    BY DEF PageFirst
  <2> QED
    BY <1>2, <2>1 DEF StatusAnswered, Refill
<1>3. ASSUME NEW k \in Limited, NEW e \in Directions, NEW n \in Rates \cup {0},
             TypeRate(k, e, n)
      PROVE  rateText'[m][d].text = rateText[m][d].text
  <2>1. k # m \/ e # d
    BY <1>3
  <2> QED
    BY <1>3, <2>1 DEF TypeRate, LimitsTyped, Fields
<1>4. CASE User
  BY <1>3, <1>4 DEF User, Toggle, TypeMax, ApplyMax, ApplyRates
<1>5. CASE Hotspot \/ PollStateFails \/ Failures
  BY <1>5 DEF Hotspot, Switch, Join, Leave, PollStateFails, AskStatus, Failures,
     Fail, FailRates, view
<1>6. CASE PollState \/ AutoAnswered \/ Wake
  BY <1>6 DEF PollState, AskStatus, AutoAnswered, Wake, view
<1>7. CASE ManualAnswered
  BY <1>7 DEF ManualAnswered
<1>8. ASSUME NEW k \in Toggled, ToggleAnswered(k) PROVE rateText' = rateText
  BY <1>8 DEF ToggleAnswered
<1>9. ASSUME NEW s \in Slots, Serve(s) PROVE rateText' = rateText
  BY <1>9 DEF Serve, view
<1>10. ASSUME NEW k \in Limited, ServeRates(k) PROVE rateText' = rateText
  BY <1>10 DEF ServeRates, view
<1>11. CASE UNCHANGED vars
  BY <1>11 DEF vars, view
<1> QED
  BY <1>1, <1>2, <1>4, <1>5, <1>6, <1>7, <1>8, <1>9, <1>10, <1>11
  DEF Next, Loop

(* No poll, reconciliation or answer changes a field under the user's      *)
(* hands (maxInputTouched, downloadTouched, uploadTouched).                *)
THEOREM TypingStays == Spec => TypingIsKept
<1>1. WindowInv /\ [Next]_vars =>
          MaximumKept /\ \A m \in Limited, d \in Directions : RateKept(m, d)
  BY MaximumKeptStep, RateKeptStep
<1>2. WindowInv /\ [Next]_vars =>
          [MaximumKept /\ \A m \in Limited, d \in Directions : RateKept(m, d)]_vars
  BY <1>1
<1> QED
  BY <1>2, Invariance, PTL DEF Spec, TypingIsKept, MaximumKept, RateKept

-----------------------------------------------------------------------------
(* Types.                                                                  *)

\* CallsOf: what a call's record says, and what records are one's.
LEMMA CallParts ==
    ASSUME NEW R, NEW c \in CallsOf(R)
    PROVE  /\ c.stage = "sent" => c.req \in R
           /\ c.stage = "answered" =>
                 c.max \in 0 .. MaxLimit /\ c.answer \in States \cup {Failed}
BY DEF CallsOf, Idle, Sent, Answered

LEMMA CallsMade ==
    ASSUME NEW R
    PROVE  /\ Idle \in CallsOf(R)
           /\ \A r \in R : Sent(r) \in CallsOf(R)
           /\ \A n \in 0 .. MaxLimit, a \in States \cup {Failed} :
                 Answered(n, a) \in CallsOf(R)
BY DEF CallsOf

Calls == Requests \cup StatusRequests

Settings == [Directions -> Rates \cup {0}]

\* The fields of what is asked; only a status read has no interface.
LEMMA AskedFields ==
    ASSUME NEW r \in Calls
    PROVE  /\ r.max \in 0 .. MaxLimit
           /\ r.op # "status" => r \in Requests
  BY RequestFields, PolicyAssumption DEF Calls, StatusRequests

\* An order is a list of clients without repetitions.
LEMMA OrdersAre ==
    ASSUME NEW s
    PROVE  s \in Orders <=> /\ s \in Seq(Macs)
                            /\ \A i, j \in 1 .. Len(s) : s[i] = s[j] => i = j
<1> DEFINE N == Cardinality(Macs)
<1>1. IsFiniteSet(Macs) /\ N \in Nat
  BY WindowAssumption, FS_CardinalityType
<1>2. ASSUME s \in Orders
      PROVE  s \in Seq(Macs) /\ \A i, j \in 1 .. Len(s) : s[i] = s[j] => i = j
  BY <1>1, <1>2 DEF Orders
<1>3. ASSUME s \in Seq(Macs), \A i, j \in 1 .. Len(s) : s[i] = s[j] => i = j
      PROVE  s \in Orders
  <2> DEFINE D == 1 .. Len(s)
  <2>1. s \in [D -> Macs] /\ Len(s) \in Nat
    BY <1>3
  <2>2. s \in Injection(D, Macs)
    BY <1>3, <2>1 DEF Injection, IsInjective
  <2>3. IsFiniteSet(D) /\ Cardinality(D) = Len(s)
    <3>1. PICK n \in Nat : n = Len(s)
      BY <2>1
    <3>2. IsFiniteSet(1 .. n) /\ Cardinality(1 .. n) = n
      BY FS_Interval
    <3> QED
      BY <3>1, <3>2
  <2>4. Len(s) <= N
    <3> HIDE DEF D
    <3> QED
      BY <1>1, <2>2, <2>3, FS_Injection
  <2>5. Len(s) \in 0 .. N
    <3> HIDE DEF N
    <3> QED
      BY <1>1, <2>1, <2>4
  <2> QED
    BY <1>3, <2>1, <2>5 DEF Orders
<1> QED
  BY <1>2, <1>3

\* Who joins comes last, and who leaves leaves no gap.
LEMMA Joined ==
    ASSUME NEW s \in Orders, NEW m \in Macs, m \notin Members(s)
    PROVE  Append(s, m) \in Orders
<1> DEFINE t == Append(s, m)
<1>1. s \in Seq(Macs) /\ \A i, j \in 1 .. Len(s) : s[i] = s[j] => i = j
  BY OrdersAre
<1>2. \A i \in 1 .. Len(s) : s[i] # m
  BY <1>1 DEF Members
<1>3. /\ t \in Seq(Macs) /\ Len(t) = Len(s) + 1 /\ Len(s) \in Nat
      /\ \A i \in 1 .. Len(s) : t[i] = s[i]
      /\ t[Len(s) + 1] = m
  BY <1>1
<1> HIDE DEF t
<1>4. ASSUME NEW i \in 1 .. Len(t), NEW j \in 1 .. Len(t), t[i] = t[j] PROVE i = j
  <2>1. /\ i \in 1 .. Len(s) \/ i = Len(s) + 1
        /\ j \in 1 .. Len(s) \/ j = Len(s) + 1
    BY <1>3
  <2> QED
    BY <1>1, <1>2, <1>3, <1>4, <2>1
<1>5. t \in Orders
  BY <1>3, <1>4, OrdersAre
<1> QED
  BY <1>5 DEF t

LEMMA Left ==
    ASSUME NEW s \in Orders, NEW k \in 1 .. Len(s)
    PROVE  SubSeq(s, 1, k - 1) \o SubSeq(s, k + 1, Len(s)) \in Orders
<1> DEFINE t == RemoveAt(s, k)
<1>1. s \in Seq(Macs) /\ \A i, j \in 1 .. Len(s) : s[i] = s[j] => i = j
  BY OrdersAre
<1>2. /\ t \in Seq(Macs) /\ Len(t) = Len(s) - 1
      /\ \A p \in 1 .. Len(s) - 1 : t[p] = s[IF p < k THEN p ELSE p + 1]
  BY <1>1, Removed
<1>3. t = SubSeq(s, 1, k - 1) \o SubSeq(s, k + 1, Len(s))
  BY DEF RemoveAt
<1>4. Len(s) \in Nat
  BY <1>1
<1> HIDE DEF t
<1>5. ASSUME NEW i \in 1 .. Len(t), NEW j \in 1 .. Len(t), t[i] = t[j] PROVE i = j
  <2> DEFINE At(p) == IF p < k THEN p ELSE p + 1
  <2>1. At(i) \in 1 .. Len(s) /\ At(j) \in 1 .. Len(s)
    BY <1>2, <1>4
  <2>2. s[At(i)] = s[At(j)]
    BY <1>2, <1>5
  <2>3. At(i) = At(j)
    <3> HIDE DEF At
    <3> QED
      BY <1>1, <2>1, <2>2
  <2> QED
    BY <1>2, <1>4, <2>3
<1>6. t \in Orders
  BY <1>2, <1>5, OrdersAre
<1> QED
  BY <1>3, <1>6

-----------------------------------------------------------------------------
(* The parts of TypeOK, variable by variable.                              *)

ReadingsTyped ==
    /\ world \in Readings
    /\ shown \in Readings \cup {Unknown}
    /\ rows \subseteq Macs

ControlTyped ==
    /\ touched \in BOOLEAN /\ admissionPending \in BOOLEAN /\ form \in BOOLEAN
    /\ pc \in {"state", "wait_status", "wait_auto", "sleep"}

PolicyTyped ==
    /\ policy \in Policies
    /\ enforcement \in States \cup {Unknown}
    /\ maxText \in 0 .. MaxLimit
    /\ call \in [Slots -> CallsOf(Calls)]
    /\ setting \in [Limited -> CallsOf(Settings)]

\* A reading lists clients, and an interface while the hotspot runs.
LEMMA ReadingFields ==
    ASSUME NEW r \in Readings
    PROVE  /\ Members(r.clients) \subseteq Macs
           /\ \A n : Oldest(r.clients, n) \subseteq Macs
           /\ r.iface # NoIface => r.iface \in Ifaces
<1>1. r.clients \in Seq(Macs) /\ r.iface \in Ifaces \cup {NoIface}
  <2>1. <<>> \in Seq(Macs)
    OBVIOUS
  <2>2. r.clients \in Orders => r.clients \in Seq(Macs)
    BY OrdersAre
  <2> QED
    BY <2>1, <2>2 DEF Readings
<1>2. ASSUME NEW s \in Seq(Macs)
      PROVE  Members(s) \subseteq Macs /\ \A n : Oldest(s, n) \subseteq Macs
  BY DEF Members, Oldest
<1> QED
  BY <1>1, <1>2

\* The hotspot and what is shown of it.
LEMMA ReadingsStep == ReadingsTyped /\ [Next]_vars => ReadingsTyped'
<1> SUFFICES ASSUME ReadingsTyped, [Next]_vars PROVE ReadingsTyped'
  OBVIOUS
<1> USE DEF ReadingsTyped
<1>1. world' \in Readings
  <2>1. CASE UNCHANGED world
    BY <2>1
  <2>2. CASE Switch
    <3>1. <<>> \in Orders
      <4> DEFINE e == <<>>
      <4>1. e \in Seq(Macs) /\ \A i, j \in 1 .. Len(e) : e[i] = e[j] => i = j
        OBVIOUS
      <4> HIDE DEF e
      <4>2. e \in Orders
        BY <4>1, OrdersAre
      <4> QED
        BY <4>2 DEF e
    <3>2. \A i \in Ifaces : [iface |-> i, clients |-> <<>>] \in Readings
      BY <3>1 DEF Readings
    <3>3. [iface |-> NoIface, clients |-> <<>>] \in Readings
      BY DEF Readings
    <3>4. \E i \in Ifaces \cup {NoIface} : world' = [iface |-> i, clients |-> <<>>]
      BY <2>2 DEF Switch
    <3> QED
      BY <3>2, <3>3, <3>4
  <2>3. ASSUME NEW m \in Macs, Join(m) PROVE world' \in Readings
    <3>1. world \in [iface : Ifaces, clients : Orders]
      BY <2>3 DEF Join, Readings
    <3>2. Append(world.clients, m) \in Orders
      BY <2>3, <3>1, Joined DEF Join
    <3>3. world' = [world EXCEPT !.clients = Append(world.clients, m)]
      BY <2>3 DEF Join
    <3> QED
      BY <3>1, <3>2, <3>3 DEF Readings
  <2>4. ASSUME NEW m \in Macs, Leave(m) PROVE world' \in Readings
    <3> DEFINE c == world.clients
    <3>1. PICK k \in 1 .. Len(c) :
             world' = [world EXCEPT !.clients =
                          SubSeq(c, 1, k - 1) \o SubSeq(c, k + 1, Len(c))]
      BY <2>4 DEF Leave
    <3>2. world \in [iface : Ifaces, clients : Orders]
      <4>1. c # <<>>
        BY <3>1
      <4> QED
        BY <4>1 DEF Readings
    <3>3. c \in Orders
      BY <3>2
    <3> HIDE DEF c
    <3>4. SubSeq(c, 1, k - 1) \o SubSeq(c, k + 1, Len(c)) \in Orders
      BY <3>3, Left
    <3> QED
      BY <3>1, <3>2, <3>4 DEF Readings
  <2> QED
    BY <2>1, <2>2, <2>3, <2>4
    DEF Next, User, Hotspot, Failures, Loop, vars, Toggle, TypeMax, ApplyMax,
        ApplyRates, TypeRate, PollStateFails, Fail, FailRates, PollState,
        AskStatus, StatusAnswered, Reconcile, AutoAnswered, Wake,
        ManualAnswered, ToggleAnswered, Serve, ServeRates, RatesAnswered
<1>2. shown' \in Readings \cup {Unknown}
  <2>1. shown' \in {shown, world}
    BY DEF Next, User, Hotspot, Failures, Loop, vars, view, Toggle, TypeMax,
        ApplyMax, ApplyRates, TypeRate, PollStateFails, Fail, FailRates,
        PollState, AskStatus, StatusAnswered, Reconcile, AutoAnswered, Wake,
        ManualAnswered, ToggleAnswered, Serve, ServeRates, RatesAnswered, Join,
        Leave, Switch
  <2> QED
    BY <2>1
<1>3. rows' \subseteq Macs
  <2>1. rows' = rows \/ Redraw
    BY DEF Next, User, Hotspot, Failures, Loop, vars, view, page, Toggle, TypeMax,
        ApplyMax, ApplyRates, TypeRate, PollStateFails, Fail, FailRates,
        PollState, AskStatus, StatusAnswered, Reconcile, AutoAnswered, Wake,
        ManualAnswered, ToggleAnswered, Serve, ServeRates, RatesAnswered, Join,
        Leave, Switch
  <2>2. CASE Redraw
    <3>1. shown' # Unknown => Members(shown'.clients) \subseteq Macs
      BY <1>2, ReadingFields
    <3> QED
      BY <2>2, <3>1 DEF Redraw
  <2> QED
    BY <2>1, <2>2
<1> QED
  BY <1>1, <1>2, <1>3

\* The flags and the poll loop.
LEMMA ControlStep == ControlTyped /\ [Next]_vars => ControlTyped'
<1> SUFFICES ASSUME ControlTyped, [Next]_vars PROVE ControlTyped'
  OBVIOUS
<1> USE DEF ControlTyped
<1>1. touched' \in BOOLEAN
  <2>1. touched' \in {touched, TRUE, FALSE}
    BY DEF Next, User, Hotspot, Failures, Loop, vars, view, field, Toggle,
        TypeMax, ApplyMax, ApplyRates, TypeRate, PollStateFails, Fail,
        FailRates, PollState, AskStatus, StatusAnswered, Reconcile,
        AutoAnswered, Wake, ManualAnswered, ToggleAnswered, Serve, ServeRates,
        RatesAnswered, Join, Leave, Switch
  <2> QED
    BY <2>1
<1>2. admissionPending' \in BOOLEAN
  <2>1. admissionPending' \in {admissionPending, TRUE, FALSE}
    BY DEF Next, User, Hotspot, Failures, Loop, vars, view, field, Toggle,
        TypeMax, ApplyMax, ApplyRates, TypeRate, PollStateFails, Fail,
        FailRates, PollState, AskStatus, StatusAnswered, Reconcile,
        AutoAnswered, Wake, ManualAnswered, ToggleAnswered, Serve, ServeRates,
        RatesAnswered, Join, Leave, Switch
  <2> QED
    BY <2>1
<1>3. pc' \in {"state", "wait_status", "wait_auto", "sleep"}
  <2>1. pc' \in {pc, "state", "wait_status", "wait_auto", "sleep"}
    BY DEF Next, User, Hotspot, Failures, Loop, vars, view, field, Toggle,
        TypeMax, ApplyMax, ApplyRates, TypeRate, PollStateFails, Fail,
        FailRates, PollState, AskStatus, StatusAnswered, Reconcile,
        AutoAnswered, Wake, ManualAnswered, ToggleAnswered, Serve, ServeRates,
        RatesAnswered, Join, Leave, Switch
  <2> QED
    BY <2>1
<1>4. form' \in BOOLEAN
  <2>1. form' = form \/ Redraw
    BY DEF Next, User, Hotspot, Failures, Loop, vars, view, page, Toggle,
        TypeMax, ApplyMax, ApplyRates, TypeRate, PollStateFails, Fail,
        FailRates, PollState, AskStatus, StatusAnswered, AutoAnswered, Wake,
        ManualAnswered, ToggleAnswered, Serve, ServeRates, RatesAnswered, Join,
        Leave, Switch
  <2> QED
    BY <2>1 DEF Redraw
<1> QED
  BY <1>1, <1>2, <1>3, <1>4

\* Send, Hang, Serve, Fail: a slot holds a call again.
LEMMA SendTyped ==
    ASSUME NEW R, NEW f \in [Slots -> CallsOf(R)], NEW s \in Slots
    PROVE  /\ [f EXCEPT ![s] = Idle] \in [Slots -> CallsOf(R)]
           /\ \A r \in R : [f EXCEPT ![s] = Sent(r)] \in [Slots -> CallsOf(R)]
           /\ \A n \in 0 .. MaxLimit, a \in States \cup {Failed} :
                 [f EXCEPT ![s] = Answered(n, a)] \in [Slots -> CallsOf(R)]
BY CallsMade

\* Learn: what the window believes is a reading of the kernel, or nothing.
LEMMA LearnTyped ==
    ASSUME enforcement \in States \cup {Unknown}, NEW a \in States \cup {Failed},
           Learn(a)
    PROVE  enforcement' \in States \cup {Unknown}
BY DEF Learn

\* Admission: what Apply and reconciliation ask for is a request.
LEMMA AdmissionTyped ==
    ASSUME shown \in Readings \cup {Unknown}, Running, NEW n \in 0 .. MaxLimit
    PROVE  Admission(n) \in Calls
<1>1. shown \in Readings /\ shown.iface # NoIface
  BY DEF Running
<1>2. shown.iface \in Ifaces /\ Oldest(shown.clients, n) \subseteq Macs
  BY <1>1, ReadingFields
<1> QED
  BY <1>2 DEF Admission, Calls, Requests, AdmissionRequests

\* Serve: the answer reports a state.
LEMMA ServeTyped ==
    ASSUME PolicyTyped, limits \in Limits, NEW s \in Slots, Serve(s) \/ Fail(s)
    PROVE  /\ policy' \in Policies
           /\ call' \in [Slots -> CallsOf(Calls)]
<1> DEFINE r == call[s].req
<1> USE DEF PolicyTyped
<1>1. call[s].stage = "sent"
  BY DEF Serve, Fail
<1>2. r \in Calls
  BY <1>1, CallParts
<1>3. /\ r.max \in 0 .. MaxLimit
      /\ r.op # "status" => r \in Requests /\ Edit(r, policy) \in Policies
  BY <1>2, AskedFields, EditType
<1>4. CASE Serve(s)
  <2> DEFINE p == IF r.op = "status" THEN policy ELSE Edit(r, policy)
             l == IF r.iface = NoIface THEN NoLimits ELSE limits
             a == IF r.op # "status" /\ ~Valid(p) THEN Failed ELSE State(p, l)
  <2>1. /\ call' = [call EXCEPT ![s] = Answered(r.max, a)]
        /\ policy' = IF r.op # "status" /\ ~Valid(p) THEN policy ELSE p
    BY <1>4 DEF Serve
  <2>2. p \in Policies /\ l \in Limits
    BY <1>3, NoLimitsTyped
  <2> HIDE DEF p, l, r
  <2>3. a \in States \cup {Failed}
    BY <2>2 DEF State, States
  <2>4. policy' \in Policies
    BY <2>1, <2>2
  <2> HIDE DEF a
  <2>5. call' \in [Slots -> CallsOf(Calls)]
    BY <1>3, <2>1, <2>3, SendTyped
  <2> QED
    BY <2>4, <2>5
<1>5. CASE Fail(s)
  <2>1. call' = [call EXCEPT ![s] = Answered(r.max, Failed)]
    BY <1>5 DEF Fail
  <2>2. \/ UNCHANGED policy
        \/ r.op # "status" /\ policy' = Edit(r, policy)
        \/ policy' = [policy EXCEPT !.max = r.max]
    BY <1>5 DEF Fail
  <2> HIDE DEF r
  <2>3. policy' \in Policies
    <3>1. [policy EXCEPT !.max = r.max] \in Policies
      BY <1>3 DEF Policies
    <3> QED
      BY <1>3, <2>2, <3>1
  <2>4. call' \in [Slots -> CallsOf(Calls)]
    BY <1>3, <2>1, SendTyped
  <2> QED
    BY <2>3, <2>4
<1> QED
  BY <1>4, <1>5

\* What is in force, what the window believes of it, and the calls between.
LEMMA PolicyStep ==
    PolicyTyped /\ ReadingsTyped /\ LimitsTyped /\ [Next]_vars /\ limits' \in Limits
        => PolicyTyped'
<1> SUFFICES ASSUME PolicyTyped, ReadingsTyped, LimitsTyped, [Next]_vars,
                    limits' \in Limits
             PROVE  PolicyTyped'
  OBVIOUS
<1>1. policy' \in Policies
  <2>1. UNCHANGED policy \/ \E s \in Slots : Serve(s) \/ Fail(s)
    BY DEF Next, User, Hotspot, Failures, Loop, vars, kernel, Toggle, TypeMax,
        ApplyMax, ApplyRates, TypeRate, PollStateFails, FailRates, PollState,
        AskStatus, StatusAnswered, Reconcile, AutoAnswered, Wake,
        ManualAnswered, ToggleAnswered, ServeRates, RatesAnswered, Join, Leave,
        Switch
  <2> QED
    BY <2>1, ServeTyped DEF PolicyTyped, LimitsTyped
<1>2. ASSUME NEW s \in Slots, call[s].stage = "answered"
      PROVE  /\ Answer(s) \in States \cup {Failed}
             /\ call[s].max \in 0 .. MaxLimit
  BY <1>2, CallParts DEF PolicyTyped, Answer
<1>3. ASSUME NEW m \in Limited, setting[m].stage = "answered"
      PROVE  setting[m].answer \in States \cup {Failed}
  BY <1>3, CallParts DEF PolicyTyped
<1>4. enforcement' \in States \cup {Unknown}
  <2>1. \/ UNCHANGED enforcement
        \/ \E s \in Slots : call[s].stage = "answered" /\ Learn(Answer(s))
        \/ \E m \in Limited : /\ setting[m].stage = "answered"
                              /\ Learn(setting[m].answer)
    BY DEF Next, User, Hotspot, Failures, Loop, vars, view, Toggle, TypeMax,
        ApplyMax, ApplyRates, TypeRate, PollStateFails, Fail, FailRates,
        PollState, AskStatus, StatusAnswered, Reconcile, AutoAnswered, Wake,
        ManualAnswered, ToggleAnswered, Serve, ServeRates, RatesAnswered, Join,
        Leave, Switch, Slots
  <2> QED
    BY <1>2, <1>3, <2>1, LearnTyped DEF PolicyTyped
<1>5. maxText' \in 0 .. MaxLimit
  <2>1. \/ UNCHANGED maxText
        \/ \E n \in Maxima : maxText' = n
        \/ call["manual"].stage = "answered" /\ maxText' = call["manual"].max
        \/ /\ call["status"].stage = "answered" /\ Answer("status") # Failed
           /\ maxText' = Answer("status").policy.max
    BY DEF Next, User, Hotspot, Failures, Loop, vars, view, field, Toggle,
        TypeMax, ApplyMax, ApplyRates, TypeRate, PollStateFails, Fail,
        FailRates, PollState, AskStatus, StatusAnswered, RefillMax, Reconcile,
        AutoAnswered, Wake, ManualAnswered, ToggleAnswered, Serve, ServeRates,
        RatesAnswered, Join, Leave, Switch
  <2>2. \A a \in States : a.policy.max \in 0 .. MaxLimit
    BY DEF States, Policies
  <2> QED
    BY <1>2, <2>1, <2>2, WindowAssumption DEF PolicyTyped, Slots
<1>6. call' \in [Slots -> CallsOf(Calls)]
  <2>1. CASE UNCHANGED call
    BY <2>1 DEF PolicyTyped
  <2>2. ASSUME NEW s \in Slots, NEW r \in Calls, Send(s, r)
        PROVE  call' \in [Slots -> CallsOf(Calls)]
    BY <2>2, SendTyped DEF PolicyTyped, Send
  <2>3. ASSUME NEW s \in Slots, Hang(s)
        PROVE  call' \in [Slots -> CallsOf(Calls)]
    BY <2>3, SendTyped DEF PolicyTyped, Hang
  <2>4. ASSUME NEW s \in Slots, Serve(s) \/ Fail(s)
        PROVE  call' \in [Slots -> CallsOf(Calls)]
    BY <2>4, ServeTyped DEF LimitsTyped
  <2>5. ASSUME NEW m \in Toggled, NEW op \in {"block", "unblock"}, Toggle(m, op)
        PROVE  call' \in [Slots -> CallsOf(Calls)]
    <3> DEFINE r == [op |-> op, iface |-> shown.iface, macs |-> {m}, max |-> 0]
    <3>1. Running /\ Send(m, r)
      BY <2>5 DEF Toggle
    <3>2. shown.iface \in Ifaces
      BY <3>1, ReadingFields DEF ReadingsTyped, Running
    <3>3. r \in Calls
      BY <3>2, WindowAssumption DEF Calls, Requests, BlockRequests
    <3> HIDE DEF r
    <3> QED
      BY <2>2, <3>1, <3>3 DEF Slots
  <2>6. CASE ApplyMax
    <3>1. Running /\ maxText \in 0 .. MaxLimit /\ Send("manual", Admission(maxText))
      BY <2>6 DEF ApplyMax, PolicyTyped
    <3>2. Admission(maxText) \in Calls
      BY <3>1, AdmissionTyped DEF ReadingsTyped
    <3> QED
      BY <2>2, <3>1, <3>2 DEF Slots
  <2>7. CASE PollState \/ PollStateFails
    <3>1. PICK i \in {world.iface, shown.iface, NoIface} :
             /\ AskStatus(i)
             /\ i = shown.iface => i \in {world.iface, NoIface} \/ Running
      BY <2>7 DEF PollState, PollStateFails
    <3> DEFINE r == [op |-> "status", macs |-> {}, max |-> 0, iface |-> i]
    <3>2. Send("status", r)
      BY <3>1 DEF AskStatus
    <3>3. i \in Ifaces \cup {NoIface}
      BY <3>1, ReadingFields DEF ReadingsTyped, Running
    <3>4. r \in Calls
      BY <3>3 DEF Calls, StatusRequests
    <3> HIDE DEF r
    <3> QED
      BY <2>2, <3>2, <3>4 DEF Slots
  <2>8. CASE StatusAnswered
    <3> DEFINE idle == [call EXCEPT !["status"] = Idle]
    <3>1. idle \in [Slots -> CallsOf(Calls)]
      BY SendTyped DEF PolicyTyped, Slots
    <3>2. Reconcile
      BY <2>8 DEF StatusAnswered
    <3>3. CASE Amiss(enforcement')
      <4> DEFINE r == Admission(enforcement'.policy.max)
      <4>1. Running /\ enforcement' \in States
        BY <1>4, <3>3 DEF Amiss
      <4>2. enforcement'.policy.max \in 0 .. MaxLimit
        BY <4>1 DEF States, Policies
      <4>3. r \in Calls
        BY <4>1, <4>2, AdmissionTyped DEF ReadingsTyped
      <4>4. call' = [idle EXCEPT !["auto"] = Sent(r)]
        BY <3>2, <3>3 DEF Reconcile
      <4> HIDE DEF r, idle
      <4> QED
        BY <3>1, <4>3, <4>4, SendTyped DEF Slots
    <3>4. CASE ~Amiss(enforcement')
      BY <3>1, <3>2, <3>4 DEF Reconcile
    <3> QED
      BY <3>3, <3>4
  <2>9. CASE AutoAnswered \/ ManualAnswered
    <3>1. Hang("auto") \/ Hang("manual")
      BY <2>9 DEF AutoAnswered, ManualAnswered
    <3> QED
      BY <2>3, <3>1 DEF Slots
  <2>10. ASSUME NEW m \in Toggled, ToggleAnswered(m)
        PROVE  call' \in [Slots -> CallsOf(Calls)]
    <3>1. Hang(m)
      BY <2>10 DEF ToggleAnswered
    <3> QED
      BY <2>3, <3>1 DEF Slots
  <2>11. \/ UNCHANGED call
         \/ \E s \in Slots : Serve(s) \/ Fail(s)
         \/ \E m \in Toggled, op \in {"block", "unblock"} : Toggle(m, op)
         \/ ApplyMax \/ PollState \/ PollStateFails
         \/ StatusAnswered \/ AutoAnswered \/ ManualAnswered
         \/ \E m \in Toggled : ToggleAnswered(m)
    BY DEF Next, User, Hotspot, Failures, Loop, vars, TypeMax, ApplyRates,
        TypeRate, FailRates, Wake, ServeRates, RatesAnswered, Join, Leave,
        Switch
  <2> QED
    BY <2>1, <2>4, <2>5, <2>6, <2>7, <2>8, <2>9, <2>10, <2>11
<1>7. setting' \in [Limited -> CallsOf(Settings)]
  <2>1. CASE UNCHANGED setting
    BY <2>1 DEF PolicyTyped
  <2>2. ASSUME NEW m \in Limited, NEW c \in CallsOf(Settings),
               setting' = [setting EXCEPT ![m] = c]
        PROVE  setting' \in [Limited -> CallsOf(Settings)]
    BY <2>2 DEF PolicyTyped
  <2>3. ASSUME NEW m \in Limited, ApplyRates(m)
        PROVE  setting' \in [Limited -> CallsOf(Settings)]
    <3> DEFINE r == [d \in Directions |-> rateText[m][d].text]
    <3>1. r \in Settings
      BY DEF LimitsTyped, Fields, Values, Settings
    <3>2. setting' = [setting EXCEPT ![m] = Sent(r)]
      BY <2>3 DEF ApplyRates
    <3> HIDE DEF r
    <3> QED
      BY <2>2, <3>1, <3>2, CallsMade
  <2>4. ASSUME NEW m \in Limited, RatesAnswered(m)
        PROVE  setting' \in [Limited -> CallsOf(Settings)]
    <3>1. setting' = [setting EXCEPT ![m] = Idle]
      BY <2>4 DEF RatesAnswered
    <3> QED
      BY <2>2, <3>1, CallsMade
  <2>5. ASSUME NEW m \in Limited, ServeRates(m) \/ FailRates(m)
        PROVE  setting' \in [Limited -> CallsOf(Settings)]
    <3> DEFINE a == State(policy, limits')
    <3>1. \/ setting' = [setting EXCEPT ![m] = Answered(0, a)]
          \/ setting' = [setting EXCEPT ![m] = Answered(0, Failed)]
      BY <2>5 DEF ServeRates, FailRates
    <3>2. a \in States
      BY DEF State, States, PolicyTyped
    <3>3. 0 \in 0 .. MaxLimit
      BY PolicyAssumption
    <3> HIDE DEF a
    <3> QED
      BY <2>2, <3>1, <3>2, <3>3, CallsMade
  <2>6. \/ UNCHANGED setting
        \/ \E m \in Limited : \/ ApplyRates(m) \/ RatesAnswered(m)
                              \/ ServeRates(m) \/ FailRates(m)
    BY DEF Next, User, Hotspot, Failures, Loop, vars, Toggle, TypeMax, ApplyMax,
        TypeRate, PollStateFails, Fail, PollState, AskStatus, StatusAnswered,
        Reconcile, AutoAnswered, Wake, ManualAnswered, ToggleAnswered, Hang,
        Serve, Join, Leave, Switch
  <2> QED
    BY <2>1, <2>3, <2>4, <2>5, <2>6
<1> QED
  BY <1>1, <1>4, <1>5, <1>6, <1>7 DEF PolicyTyped

\* TypeOK is these parts and the rates' types of WindowInv.
LEMMA TypeParts ==
    TypeOK <=> /\ ReadingsTyped /\ ControlTyped /\ PolicyTyped
               /\ limits \in Limits /\ rateText \in Fields
BY DEF TypeOK, ReadingsTyped, ControlTyped, PolicyTyped, Calls, Settings,
   PolicyCalls, RateCalls, Fields, Values

LEMMA InitTyped == Init => TypeOK
<1> SUFFICES ASSUME Init PROVE TypeOK
  OBVIOUS
<1>1. ReadingsTyped /\ ControlTyped
  BY DEF Init, ReadingsTyped, ControlTyped
<1>2. PolicyTyped
  <2>1. 0 \in 0 .. MaxLimit
    BY PolicyAssumption
  <2>2. Idle \in CallsOf(Calls) /\ Idle \in CallsOf(Settings)
    BY CallsMade
  <2> QED
    BY <2>1, <2>2, EarlierAssumption DEF Init, States, PolicyTyped
<1>3. limits \in Limits /\ rateText \in Fields
  BY InitInv DEF WindowInv, LimitsTyped
<1> QED
  BY <1>1, <1>2, <1>3, TypeParts

(* Every variable of the window keeps its type: in particular only a       *)
(* running hotspot's interface is ever sent, no client is listed twice,    *)
(* and no error is ever taken for a reading.                               *)
THEOREM WindowTypes == Spec => []TypeOK
<1>1. TypeOK /\ WindowInv /\ [Next]_vars => TypeOK' /\ WindowInv'
  <2> SUFFICES ASSUME TypeOK, WindowInv, [Next]_vars
        PROVE  TypeOK' /\ WindowInv'
    OBVIOUS
  <2>1. WindowInv'
    BY NextInv
  <2>2. LimitsTyped /\ LimitsTyped'
    BY <2>1 DEF WindowInv
  <2>3. limits' \in Limits /\ rateText' \in Fields
    BY <2>2 DEF LimitsTyped
  <2>4. ReadingsTyped' /\ ControlTyped' /\ PolicyTyped'
    BY <2>2, <2>3, TypeParts, ReadingsStep, ControlStep, PolicyStep
  <2>5. TypeOK'
    BY <2>3, <2>4
    DEF TypeOK, ReadingsTyped, ControlTyped, PolicyTyped, Calls, Settings,
        PolicyCalls, RateCalls, Fields, Values
  <2> QED
    BY <2>1, <2>5
<1> QED
  BY <1>1, InitTyped, InitInv, PTL DEF Spec
=============================================================================
