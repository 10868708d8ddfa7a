---------------------------------- MODULE Dns -------------------------------
(***************************************************************************)
(* Reading a DNS reply, `dns.rs`: from a datagram to a hostname or none.   *)
(*                                                                         *)
(* A body is a sequence of cells, each with the bytes that are read        *)
(* together: a label with its length, a compression pointer, the end of a  *)
(* name, a length with reserved bits ("bad"), the type and class of a      *)
(* question, the ten fixed bytes of a record.  Pointers lead to cells, or  *)
(* past the last one.  A hostname is the sequence of its labels;           *)
(* `Unprintable` is a label of which sanitize_hostname leaves nothing.     *)
(***************************************************************************)
EXTENDS Naturals, Sequences, FiniteSets, FiniteSetsExt

CONSTANTS
    MaxJumps,           \* MAX_POINTER_JUMPS
    MaxName,            \* the longest name, in labels (255 octets)
    Unprintable

ASSUME DnsAssumption == MaxJumps \in Nat /\ MaxName \in Nat

None == <<"none">>

\* What a body may be: pointers lead anywhere, no label looks like no name.
Cells(body) ==
    /\ Len(body) \in Nat /\ DOMAIN body = 1 .. Len(body)
    /\ \A i \in DOMAIN body :
          /\ body[i].is = "pointer" => body[i].to \in Nat
          /\ body[i].is = "record" => body[i].cells \in Nat
          /\ body[i].is = "label" => <<body[i].text>> # None

Ptr == 12

\* The offset just past the name at pos.
SkipName(body, pos) ==
    LET stops == {i \in DOMAIN body : i >= pos /\ body[i].is # "label"}
        first == CHOOSE i \in stops : \A j \in stops : i <= j
    IN IF stops # {} /\ body[first].is \in {"end", "pointer"}
       THEN first + 1 ELSE 0

\* Where a reading is, and how many pointers and labels it has met.
Readers == [pos : Nat, jumps : Nat, total : Nat]

Reader(p, j, t) == [pos |-> p, jumps |-> j, total |-> t]

\* Defect: the pointer after the last one allowed is followed too.
ReadNameFurther(body, pos) ==
    LET read[r \in Readers] ==
          LET p == r.pos IN
          IF p \notin DOMAIN body THEN None
          ELSE IF body[p].is = "end" THEN <<>>
          ELSE IF body[p].is = "pointer" /\ r.jumps <= MaxJumps
               THEN read[Reader(body[p].to, r.jumps + 1, r.total)]
          ELSE IF body[p].is = "label" /\ r.total < MaxName
               THEN LET rest == read[Reader(p + 1, r.jumps, r.total + 1)] IN
                    IF rest = None THEN None ELSE <<body[p].text>> \o rest
          ELSE None
    IN read[Reader(pos, 0, 0)]

\* Pointers are counted, so that a loop of them ends.
ReadName(body, pos) ==
    LET read[r \in Readers] ==
          LET p == r.pos IN
          IF p \notin DOMAIN body THEN None
          ELSE IF body[p].is = "end" THEN <<>>
          ELSE IF body[p].is = "pointer" /\ r.jumps < MaxJumps
               THEN read[Reader(body[p].to, r.jumps + 1, r.total)]
          ELSE IF body[p].is = "label" /\ r.total < MaxName
               THEN LET rest == read[Reader(p + 1, r.jumps, r.total + 1)] IN
                    IF rest = None THEN None ELSE <<body[p].text>> \o rest
          ELSE None
    IN read[Reader(pos, 0, 0)]

Sanitize(name) ==
    LET kept == SelectSeq(name, LAMBDA l : l # Unprintable) IN
    IF kept = <<>> THEN None ELSE kept

\* The fixed part of the record whose name begins at pos, 0 if it is cut off.
WholeRecord(body, pos) ==
    LET fixed == SkipName(body, pos) IN
    IF /\ fixed \in DOMAIN body /\ body[fixed].is = "record"
       /\ fixed + body[fixed].cells <= Len(body)
    THEN fixed ELSE 0

\* The first PTR record decides; a malformed one ends the search.
FirstPtr(body, start, answers) ==
    LET record[n \in Nat] ==
          IF n = 0 THEN WholeRecord(body, start)
          ELSE LET last == record[n - 1] IN
               IF last = 0 THEN 0
               ELSE WholeRecord(body, last + body[last].cells + 1)
        ptrs == {n \in 0 .. answers - 1 :
                    record[n] # 0 /\ body[record[n]].type = Ptr}
        name == ReadName(body, record[Min(ptrs)] + 1)
    IN IF ptrs = {} \/ name = None THEN None ELSE Sanitize(name)

\* Past the questions; 0 if one of them is malformed.
AfterQuestions(body, questions) ==
    LET skip[n \in Nat] ==
          IF n = 0 THEN 1
          ELSE LET type == IF skip[n - 1] = 0 THEN 0
                           ELSE SkipName(body, skip[n - 1])
               IN IF type \in DOMAIN body THEN type + 1 ELSE 0
    IN skip[questions]

IsReply(p) == p.ours /\ p.response

ParsePtr(p) ==
    LET start == AfterQuestions(p.body, p.questions) IN
    IF ~IsReply(p) \/ p.rcode # 0 \/ start = 0 THEN None
    ELSE FirstPtr(p.body, start, p.answers)

-----------------------------------------------------------------------------
(* What a name is, said once more: its labels lie on the walk that reads a *)
(* label and goes on behind it, or goes where a pointer leads, and comes   *)
(* to an end before it has met too many of either.                         *)

Walk(body, pos) ==
    LET at[k \in Nat] ==
          IF k = 0 THEN pos
          ELSE LET p == at[k - 1] IN
               IF p \notin DOMAIN body THEN 0
               ELSE IF body[p].is = "label" THEN p + 1
               ELSE IF body[p].is = "pointer" THEN body[p].to
               ELSE 0
    IN [k \in 0 .. MaxJumps + MaxName |-> at[k]]

\* The k-th label of a name that ends at n: the one with k - 1 before it.
Spelled(body, pos) ==
    LET walk == Walk(body, pos)
        Met(n, kind) == {k \in 0 .. n - 1 : body[walk[k]].is = kind}
        Count(n, kind) == Cardinality(Met(n, kind))
        Label(n, k) == CHOOSE i \in Met(n, "label") : Count(i, "label") = k - 1
        Ends == {n \in DOMAIN walk : walk[n] \in DOMAIN body
                                       /\ body[walk[n]].is = "end"}
    IN {[k \in 1 .. Count(n, "label") |-> body[walk[Label(n, k)]].text] :
        n \in {e \in Ends : /\ Count(e, "pointer") <= MaxJumps
                            /\ Count(e, "label") <= MaxName}}
=============================================================================
