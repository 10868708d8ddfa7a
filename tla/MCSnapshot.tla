------------------------------ MODULE MCSnapshot ----------------------------
(* Finite instances of Snapshot: neighbour entries and datagrams. *)
EXTENDS Snapshot

Entry(ip, mac, state, confirmed) ==
    [ip |-> ip, family |-> "inet", mac |-> mac, state |-> state,
     confirmed |-> confirmed]

SomeEntries ==
    {Entry(1, 1, "STALE", 3), Entry(2, 1, "STALE", 5), Entry(2, 1, "REACHABLE", 9),
     Entry(1, 2, "DELAY", 5), Entry(2, 2, "FAILED", 1),
     Entry(3, Upstream, "PERMANENT", 0),
     [Entry(4, 1, "REACHABLE", 1) EXCEPT !.family = "inet6"]}

Label(text) == [is |-> "label", text |-> text]
Pointer(to) == [is |-> "pointer", to |-> to]
End == [is |-> "end"]
Bad == [is |-> "bad"]
Question == [is |-> "question"]
Record(type, cells) == [is |-> "record", type |-> type, cells |-> cells]

\* The question takes cells 1 to 3, so the data of a first record begin at 6.
Reply(answers, start, records) ==
    [ours |-> TRUE, response |-> TRUE, rcode |-> 0, questions |-> 1,
     answers |-> answers, start |-> start,
     body |-> <<Label("phone"), End, Question>> \o records]

PtrReply(data) ==
    Reply(1, 6, <<Pointer(1), Record(Ptr, Len(data))>> \o data)

Plain == PtrReply(<<Label("phone"), End>>)

SomePackets ==
    {Plain,
     PtrReply(<<Label("phone"), Pointer(2)>>),
     PtrReply(<<Pointer(6)>>),
     PtrReply(<<Pointer(8), End, Pointer(1)>>),
     PtrReply(<<Pointer(99)>>),
     PtrReply(<<Label("a"), Label("b"), Label("c"), End>>),
     PtrReply(<<Label("phone"), Bad>>),
     PtrReply(<<Label(Unprintable), End>>),
     Reply(2, 10, <<Pointer(1), Record(5, 2), Label("alias"), End,
                    Pointer(1), Record(Ptr, 2), Label("phone"), End>>),
     Reply(2, 0, <<Pointer(1), Record(5, 1), Pointer(1)>>),
     Reply(1, 0, <<Pointer(1), Record(Ptr, 5), Label("phone"), End>>),
     Reply(1, 0, <<Label("phone")>>),
     [Plain EXCEPT !.rcode = 3],
     [Plain EXCEPT !.ours = FALSE],
     [Plain EXCEPT !.response = FALSE]}
=============================================================================
