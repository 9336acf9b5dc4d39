------------------------------- MODULE Board -------------------------------
(***************************************************************************)
(* What the service of idl.thrift promises its callers: one list, to which  *)
(* add appends and which get returns, each call taking effect at one moment *)
(* between its start and its return, and at most once.  A caller may go     *)
(* away before its call returns; the call may still take effect then.  A    *)
(* restart of the server loses the list and the calls under way.            *)
(***************************************************************************)
EXTENDS Sequences

CONSTANTS Callers, Msgs

VARIABLES
    msgs,       \* the list
    calls,      \* per caller: its call that has had no effect yet, if any
    results,    \* per caller: the result of its call, if there is one
    seen        \* per caller: what its last get returned

vars == <<msgs, calls, results, seen>>

Op == [name : {"add"}, msg : Msgs] \cup [name : {"get"}]
Result == [name : {"add"}] \cup [name : {"get"}, list : Seq(Msgs)]

TypeOK ==
    /\ msgs \in Seq(Msgs)
    /\ calls \in [Callers -> {<<>>} \cup {<<op>> : op \in Op}]
    /\ results \in [Callers -> {<<>>} \cup {<<r>> : r \in Result}]
    /\ seen \in [Callers -> Seq(Msgs)]

Init ==
    /\ msgs = <<>>
    /\ calls = [c \in Callers |-> <<>>]
    /\ results = [c \in Callers |-> <<>>]
    /\ seen = [c \in Callers |-> <<>>]

Call(c, op) ==
    /\ calls[c] = <<>> /\ results[c] = <<>>
    /\ calls' = [calls EXCEPT ![c] = <<op>>]
    /\ UNCHANGED <<msgs, results, seen>>

Add(c) ==
    /\ calls[c] # <<>> /\ calls[c][1].name = "add"
    /\ msgs' = Append(msgs, calls[c][1].msg)
    /\ results' = [results EXCEPT ![c] = <<[name |-> "add"]>>]
    /\ calls' = [calls EXCEPT ![c] = <<>>]
    /\ UNCHANGED seen

Get(c) ==
    /\ calls[c] # <<>> /\ calls[c][1].name = "get"
    /\ results' = [results EXCEPT ![c] = <<[name |-> "get", list |-> msgs]>>]
    /\ calls' = [calls EXCEPT ![c] = <<>>]
    /\ UNCHANGED <<msgs, seen>>

Return(c) ==
    /\ results[c] # <<>>
    /\ results' = [results EXCEPT ![c] = <<>>]
    /\ seen' = IF results[c][1].name = "get" THEN [seen EXCEPT ![c] = results[c][1].list] ELSE seen
    /\ UNCHANGED <<msgs, calls>>

\* nobody waits for the result any more
Drop(c) ==
    /\ results[c] # <<>>
    /\ results' = [results EXCEPT ![c] = <<>>]
    /\ UNCHANGED <<msgs, calls, seen>>

\* results that are already on their way may still arrive
Restart ==
    /\ msgs' = <<>>
    /\ calls' = [c \in Callers |-> <<>>]
    /\ \E arrive \in SUBSET Callers :
          results' = [c \in Callers |-> IF c \in arrive THEN results[c] ELSE <<>>]
    /\ UNCHANGED seen

Next == \/ \E c \in Callers : \/ \E op \in Op : Call(c, op)
                              \/ Add(c) \/ Get(c) \/ Return(c) \/ Drop(c)
        \/ Restart

Spec == Init /\ [][Next]_vars

=============================================================================
