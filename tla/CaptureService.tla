--------------------------- MODULE CaptureService ---------------------------
(***************************************************************************)
(* What a capture session promises its client: every request it accepts    *)
(* is answered at most once and in the order of acceptance, and nothing is *)
(* answered that was not accepted.                                         *)
(***************************************************************************)
EXTENDS Naturals, Sequences

CONSTANTS Requests, Outcomes

VARIABLES
    accepted,   \* requests in the order of acceptance
    answered    \* their outcomes so far

vars == <<accepted, answered>>

Init == accepted = <<>> /\ answered = <<>>

Accept(r) ==
    /\ \A i \in 1 .. Len(accepted) : accepted[i] # r
    /\ accepted' = Append(accepted, r)
    /\ UNCHANGED answered

Answer(outcome) ==
    /\ Len(answered) < Len(accepted)
    /\ answered' = Append(answered, [request |-> accepted[Len(answered) + 1], outcome |-> outcome])
    /\ UNCHANGED accepted

Next == (\E r \in Requests : Accept(r)) \/ (\E o \in Outcomes : Answer(o))

Spec == Init /\ [][Next]_vars
=============================================================================
