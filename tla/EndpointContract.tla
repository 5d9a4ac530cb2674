-------------------------- MODULE EndpointContract --------------------------
(***************************************************************************)
(* What the transfer core promises its users, endpoint by endpoint.  A       *)
(* request is free, sent (the stack has it), accepted (in the endpoint's    *)
(* line), or ended (its result is known) until the answer makes it free     *)
(* again.  The head of the line is the one transfer in progress; it ends     *)
(* first.  Only a cancelled request leaves the line from anywhere.           *)
(***************************************************************************)
EXTENDS Integers, Sequences, SequencesExt

CONSTANTS Req, EP, EpOf

VARIABLES
    phase,   \* "free", "sent", "accepted" or "ended"
    result,  \* "done" or "cancelled" once ended, else "none"
    line     \* line[e]: the accepted requests of the endpoint, oldest first

vars == <<phase, result, line>>

Init ==
    /\ phase = [r \in Req |-> "free"]
    /\ result = [r \in Req |-> "none"]
    /\ line = [e \in EP |-> <<>>]

Submit(r) ==
    /\ phase[r] = "free"
    /\ phase' = [phase EXCEPT ![r] = "sent"]
    /\ UNCHANGED <<result, line>>

\* The endpoint takes the request in, behind those it already has.
Accept(r) ==
    /\ phase[r] = "sent"
    /\ phase' = [phase EXCEPT ![r] = "accepted"]
    /\ line' = [line EXCEPT ![EpOf[r]] = Append(@, r)]
    /\ UNCHANGED result

\* ... or turns it away.
Refuse(r) ==
    /\ phase[r] = "sent"
    /\ phase' = [phase EXCEPT ![r] = "ended"]
    /\ result' = [result EXCEPT ![r] = "done"]
    /\ UNCHANGED line

Serve(e) ==
    /\ line[e] # <<>>
    /\ phase' = [phase EXCEPT ![Head(line[e])] = "ended"]
    /\ result' = [result EXCEPT ![Head(line[e])] = "done"]
    /\ line' = [line EXCEPT ![e] = Tail(@)]

Cancel(r) ==
    /\ phase[r] = "accepted"
    /\ \E i \in 1 .. Len(line[EpOf[r]]) :
          line[EpOf[r]][i] = r /\ line' = [line EXCEPT ![EpOf[r]] = RemoveAt(@, i)]
    /\ phase' = [phase EXCEPT ![r] = "ended"]
    /\ result' = [result EXCEPT ![r] = "cancelled"]

Answer(r) ==
    /\ phase[r] = "ended"
    /\ phase' = [phase EXCEPT ![r] = "free"]
    /\ result' = [result EXCEPT ![r] = "none"]
    /\ UNCHANGED line

Next == \/ \E r \in Req : Submit(r) \/ Accept(r) \/ Refuse(r) \/ Cancel(r) \/ Answer(r)
        \/ \E e \in EP : Serve(e)

Spec == Init /\ [][Next]_vars
=============================================================================
