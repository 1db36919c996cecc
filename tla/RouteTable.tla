----------------------------- MODULE RouteTable -----------------------------
(***************************************************************************)
(* What a managed table promises.  A table maps prefixes to values and has *)
(* a generation number.  Accepted requests are handled in the order in     *)
(* which they were accepted, a few at a time: either all their mutations   *)
(* are applied, one after the other, and the number moves on by one, or    *)
(* none is, because the table would not fit.  Every request is answered    *)
(* once, after its fate is decided.  Generation batching, coalescing,      *)
(* indexes and pages are the implementations' business.                    *)
(***************************************************************************)
EXTENDS Naturals, Sequences, SequencesExt

CONSTANTS
    Request,    \* the calls of Submit
    Mutations,  \* what a call may ask for: sequences of mutations
    Fits(_)     \* a table that can be built
VARIABLES
    asked,      \* what each accepted call asks for
    backlog,    \* accepted requests whose fate is open, oldest first
    verdict,    \* the fate of each request
    outcome,    \* what each caller has been told
    table,      \* the published table
    number      \* its generation

vars == <<asked, backlog, verdict, outcome, table, number>>

Undecided == [generation |-> 0, err |-> "pending"]
Verdict(err) == [generation |-> number, err |-> err]

\* One mutation, applied to a table.
Apply(t, m) ==
    IF m.delete
    THEN [p \in DOMAIN t \ {m.prefix} |-> t[p]]
    ELSE [p \in DOMAIN t \cup {m.prefix} |-> IF p = m.prefix THEN m.value ELSE t[p]]

\* The mutations of some requests, in order.
Joined(requests) == FlattenSeq([i \in DOMAIN requests |-> asked[requests[i]]])
Outcome(requests) == FoldLeft(Apply, table, Joined(requests))

Init ==
    /\ asked = [r \in Request |-> <<>>]
    /\ backlog = <<>>
    /\ verdict = [r \in Request |-> Undecided]
    /\ outcome = [r \in Request |-> Undecided]
    /\ number = 1

\* A call that is not accepted is told so at once.
Refuse(r) ==
    /\ verdict[r] = Undecided
    /\ \A i \in DOMAIN backlog : backlog[i] # r
    /\ \E err \in {"ErrBadIP", "ErrClosed"} :
          verdict' = [verdict EXCEPT ![r] = Verdict(err)]
    /\ outcome' = [outcome EXCEPT ![r] = verdict'[r]]
    /\ UNCHANGED <<asked, backlog, table, number>>

Accept(r) ==
    /\ verdict[r] = Undecided
    /\ \A i \in DOMAIN backlog : backlog[i] # r
    /\ backlog' = Append(backlog, r)
    /\ \E ms \in Mutations : asked' = [asked EXCEPT ![r] = ms]
    /\ UNCHANGED <<verdict, outcome, table, number>>

\* The fate of the n oldest requests.
Decide(n) ==
    LET oldest == SubSeq(backlog, 1, n)
        fits == Fits(Outcome(oldest))
    IN  /\ table' = IF fits THEN Outcome(oldest) ELSE table
        /\ number' = IF fits THEN number + 1 ELSE number
        /\ verdict' = [r \in Request |->
                          IF \E i \in DOMAIN oldest : oldest[i] = r
                          THEN [generation |-> number', err |-> IF fits THEN "ok" ELSE "ErrBuild"]
                          ELSE verdict[r]]
        /\ backlog' = SubSeq(backlog, n + 1, Len(backlog))
        /\ UNCHANGED <<asked, outcome>>

Answer(r) ==
    /\ verdict[r] # Undecided
    /\ outcome[r] = Undecided
    /\ outcome' = [outcome EXCEPT ![r] = verdict[r]]
    /\ UNCHANGED <<asked, backlog, verdict, table, number>>

Next ==
    \/ \E r \in Request : Refuse(r) \/ Accept(r) \/ Answer(r)
    \/ \E n \in DOMAIN backlog : Decide(n)

Spec == Init /\ [][Next]_vars
=============================================================================
