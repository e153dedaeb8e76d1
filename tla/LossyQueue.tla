---------------------------- MODULE LossyQueue ----------------------------
(***************************************************************************)
(* What capture_queue.h promises its caller, without the byte ring, the    *)
(* lock or the exporter thread.  While a session is open the producer      *)
(* offers messages.  Each is accepted or refused on the spot.  Accepted    *)
(* messages reach the exporter once each and in the order they were        *)
(* offered ("Joins the exporter after draining all accepted records"),     *)
(* and only after the last of them is the amount refused reported.         *)
(***************************************************************************)
EXTENDS Naturals, Sequences

CONSTANT Message     \* messages, records with a field lost: 0 for an event

VARIABLES
    open,       \* a session is open
    accepted,   \* messages accepted in this session, in order
    exported,   \* messages handed to the exporter, in order
    refused,    \* [events, lost]: what this session refused so far
    reported    \* [events, lost]: what the exporter was told was refused

lqvars == <<open, accepted, exported, refused, reported>>

Nothing == [events |-> 0, lost |-> 0]

\* What refusing message m adds to a count of refusals.
AddRefusal(count, m) ==
    IF m.lost > 0 THEN [count EXCEPT !.lost = @ + m.lost]
                  ELSE [count EXCEPT !.events = @ + 1]

LQInit ==
    /\ open = FALSE
    /\ accepted = <<>>
    /\ exported = <<>>
    /\ refused = Nothing
    /\ reported = Nothing

\* A session that cannot be opened leaves the queue closed and clean.
Open ==
    /\ ~open
    /\ open' \in BOOLEAN
    /\ accepted' = <<>>
    /\ exported' = <<>>
    /\ refused' = Nothing
    /\ reported' = Nothing

Accept(m) ==
    /\ open
    /\ reported = Nothing
    /\ accepted' = Append(accepted, m)
    /\ UNCHANGED <<open, exported, refused, reported>>

Refuse(m) ==
    /\ open
    /\ reported = Nothing
    /\ refused' = AddRefusal(refused, m)
    /\ UNCHANGED <<open, accepted, exported, reported>>

Deliver ==
    /\ open
    /\ Len(exported) < Len(accepted)
    /\ exported' = Append(exported, accepted[Len(exported) + 1])
    /\ UNCHANGED <<open, accepted, refused, reported>>

\* The refusals are reported, lost records and dropped events apart, after
\* the last accepted message was exported.
ReportLost ==
    /\ open
    /\ exported = accepted
    /\ reported' = [reported EXCEPT !.lost = refused.lost]
    /\ UNCHANGED <<open, accepted, exported, refused>>

ReportEvents ==
    /\ open
    /\ exported = accepted
    /\ reported' = [reported EXCEPT !.events = refused.events]
    /\ UNCHANGED <<open, accepted, exported, refused>>

Close ==
    /\ open
    /\ exported = accepted
    /\ reported = refused
    /\ open' = FALSE
    /\ UNCHANGED <<accepted, exported, refused, reported>>

LQNext ==
    \/ Open
    \/ \E m \in Message : Accept(m) \/ Refuse(m)
    \/ Deliver
    \/ ReportLost \/ ReportEvents
    \/ Close

LQSpec == LQInit /\ [][LQNext]_lqvars
===========================================================================
