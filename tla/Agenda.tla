------------------------------- MODULE Agenda -------------------------------
(***************************************************************************)
(* What the event queue of the device promises, without cycles, sequence   *)
(* comparisons or a heap: every pending event owes a number of cycles of   *)
(* its own clock.  Time passes for all running events alike and never      *)
(* passes one that owes nothing; an event is delivered exactly when it     *)
(* owes nothing; a held event owes what it owed when it was held; an event *)
(* is moved only with others of its kind, and by little; and an event      *)
(* injected by the host leaves the agenda only by delivery, or when all of *)
(* its kind are dropped.                                                   *)
(*                                                                         *)
(* The promise is void from the first time a queue lost its order or an    *)
(* event was moved to the past.                                            *)
(***************************************************************************)
EXTENDS Integers

CONSTANTS Id,         \* identities of events, never used twice while pending
          Time,       \* numbers of cycles
          Kind,       \* kinds of events
          Held,       \* kinds whose clock holds the events of the host as well
          Cancelled,  \* kinds of which everything may be dropped
          Movable,    \* kinds whose events may be moved
          Jump        \* how far, at most

VARIABLES agenda,     \* set of [id, kind, left, running, external]
          void

Entry == [id : Id, kind : Kind, left : Time, running : BOOLEAN, external : BOOLEAN]

Init == agenda = {} /\ void = FALSE

Ids == {e.id : e \in agenda}

\* What e becomes: it owes left under id, and is still the host's or not.
Becomes(e, id, left, running) ==
    [id |-> id, kind |-> e.kind, left |-> left, running |-> running, external |-> e.external]

Internal == {e \in agenda : ~e.external}

Add == \E e \in agenda' :
          /\ e \in Entry
          /\ e.id \notin Ids
          /\ agenda' = agenda \union {e}

\* n cycles pass; no running event is passed over.
Pass == \E n \in Time :
          /\ \A e \in agenda : e.running => n <= e.left
          /\ agenda' = {IF e.running THEN Becomes(e, e.id, e.left - n, TRUE) ELSE e :
                         e \in agenda}

Deliver == \E e \in agenda :
          /\ e.running
          /\ e.left = 0
          /\ agenda' = agenda \ {e}

\* The clock of some events stops.
Hold == \E H \in SUBSET {e \in agenda : e.external => e.kind \in Held} :
          agenda' = (agenda \ H) \union {Becomes(e, e.id, e.left, FALSE) : e \in H}

\* The clock of some held events starts again.
Release == \E R \in SUBSET {e \in agenda : ~e.running} :
          agenda' = (agenda \ R) \union {Becomes(e, e.id, e.left, TRUE) : e \in R}

\* Internal events are discarded, for instance when their channel wraps its
\* generation counter.
Discard == \E D \in SUBSET Internal : agenda' = agenda \ D

\* A kind is dropped as a whole.
Cancel == \E k \in Cancelled : agenda' = {e \in agenda : e.kind # k}

\* Some events of a kind are moved together.
Move == \E k \in Movable : \E M \in SUBSET {e \in agenda : e.kind = k}, n \in -Jump .. Jump :
          /\ \A e \in M : e.left + n \in Time
          /\ agenda' = (agenda \ M) \union {Becomes(e, e.id, e.left + n, e.running) : e \in M}

\* A reset keeps the events of the host and re-queues under new identities the
\* internal ones that have to survive it, with what they still owe.
Restart == \E C \in SUBSET Internal : \E renumber \in [C -> Id \ Ids] :
          /\ \A c, d \in C : renumber[c] = renumber[d] => c = d
          /\ agenda' = {e \in agenda : e.external}
                         \union {Becomes(c, renumber[c], c.left, TRUE) : c \in C}

Next == \/ void'
        \/ /\ Add \/ Pass \/ Deliver \/ Hold \/ Release \/ Discard \/ Cancel \/ Move \/ Restart
           /\ UNCHANGED void

Spec == Init /\ [][Next]_<<agenda, void>>
=============================================================================
