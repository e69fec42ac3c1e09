------------------------------- MODULE Outbox --------------------------------
(***************************************************************************)
(* What the outbound queue promises a hook that has it to itself: a bounded *)
(* store-and-forward buffer.  An event that was taken in leaves only by a   *)
(* 2xx or because a newcomer found no room; an event that was sent takes    *)
(* room until the queue is rewritten, and is never taken for unsent again.  *)
(* Of the events that carry one id the buffer has at most one at a time.    *)
(***************************************************************************)
EXTENDS Naturals, FiniteSets

CONSTANTS Event, IdOf, MaxQueued

VARIABLES held,   \* taken in and not sent
          spent,  \* sent and not yet cleared away
          sent    \* answered with a 2xx

Init == held = {} /\ spent = {} /\ sent = {}

\* Within S no two events carry one id, and none carries the id of one of T.
NewIdsTo(S, T) == \A e \in S, f \in S \cup T : IdOf[e] = IdOf[f] => e = f

\* New events come in.  All of them are kept while there is room; otherwise
\* the buffer is left exactly full.
Accept(S) ==
  LET all == held \cup spent \cup S
  IN /\ S # {} /\ S \cap (held \cup sent) = {}
     /\ NewIdsTo(S, held \cup spent)
     /\ \E K \in SUBSET all :
          /\ Cardinality(K) = IF Cardinality(all) > MaxQueued THEN MaxQueued
                                                              ELSE Cardinality(all)
          /\ held' = K \ sent
          /\ spent' = K \cap sent
     /\ UNCHANGED sent

Deliver(S) == /\ S \subseteq held /\ S # {}
              /\ held' = held \ S
              /\ spent' = spent \cup S
              /\ sent' = sent \cup S

Clear(S) == /\ S \subseteq spent /\ S # {}
            /\ spent' = spent \ S
            /\ UNCHANGED <<held, sent>>

Next == \/ \E S \in SUBSET Event : Accept(S)
        \/ \E S \in SUBSET held  : Deliver(S)
        \/ \E S \in SUBSET spent : Clear(S)

Spec == Init /\ [][Next]_<<held, spent, sent>>
=============================================================================
