--------------------------- MODULE PendingPrompts ---------------------------
(***************************************************************************)
(* The pending-prompt queue of a session: the operations of class          *)
(* PendingPromptService (pending-prompt-service.ts) as functions from a    *)
(* queue to a queue.  A queue is a sequence of entries; of an entry's      *)
(* fields the ones the operations look at are kept: its id, the prompt's   *)
(* text (a model value) and how it is to be delivered.                     *)
(***************************************************************************)
EXTENDS Naturals, SequencesExt

Deliveries == {"queue", "steer"}

Entries(Id, Text) == [id : Id, text : Text, delivery : Deliveries]

Ids(q) == {e.id : e \in ToSet(q)}

Queued(q, text) == \E e \in ToSet(q) : e.text = text

PositionOf(q, id) == SelectInSeq(q, LAMBDA e : e.id = id)

-----------------------------------------------------------------------------
\* enqueue: a prompt that is already queued keeps its entry and is moved; a
\* steer, new or old, goes to the front, anything else to the back.
Enqueue(q, new) ==
    LET at    == SelectInSeq(q, LAMBDA e : e.text = new.text)
        old   == IF at = 0 THEN new ELSE q[at]
        rest  == IF at = 0 THEN q ELSE RemoveAt(q, at)
        steer == "steer" \in {new.delivery, old.delivery}
    IN  IF steer THEN Cons([old EXCEPT !.delivery = "steer"], rest)
                 ELSE Append(rest, old)

\* delete; an unknown id changes nothing.
Delete(q, id) == IF id \in Ids(q) THEN RemoveAt(q, PositionOf(q, id)) ELSE q

\* update and insertUpdatedPrompt: promoted to the front, demoted to the back,
\* otherwise edited in place.
Update(q, id, text, delivery) ==
    LET at  == PositionOf(q, id)
        new == [id |-> id, text |-> text, delivery |-> delivery]
    IN  CASE id \notin Ids(q)            -> q
          [] id \in Ids(q) /\ delivery = "steer" -> Cons(new, Delete(q, id))
          [] OTHER -> IF q[at].delivery = "steer" THEN Append(Delete(q, id), new)
                                                  ELSE ReplaceAt(q, at, new)

HasSteer(q) == \E e \in ToSet(q) : e.delivery = "steer"

FirstSteer(q) == q[SelectInSeq(q, LAMBDA e : e.delivery = "steer")]

\* consumeSteer: the first steer leaves the queue.
ConsumeSteer(q) == Delete(q, FirstSteer(q).id)

\* shiftNext and requeueFront are Head / Tail and Cons.
RequeueFront(q, entry) == Cons(entry, q)
=============================================================================
