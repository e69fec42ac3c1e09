----------------------------- MODULE EventQueue ------------------------------
(***************************************************************************)
(* The outbound queue: enqueue and flush of src/src/queue.rs over the file *)
(* of src/src/store.rs.  Every hook is a process that enqueues what it     *)
(* extracted and flushes what is queued, both without a lock: a read of    *)
(* the whole file, work (for a flush, requests), then an append or a       *)
(* replacement of the whole file.  A process can be killed between any two *)
(* steps, and in the middle of an append.                                  *)
(***************************************************************************)
EXTENDS Integers, SequencesExt

CONSTANTS Hook,       \* the hook processes
          Event,      \* the events handed to enqueue, each of them handed in once
          IdOf,       \* IdOf[e]: its eventId, which several of them may carry
          Session,    \* the (agent, session) pairs a request is made for
          SessionOf,  \* SessionOf[e]: the session event e belongs to
          Batch,      \* what one hook may hand to enqueue, <<>> for nothing
          MaxHanded,  \* the longest of them
          MaxQueued,  \* MAX_QUEUED_EVENTS
          MaxBatch,   \* MAX_BATCH
          Connected,  \* the sessions whose requests are answered now and then
          MaxKills    \* the bound of the model on how often a hook is killed

ASSUME QueueAssumption == /\ IsFiniteSet(Hook)
                          /\ SessionOf \in [Event -> Session]
                          /\ DOMAIN IdOf = Event
                          /\ Batch \subseteq Seq(Event)
                          /\ MaxHanded \in Nat
                          /\ \A b \in Batch :
                               /\ Len(b) <= MaxHanded
                               /\ \A i, j \in DOMAIN b : SessionOf[b[i]] = SessionOf[b[j]]
                          /\ MaxQueued \in Nat \ {0}
                          /\ MaxBatch \in Nat \ {0}
                          /\ Connected \subseteq Session
                          /\ MaxKills \in Nat

VARIABLES
  queue,    \* the records of queue.jsonl that a reader can parse
  torn,     \* the file ends in a partial line without a newline
  pc,       \* pc[h]: where hook h is
  seen,     \* seen[h]: the records h last read from the file
  fresh,    \* fresh[h]: the events h is about to add
  todo,     \* todo[h]: records of its flush whose group has not begun
  group,    \* group[h]: what is left of the group it is sending
  failed,   \* failed[h]: the records its flush could not send
  order,    \* the events that reached the file, in that order (history)
  acked,    \* the events answered with a 2xx (history)
  shed,     \* the events dropped by the bound (history)
  absorbed, \* the events lost to a torn line (history)
  stale,    \* hooks whose read the file has since moved on from (history)
  raced,    \* some replacement was made from a stale read (history)
  overlap,  \* a hook read the file while another was going to write it
            \* (history)
  kills     \* how many hooks were killed at work (history)

file    == <<queue, torn>>
locals  == <<seen, fresh, todo, group, failed>>
history == <<order, acked, shed, absorbed, stale, raced, overlap, kills>>
vars    == <<file, pc, locals, history>>

\* The steps between a hook's read of the file and its write.
Reading == {"append", "token", "post", "refresh", "repost", "replace"}

Newest(n, s) == SubSeq(s, IF Len(s) > n THEN Len(s) - n + 1 ELSE 1, Len(s))
Oldest(n, s) == SubSeq(s, 1, IF Len(s) > n THEN n ELSE Len(s))
AllButNewest(n, s) == SubSeq(s, 1, Len(s) - n)

\* The records of s that are in T, in their order.
Kept(s, T) ==
  LET kept[n \in 0 .. Len(s)] ==
        IF n = 0 THEN <<>>
        ELSE IF s[n] \in T THEN Append(kept[n - 1], s[n]) ELSE kept[n - 1]
  IN kept[Len(s)]

Ids(S) == {IdOf[e] : e \in S}

\* The events of b whose eventId is not known and does not come a second time.
New(b, known) ==
  LET new[n \in 0 .. Len(b)] ==
        IF n = 0 THEN <<>>
        ELSE IF IdOf[b[n]] \in known \cup Ids(ToSet(new[n - 1])) THEN new[n - 1]
        ELSE Append(new[n - 1], b[n])
  IN new[Len(b)]

OfSession(x, s)    == Kept(s, {e \in ToSet(s) : SessionOf[e] = x})
NotOfSession(x, s) == Kept(s, {e \in ToSet(s) : SessionOf[e] # x})

Init == /\ queue = <<>> /\ torn = FALSE
        /\ pc = [h \in Hook |-> "idle"]
        /\ seen = [h \in Hook |-> <<>>]
        /\ fresh = [h \in Hook |-> <<>>]
        /\ todo = [h \in Hook |-> <<>>]
        /\ group = [h \in Hook |-> <<>>]
        /\ failed = [h \in Hook |-> <<>>]
        /\ order = <<>> /\ acked = {} /\ shed = {} /\ absorbed = {}
        /\ stale = {} /\ raced = FALSE /\ overlap = FALSE /\ kills = 0

Goto(h, from, to) == /\ pc[h] = from
                     /\ pc' = [pc EXCEPT ![h] = to]

\* h goes back to idle, and a hook of a later event may be the next h.
Forget(h, var) == [var EXCEPT ![h] = <<>>]

\* The other hooks that have read the file and will write it: a read by h
\* overlaps with them, and a write by h makes what they read stale.
Others(h) == {g \in Hook \ {h} : pc[g] \in Reading}
NoteRead(h)  == overlap' = (overlap \/ Others(h) # {})
NoteWrite(h) == stale' = (stale \ {h}) \cup Others(h)
NoteOrder(s) == order' = order \o s
-----------------------------------------------------------------------------
(* enqueue                                                                 *)

\* e names a hand-in that reached the file, or that a hook is about to add.
HandedIn(e) == e \in ToSet(order) \/ \E h \in Hook : e \in ToSet(fresh[h])

\* read_queue, then the events of b whose id is neither queued nor repeated:
\* an id that was sent or dropped before passes, as that of a declined edit
\* does when its PostToolUse told of it and the sweep at Stop does again.
\* (A hand-in has a name of its own, so that the history can tell the second
\* from the first.)  With nothing new nothing is written, and Stop and
\* SessionEnd flush all the same; a PostToolUse ends there.
ReadForEnqueue(h, b) ==
  LET new == New(b, Ids(ToSet(queue)))
  IN /\ pc[h] = "idle"
     /\ \A e \in ToSet(b) : ~HandedIn(e)
     /\ pc' = [pc EXCEPT ![h] = IF new = <<>> THEN "flush" ELSE "append"]
     /\ seen' = [seen EXCEPT ![h] = IF new = <<>> THEN <<>> ELSE queue]
     /\ fresh' = [fresh EXCEPT ![h] = new]
     /\ NoteRead(h)
     /\ UNCHANGED <<file, todo, group, failed, order, acked, shed, absorbed, stale, raced, kills>>

\* One append of the fresh lines.  Behind a partial line the first of them
\* becomes part of it, and a reader drops the two together.
AppendFresh(h) ==
  /\ Goto(h, "append", "flush")
  /\ Len(seen[h]) + Len(fresh[h]) <= MaxQueued
  /\ queue' = queue \o (IF torn THEN Tail(fresh[h]) ELSE fresh[h])
  /\ absorbed' = absorbed \cup (IF torn THEN {Head(fresh[h])} ELSE {})
  /\ torn' = FALSE
  /\ NoteOrder(fresh[h]) /\ NoteWrite(h)
  /\ seen' = Forget(h, seen) /\ fresh' = Forget(h, fresh)
  /\ UNCHANGED <<todo, group, failed, acked, shed, raced, overlap, kills>>

\* Mutant: only the part on disk is trimmed.
TrimOnlyWhatWasRead(h) ==
  LET all == Newest(MaxQueued, seen[h]) \o fresh[h]
  IN /\ Goto(h, "append", "flush")
     /\ Len(seen[h]) + Len(fresh[h]) > MaxQueued
     /\ queue' = all
     /\ shed' = shed \cup (ToSet(seen[h]) \ ToSet(all))
     /\ torn' = FALSE
     /\ raced' = (raced \/ h \in stale)
     /\ NoteOrder(fresh[h]) /\ NoteWrite(h)
     /\ seen' = Forget(h, seen) /\ fresh' = Forget(h, fresh)
     /\ UNCHANGED <<todo, group, failed, acked, absorbed, overlap, kills>>

\* Mutant: the slice is taken from the front.
ReplaceWithOldest(h) ==
  LET all == seen[h] \o fresh[h]
  IN /\ Goto(h, "append", "flush")
     /\ Len(all) > MaxQueued
     /\ queue' = Oldest(MaxQueued, all)
     /\ shed' = shed \cup (ToSet(all) \ ToSet(Oldest(MaxQueued, all)))
     /\ torn' = FALSE
     /\ raced' = (raced \/ h \in stale)
     /\ NoteOrder(fresh[h]) /\ NoteWrite(h)
     /\ seen' = Forget(h, seen) /\ fresh' = Forget(h, fresh)
     /\ UNCHANGED <<todo, group, failed, acked, absorbed, overlap, kills>>

\* Over the bound: the file is replaced by the newest of what was read and
\* the fresh events.
ReplaceWithNewest(h) ==
  LET all == seen[h] \o fresh[h]
  IN /\ Goto(h, "append", "flush")
     /\ Len(all) > MaxQueued
     /\ queue' = Newest(MaxQueued, all)
     /\ shed' = shed \cup ToSet(AllButNewest(MaxQueued, all))
     /\ torn' = FALSE
     /\ raced' = (raced \/ h \in stale)
     /\ NoteOrder(fresh[h]) /\ NoteWrite(h)
     /\ seen' = Forget(h, seen) /\ fresh' = Forget(h, fresh)
     /\ UNCHANGED <<todo, group, failed, acked, absorbed, overlap, kills>>
-----------------------------------------------------------------------------
(* flush                                                                   *)

\* Mutant: the flush takes the records out of the file to send them.
TakeForFlush(h) ==
  /\ Goto(h, "flush", IF queue = <<>> THEN "idle" ELSE "token")
  /\ todo' = [todo EXCEPT ![h] = queue]
  /\ queue' = <<>>
  /\ NoteRead(h)
  /\ UNCHANGED <<torn, seen, fresh, group, failed, order, acked, shed, absorbed, stale, raced, kills>>

\* read_queue; an empty queue ends the flush.
ReadForFlush(h) ==
  /\ Goto(h, "flush", IF queue = <<>> THEN "idle" ELSE "token")
  /\ todo' = [todo EXCEPT ![h] = queue]
  /\ NoteRead(h)
  /\ UNCHANGED <<file, seen, fresh, group, failed, order, acked, shed, absorbed, stale, raced, kills>>

\* current_token has a credential for the next group in first-seen order.
BeginGroup(h) ==
  LET x == SessionOf[Head(todo[h])]
  IN /\ Goto(h, "token", "post")
     /\ group' = [group EXCEPT ![h] = OfSession(x, todo[h])]
     /\ todo' = [todo EXCEPT ![h] = NotOfSession(x, @)]
     /\ UNCHANGED <<file, seen, fresh, failed, history>>

\* Mutant: no credential for one group ends the flush for all of them.
FailGroupAndStop(h) ==
  /\ Goto(h, "token", "replace")
  /\ failed' = [failed EXCEPT ![h] = @ \o todo[h]]
  /\ todo' = Forget(h, todo)
  /\ UNCHANGED <<file, seen, fresh, group, history>>

\* Mutant: the last group is not noticed.
FailGroupAndGoOn(h) ==
  LET x == SessionOf[Head(todo[h])]
  IN /\ Goto(h, "token", "token")
     /\ failed' = [failed EXCEPT ![h] = @ \o OfSession(x, todo[h])]
     /\ todo' = [todo EXCEPT ![h] = NotOfSession(x, @)]
     /\ UNCHANGED <<file, seen, fresh, group, history>>

\* current_token has none: the whole group has failed.
FailGroup(h) ==
  LET x    == SessionOf[Head(todo[h])]
      rest == NotOfSession(x, todo[h])
  IN /\ Goto(h, "token", IF rest = <<>> THEN "replace" ELSE "token")
     /\ failed' = [failed EXCEPT ![h] = @ \o OfSession(x, todo[h])]
     /\ todo' = [todo EXCEPT ![h] = rest]
     /\ UNCHANGED <<file, seen, fresh, group, history>>

\* The chunk being sent, and the step after it.
Chunk(h) == Oldest(MaxBatch, group[h])

\* Mutant: the next chunk begins with the last record of this one.
NextChunkOffByOne(h, from) ==
  LET rest == IF Len(group[h]) > 1 THEN SubSeq(group[h], MaxBatch, Len(group[h])) ELSE <<>>
  IN /\ Goto(h, from, IF rest # <<>> THEN "post"
                       ELSE IF todo[h] # <<>> THEN "token" ELSE "replace")
     /\ group' = [group EXCEPT ![h] = rest]
     /\ UNCHANGED <<file, seen, fresh, todo>>

NextChunk(h, from) ==
  LET rest == SubSeq(group[h], MaxBatch + 1, Len(group[h]))
  IN /\ Goto(h, from, IF rest # <<>> THEN "post"
                       ELSE IF todo[h] # <<>> THEN "token" ELSE "replace")
     /\ group' = [group EXCEPT ![h] = rest]
     /\ UNCHANGED <<file, seen, fresh, todo>>

\* The answer is a 2xx, to the first post or to the one after a refresh.
Accepted(h) ==
  /\ NextChunk(h, pc[h]) /\ pc[h] \in {"post", "repost"}
  /\ acked' = acked \cup ToSet(Chunk(h))
  /\ UNCHANGED <<failed, order, shed, absorbed, stale, raced, overlap, kills>>

\* Any other answer, or none within the budget (the backend may have taken
\* the batch all the same); a second 401 counts as this too.
Refused(h) ==
  /\ NextChunk(h, pc[h]) /\ pc[h] \in {"post", "repost"}
  /\ failed' = [failed EXCEPT ![h] = @ \o Chunk(h)]
  /\ UNCHANGED history

\* A 401 to the first post asks for a renewed credential.
Unauthorized(h) == /\ Goto(h, "post", "refresh")
                   /\ UNCHANGED <<file, locals, history>>

RefreshWorks(h) == /\ Goto(h, "refresh", "repost")
                   /\ UNCHANGED <<file, locals, history>>

\* Mutant: the chunk is passed over and not kept as failed.
RefreshFailsDropping(h) == /\ NextChunk(h, "refresh")
                           /\ UNCHANGED <<failed, history>>

RefreshFails(h) == /\ NextChunk(h, "refresh")
                   /\ failed' = [failed EXCEPT ![h] = @ \o Chunk(h)]
                   /\ UNCHANGED history

\* replace_queue with the newest of what failed.
ReplaceWithFailed(h) ==
  /\ Goto(h, "replace", "idle")
  /\ queue' = Newest(MaxQueued, failed[h])
  /\ shed' = shed \cup ToSet(AllButNewest(MaxQueued, failed[h]))
  /\ torn' = FALSE
  /\ raced' = (raced \/ h \in stale)
  /\ NoteWrite(h)
  /\ failed' = Forget(h, failed)
  /\ UNCHANGED <<seen, fresh, todo, group, order, acked, absorbed, overlap, kills>>
-----------------------------------------------------------------------------
(* Killed: the watchdog's exit, the host's timeout, the machine.           *)

ForgetAll(h) ==
  /\ kills < MaxKills
  /\ kills' = kills + 1
  /\ pc' = [pc EXCEPT ![h] = "idle"]
  /\ seen' = Forget(h, seen) /\ fresh' = Forget(h, fresh)
  /\ todo' = Forget(h, todo) /\ group' = Forget(h, group)
  /\ failed' = Forget(h, failed)

Kill(h) == /\ pc[h] # "idle"
           /\ ForgetAll(h)
           /\ stale' = stale \ {h}
           /\ UNCHANGED <<file, order, acked, shed, absorbed, raced, overlap>>

\* In the middle of the append: k records are there, and a part of the next.
KillInAppend(h) ==
  \E k \in 0 .. Len(fresh[h]) - 1 :
    LET whole == Oldest(k, fresh[h])
    IN /\ pc[h] = "append"
       /\ Len(seen[h]) + Len(fresh[h]) <= MaxQueued
       /\ queue' = queue \o (IF torn /\ k > 0 THEN Tail(whole) ELSE whole)
       /\ absorbed' = absorbed \cup (IF torn /\ k > 0 THEN {Head(whole)} ELSE {})
       /\ torn' = TRUE
       /\ NoteOrder(whole)
       /\ stale' = (stale \ {h}) \cup Others(h)
       /\ ForgetAll(h)
       /\ UNCHANGED <<acked, shed, raced, overlap>>
-----------------------------------------------------------------------------
Continue(h) == \/ AppendFresh(h) \/ ReplaceWithNewest(h)
               \/ ReadForFlush(h) \/ BeginGroup(h) \/ FailGroup(h)
               \/ Accepted(h) \/ Refused(h)
               \/ Unauthorized(h) \/ RefreshWorks(h) \/ RefreshFails(h)
               \/ ReplaceWithFailed(h)

Next == \E h \in Hook : \/ \E b \in Batch : ReadForEnqueue(h, b)
                        \/ Continue(h)
                        \/ Kill(h) \/ KillInAppend(h)

\* A hook that runs goes on until it ends or is killed.  The rest is what the
\* environment has to do for anything to be delivered, because the client has
\* no timer of its own: hooks keep firing (a Stop with nothing to add will
\* do), and among infinitely many attempts for a connected session some find a
\* credential and some are answered.  Nothing is assumed of the others.
BeginConnected(h) == /\ pc[h] = "token" /\ SessionOf[Head(todo[h])] \in Connected
                     /\ BeginGroup(h)
AcceptedConnected(h) == /\ pc[h] \in {"post", "repost"}
                        /\ SessionOf[Head(group[h])] \in Connected
                        /\ Accepted(h)

Fairness == \A h \in Hook : /\ WF_vars(Continue(h))
                            /\ WF_vars(ReadForEnqueue(h, <<>>))
                            /\ SF_vars(BeginConnected(h))
                            /\ SF_vars(AcceptedConnected(h))

Spec == Init /\ [][Next]_vars /\ Fairness
-----------------------------------------------------------------------------
Queued == ToSet(queue)

(* Types, and which local values a hook can hold where it is.               *)
TypeOK ==
  /\ queue \in Seq(Event) /\ torn \in BOOLEAN
  /\ pc \in [Hook -> Reading \cup {"idle", "flush"}]
  /\ \A h \in Hook : /\ {seen[h], fresh[h], todo[h], group[h], failed[h]} \subseteq Seq(Event)
                     /\ pc[h] = "append" <=> fresh[h] # <<>>
                     /\ pc[h] \in {"post", "refresh", "repost"} <=> group[h] # <<>>
                     /\ pc[h] = "token" => todo[h] # <<>>
                     /\ failed[h] # <<>> => pc[h] \in Reading \ {"append"}
  /\ ToSet(order) \subseteq Event /\ Len(order) = Cardinality(ToSet(order))
  /\ {acked, shed, absorbed} \subseteq SUBSET ToSet(order)
  /\ stale \subseteq {h \in Hook : pc[h] \in Reading}
  /\ {raced, overlap} \subseteq BOOLEAN /\ kills \in 0 .. MaxKills

(* "Nothing is ever lost, only delayed" (queue.rs:77) as far as it holds:   *)
(* whatever reached the file is still in it, was answered with a 2xx, was   *)
(* dropped by the bound or was swallowed by a torn line, kills included,    *)
(* as long as no hook replaced the file after another had written it since. *)
LostOnlyByRace == raced \/ ToSet(order) \subseteq Queued \cup acked \cup shed \cup absorbed

(* The queue "never grows without limit" (queue.rs:1-4): it is within its   *)
(* bound while hooks do not overlap, kills or none, and over it by          *)
(* at most one hand-in for every other hook that may overlap.               *)
QueueBounded ==
  Len(queue) <= MaxQueued + (IF overlap THEN (Cardinality(Hook) - 1) * MaxHanded ELSE 0)

(* e reached the file before f did.                                         *)
OlderThan(e, f) == \E i, j \in DOMAIN order : i < j /\ order[i] = e /\ order[j] = f
DroppedNow == shed' \ (shed \cup Queued')

(* Within a session the bound drops the oldest first (queue.rs:3-4): no     *)
(* event dropped now is newer than one of the same session that stays,      *)
(* races of hooks over the file included.                                   *)
SessionShedsOldest ==
  [][\A e \in DroppedNow, f \in Queued' :
       SessionOf[e] = SessionOf[f] => ~OlderThan(f, e)']_vars

(* What was handed in once and answered with a 2xx is sent again only after *)
(* two hooks overlapped or one was killed before it replaced the file       *)
(* (queue.rs:135), and an eventId is sent once for all the hand-ins of it   *)
(* that came while it waited.  An id handed in again after it left the file *)
(* is sent again: PostToolUse tells of a declined edit (hooks.rs:146) and   *)
(* so may the sweep at Stop (hooks.rs:427), for the backend to tell apart.  *)
NoResend ==
  [][\A h \in Hook : Accepted(h) /\ ~overlap /\ kills = 0 =>
       \A e \in ToSet(Chunk(h)) :
         /\ e \notin acked
         /\ \A f \in Queued : IdOf[f] = IdOf[e] => f = e]_vars

(* A hook that has the queue to itself sees the bounded store-and-forward   *)
(* buffer of module Outbox, kills at any step included.                     *)
Promise == INSTANCE Outbox WITH held  <- Queued \ acked,
                                spent <- Queued \cap acked,
                                sent  <- acked
ImplementsOutbox == Promise!Spec

(* Every queued event of a connected session is answered with a 2xx or      *)
(* dropped by the bound (or falls to a race), even when the sessions queued *)
(* before it never get a credential or an answer (queue.rs:105-127).        *)
Drains == \A e \in Event : SessionOf[e] \in Connected /\ e \in Queued
                            ~> (e \in acked \cup shed \/ raced)

(* "Nothing is ever lost, only delayed" (queue.rs:77), of hooks none of     *)
(* which is killed: what reached the file is in it, was answered, or was    *)
(* dropped by the bound.                                                    *)
NothingIsEverLost == kills = 0 => ToSet(order) \subseteq Queued \cup acked \cup shed
=============================================================================
