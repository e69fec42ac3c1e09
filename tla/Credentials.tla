----------------------------- MODULE Credentials ------------------------------
(***************************************************************************)
(* The sign-in of one agent: src/src/credentials.rs, the token's lifecycle *)
(* in src/src/api.rs, and login and logout in src/src/cli.rs.  The         *)
(* credential is in the OS store, or in a file when there is none; its     *)
(* access token is also in a cache that hooks read first.  Hooks and the   *)
(* developer's commands are processes that share the three without a lock. *)
(* A call to the store can time out, a process can be killed, the backend  *)
(* can renew a credential and its answer be lost.                          *)
(***************************************************************************)
EXTENDS Naturals, FiniteSets

CONSTANTS Hook,      \* the processes of hooks; one may follow another as h
          User,      \* the process of the developer's command
          NoCred,    \* "no credential"
          Rotates,   \* the backend replaces the refresh token it is given
          MaxIssued  \* the bound of the model on the credentials issued

Proc   == Hook \cup {User}
Serial == 1 .. MaxIssued
Cached == [access : Serial, refresh : {0}]   \* 0: the empty refresh token
Cred   == [access : Serial, refresh : Serial]

ASSUME CredentialAssumption == /\ IsFiniteSet(Hook) /\ User \notin Hook
                               /\ NoCred \notin Cred \cup Cached
                               /\ Rotates \in BOOLEAN
                               /\ MaxIssued \in Nat \ {0}

VARIABLES
  hasStore, \* the machine has an OS credential store
  store,    \* the entry in it
  file,     \* credentials.<agent>.json
  cache,    \* the access token in token.<agent>.json, 0 for none
  issued,   \* how many credentials the backend has issued
  honoured, \* the refresh tokens the backend takes
  pc,       \* pc[p]: where process p is
  mem,      \* mem[p]: the credential it works with
  held,     \* held[p]: the credential in its own cache
  signed,   \* history: the developer is signed "in"; the sign-in is "lost" in
            \* a way the code leaves open; a logout began: "away"; it said that
            \* nothing will be sent: "told"
  mixed     \* history: what the last logout met, a running hook or a silent
            \* store

places  == <<hasStore, store, file, cache>>
backend == <<issued, honoured>>
locals  == <<mem, held>>
history == <<signed, mixed>>
vars    == <<places, backend, pc, locals, history>>

Init ==
  /\ hasStore \in BOOLEAN
  /\ \E c \in {NoCred, [access |-> 1, refresh |-> 1]} :
       /\ \/ store = c /\ file = NoCred /\ hasStore
          \/ store = NoCred /\ file = c
       /\ issued = IF c = NoCred THEN 0 ELSE 1
       /\ honoured = {1} \cap {issued}
       /\ cache \in {0, issued}
       /\ signed = IF c = NoCred THEN "away" ELSE "in"
  /\ pc = [p \in Proc |-> "idle"]
  /\ mem = [p \in Proc |-> NoCred] /\ held = [p \in Proc |-> NoCred]
  /\ mixed = {}

Go(p, from, to) == pc[p] = from /\ pc' = [pc EXCEPT ![p] = to]
Take(p, c) == mem' = [mem EXCEPT ![p] = c]
Hold(p, c) == held' = [held EXCEPT ![p] = c]

\* The process is over; its own cache goes with it.
End(p, from) == Go(p, from, "idle") /\ Take(p, NoCred) /\ Hold(p, NoCred)

\* A hook may also go on with the next group or chunk of its queue.
EndOrNext(p, from) == \/ End(p, from)
                      \/ p \in Hook /\ Go(p, from, "cache") /\ Take(p, NoCred) /\ UNCHANGED held

\* History: one of the ways to lose the sign-in.
Loses(way) == signed' = IF signed = "in" /\ way THEN "lost" ELSE signed

\* What a process without a cache of its own reads.
Stored == IF store # NoCred THEN store ELSE file

\* The step leaves less to be read than there was, in a place or in the writer's
\* hand.
Backwards(hand) == \E c \in {store, file, hand} \ {NoCred} :
                     Stored' = NoCred \/ Stored'.access < c.access

\* The step puts a credential that was renewed meanwhile over the store's.
Revives(c) == store' = c /\ store # c /\ c.refresh \notin honoured
-----------------------------------------------------------------------------
(* current_token.  Whether a token is about to expire is a matter of time: *)
(* it may be found so at any time.                                         *)

Begin(h) == /\ Go(h, "idle", "cache")
            /\ mixed' = IF pc[User] = "idle" THEN mixed ELSE mixed \cup {"hook"}
            /\ UNCHANGED <<places, backend, locals, signed>>

\* The cached token has no refresh token.
UseCached(h) == /\ Go(h, "cache", "send")
                /\ cache # 0
                /\ Take(h, [access |-> cache, refresh |-> 0])
                /\ UNCHANGED <<places, backend, held, history>>

SkipCached(h) == /\ Go(h, "cache", "read")
                 /\ UNCHANGED <<places, backend, locals, history>>

\* What was read is cached when it is used, wherever it was read from.
UseFresh(h) == /\ Go(h, "have", "send")
               /\ cache' = mem[h].access
               /\ UNCHANGED <<hasStore, store, file, backend, locals, history>>
-----------------------------------------------------------------------------
(* read_located                                                            *)

\* What the credential is read for: a logout's report, the renewal of a cached
\* token, or a request, unless it is about to expire.
ReadFor(p) == IF p = User THEN {"listed"}
              ELSE IF mem[p] # NoCred THEN {"exchange"} ELSE {"have", "exchange"}

Return(p, from, c) == /\ \E to \in ReadFor(p) : Go(p, from, to)
                      /\ Take(p, c) /\ Hold(p, c)

\* No credential, this time: a hook sends nothing, a logout reports that none
\* is left.
GiveUp(p, from) == /\ EndOrNext(p, from)
                   /\ signed' = IF p = User THEN "told" ELSE signed
                   /\ UNCHANGED <<places, backend, mixed>>

ReadHeld(p) == /\ held[p] # NoCred
               /\ Return(p, "read", held[p])
               /\ UNCHANGED <<places, backend, history>>

\* The store has it, and a file beside it is taken for a stale copy.
ReadStore(p) == /\ held[p] = NoCred /\ hasStore /\ store # NoCred
                /\ Return(p, "read", store)
                /\ file' = NoCred
                /\ UNCHANGED <<hasStore, store, cache, backend, history>>

StoreIsSilent(p) == /\ held[p] = NoCred /\ hasStore
                    /\ GiveUp(p, "read")

\* The store is empty.
LookForFile(p) == /\ Go(p, "read", "file")
                  /\ held[p] = NoCred /\ hasStore /\ store = NoCred
                  /\ UNCHANGED <<places, backend, locals, history>>

ReadFile(p) == /\ file # NoCred
               /\ Go(p, "file", "move") /\ Hold(p, file)
               /\ UNCHANGED <<places, backend, mem, history>>

\* There is no store, or it fails this call at once, or what it has cannot be
\* parsed: the file is read and stays where it is.
ReadAlone(p) == /\ held[p] = NoCred /\ file # NoCred
                /\ Return(p, "read", file)
                /\ UNCHANGED <<places, backend, history>>

FindNoFile(p) == /\ held[p] = NoCred /\ file = NoCred
                 /\ GiveUp(p, "file") \/ GiveUp(p, "read")

\* The file's credential goes to the store; a second process that has read the
\* same file puts it over what the first has made of it.
Move(p) == /\ Return(p, "move", held[p])
           /\ store' = held[p] /\ file' = NoCred
           /\ UNCHANGED <<hasStore, cache, backend, mixed>>
           /\ Loses(Revives(held[p]))

MoveTimesOut(p) == /\ Return(p, "move", held[p])
                   /\ store' \in {store, held[p]}
                   /\ UNCHANGED <<hasStore, file, cache, backend, mixed>>
                   /\ Loses(Revives(held[p]))
-----------------------------------------------------------------------------
(* Requests, and refresh                                                   *)

Answered(h) == /\ EndOrNext(h, "send")
               /\ UNCHANGED <<places, backend, history>>

\* Mutant: the cached token is renewed as it is.
RejectedAsItIs(h) == /\ Go(h, "send", "exchange")
                     /\ UNCHANGED <<places, backend, locals, history>>

\* A 401.  The refresh token of a cached credential is in the store only.
Rejected(h) == /\ Go(h, "send", IF mem[h].refresh = 0 THEN "read" ELSE "exchange")
               /\ UNCHANGED <<places, backend, locals, history>>

\* What the backend does.
Issue == issued < MaxIssued /\ issued' = issued + 1
Renew(c) == /\ c.refresh \in honoured
            /\ Issue
            /\ honoured' = IF Rotates THEN (honoured \ {c.refresh}) \cup {issued'} ELSE honoured

\* Mutant: the refresh token in the answer is passed over.
RenewedKeepingRefresh(c, n) == [access |-> n, refresh |-> c.refresh]

\* The credential made of c and the n-th answer.
Renewed(c, n) == [access |-> n, refresh |-> IF Rotates THEN n ELSE c.refresh]

Exchange(h) == /\ Go(h, "exchange", "set")
               /\ Renew(mem[h])
               /\ Take(h, Renewed(mem[h], issued'))
               /\ UNCHANGED <<places, held, history>>

\* The request, or its answer, is lost (the 10 s of the request included).
AnswerIsLost(h) == /\ EndOrNext(h, "exchange")
                   /\ Renew(mem[h])
                   /\ Loses(Rotates)
                   /\ UNCHANGED <<places, mixed>>

ExchangeFails(h) == GiveUp(h, "exchange")
-----------------------------------------------------------------------------
(* write                                                                   *)

\* A hook goes on with the request; a login is over.
Written(p, from) == IF p = User THEN End(p, from)
                                ELSE Go(p, from, "send") /\ UNCHANGED locals

SetStore(p) == /\ Go(p, "set", "settle")
               /\ hasStore
               /\ store' = mem[p]
               /\ Hold(p, NoCred)
               /\ UNCHANGED <<hasStore, file, cache, backend, mem, history>>

\* The file goes and the token is cached.
Settle(p) == /\ Written(p, "settle")
             /\ file' = NoCred /\ cache' = mem[p].access
             /\ UNCHANGED <<hasStore, store, backend, mixed>>
             /\ Loses(Backwards(mem[p]))

\* The store did not answer in time (and took the value or not), or there is
\* none.
SetFails(p) == /\ Go(p, "set", "keep")
               /\ store' \in IF hasStore THEN {store, mem[p]} ELSE {store}
               /\ Hold(p, NoCred)
               /\ UNCHANGED <<hasStore, file, cache, backend, mem, history>>

\* The credential is kept in the file, and nothing is cached beside it.
Keep(p) == /\ Written(p, "keep")
           /\ cache' = 0 /\ file' = mem[p]
           /\ UNCHANGED <<hasStore, store, backend, mixed>>
           /\ Loses(Backwards(mem[p]))
-----------------------------------------------------------------------------
(* login and logout                                                        *)

\* The device code was approved.
Login == /\ Go(User, "idle", "set")
         /\ Issue /\ honoured' = honoured \cup {issued'}
         /\ Take(User, [access |-> issued', refresh |-> issued'])
         /\ signed' = "in" /\ mixed' = {}
         /\ UNCHANGED <<places, held>>

\* clear.  Whether the store answered is not looked at.
Logout == /\ Go(User, "idle", "delete")
          /\ signed' = "away"
          /\ mixed' = IF \E h \in Hook : pc[h] # "idle" THEN {"hook"} ELSE {}
          /\ UNCHANGED <<places, backend, locals>>

Delete == /\ Go(User, "delete", "unlink")
          /\ store' \in IF hasStore THEN {NoCred, store} ELSE {store}
          /\ mixed' = IF store' = NoCred THEN mixed ELSE mixed \cup {"store"}
          /\ UNCHANGED <<hasStore, file, cache, backend, locals, signed>>

\* Mutant: the token's cache is forgotten.
UnlinkFileOnly == /\ Go(User, "unlink", "read")
                  /\ file' = NoCred
                  /\ UNCHANGED <<hasStore, store, cache, backend, locals, history>>

\* The file and the cache go, and what is left is read to be reported.
Unlink == /\ Go(User, "unlink", "read")
          /\ file' = NoCred /\ cache' = 0
          /\ UNCHANGED <<hasStore, store, backend, locals, history>>

\* "Still connected": something was read after all.
StillConnected == /\ End(User, "listed")
                  /\ UNCHANGED <<places, backend, history>>
-----------------------------------------------------------------------------
\* The watchdog, the host or the developer ends a process.
Kill(p) == /\ pc[p] # "idle"
           /\ End(p, pc[p])
           /\ Loses(pc[p] \in {"set", "keep"})
           /\ UNCHANGED <<places, backend, mixed>>

Read(p) == \/ ReadHeld(p) \/ ReadStore(p) \/ StoreIsSilent(p) \/ LookForFile(p)
           \/ ReadFile(p) \/ ReadAlone(p) \/ FindNoFile(p) \/ Move(p) \/ MoveTimesOut(p)
Write(p) == SetStore(p) \/ Settle(p) \/ SetFails(p) \/ Keep(p)

Next == \/ \E h \in Hook : \/ Begin(h) \/ UseCached(h) \/ SkipCached(h) \/ UseFresh(h)
                           \/ Answered(h) \/ Rejected(h)
                           \/ Exchange(h) \/ AnswerIsLost(h) \/ ExchangeFails(h)
        \/ \E p \in Proc : Read(p) \/ Write(p) \/ Kill(p)
        \/ Login \/ Logout \/ Delete \/ Unlink \/ StillConnected

Spec == Init /\ [][Next]_vars
-----------------------------------------------------------------------------
Places == {"idle", "cache", "read", "file", "move", "have", "send", "exchange", "set",
           "settle", "keep", "delete", "unlink", "listed"}

(* Types, and which credential a process can have in hand where it is: what *)
(* is written or exchanged has its refresh token (api.rs:134-142).          *)
TypeOK ==
  /\ hasStore \in BOOLEAN /\ {store, file} \subseteq Cred \cup {NoCred}
  /\ hasStore \/ store = NoCred
  /\ issued \in 0 .. MaxIssued /\ cache \in 0 .. issued /\ honoured \subseteq 1 .. issued
  /\ pc \in [Proc -> Places]
  /\ mem \in [Proc -> Cred \cup Cached \cup {NoCred}]
  /\ held \in [Proc -> Cred \cup {NoCred}]
  /\ \A p \in Proc : /\ pc[p] \in {"have", "exchange", "set", "settle", "keep", "listed"}
                          => mem[p] \in Cred
                     /\ pc[p] = "move" => held[p] # NoCred
                     /\ pc[p] = "send" => mem[p] # NoCred
  /\ signed \in {"in", "lost", "away", "told"} /\ mixed \subseteq {"hook", "store"}

(* The developer stays signed in: some place, or a process that is about to *)
(* write, has a refresh token the backend takes, whatever hooks renew the   *)
(* credential at the same time, whatever reads of the store fail or time    *)
(* out, and wherever a process is killed, except for the ways the code      *)
(* leaves open:                                                             *)
(* an answer lost, or a kill, between the exchange and the write (api.rs:   *)
(* 143-157); a write that timed out and whose file an older entry hides, or *)
(* a slower write removes (credentials.rs:329-338); a file moved by a       *)
(* second process after the first has renewed it (credentials.rs:296-304).  *)
LoginKept ==
  signed = "in" =>
    \/ Stored # NoCred /\ Stored.refresh \in honoured
    \/ \E p \in Proc : pc[p] \in {"set", "keep"} /\ mem[p].refresh \in honoured

(* A logout that met no running hook and a store that answered leaves       *)
(* nothing to send with until the next login, whatever hooks run after it   *)
(* (credentials.rs:342-352).                                                *)
LogoutKept == signed = "told" /\ mixed = {} => store = NoCred /\ file = NoCred /\ cache = 0
=============================================================================
