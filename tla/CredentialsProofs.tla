-------------------------- MODULE CredentialsProofs ---------------------------
(***************************************************************************)
(* Proofs about module Credentials, for any number of hooks and any number *)
(* of credentials issued: its types, that a sign-in is kept, and that a    *)
(* logout which was heard leaves nothing to send with.                     *)
(***************************************************************************)
EXTENDS Credentials, TLAPS

\* The backend takes c.
Taken(c) == c # NoCred /\ c.refresh \in honoured

\* c was issued.
Known(c) == c # NoCred => c.access <= issued /\ c.refresh <= issued

\* c does not have d's refresh token.
Apart(c, d) == c = NoCred \/ c.refresh # d.refresh

(* What TypeOK needs to be inductive: nothing is held that was not issued,  *)
(* and a file is moved, or read to be moved, only into a store.             *)
TypeInv == /\ TypeOK
           /\ Known(store) /\ Known(file)
           /\ \A p \in Proc : Known(mem[p]) /\ Known(held[p])
           /\ \A p \in Proc : pc[p] \in {"file", "move"} => hasStore

(* What was got from the backend and not written yet is taken by it, and,   *)
(* when refresh tokens rotate, nobody else has it.                          *)
NewInv == \A p \in Proc :
  pc[p] = "set" =>
    /\ mem[p].refresh \in honoured
    /\ Rotates => /\ Apart(store, mem[p]) /\ Apart(file, mem[p])
                  /\ \A q \in Proc : /\ Apart(held[q], mem[p])
                                     /\ q # p => Apart(mem[q], mem[p])

\* The places of the developer's process in a logout.
InLogout == pc[User] \in {"delete", "unlink", "read", "file", "move", "listed"}

\* p is about to write a credential that the backend takes.
Writes(p) == pc[p] \in {"set", "keep"} /\ Taken(mem[p])

(* What LoginKept needs to be inductive: what is about to be written is     *)
(* newer than what is read meanwhile; and while the store is empty a        *)
(* renewed credential that goes to the file finds a newer one there or on   *)
(* its way.                                                                 *)
LoginInv ==
  /\ InLogout => signed = "away"
  /\ signed = "in" =>
       \/ Taken(Stored)
       \/ \E p \in Proc : Writes(p) /\ (Stored # NoCred => mem[p].access > Stored.access)
  /\ signed = "in" /\ store = NoCred =>
       \A q \in Proc : pc[q] = "keep" /\ ~Taken(mem[q]) =>
         \/ file # NoCred /\ file.access > mem[q].access
         \/ \E p \in Proc : Writes(p) /\ mem[p].access > mem[q].access

\* There is no credential to be read.
Empty == store = NoCred /\ file = NoCred /\ cache = 0

(* What LogoutKept needs to be inductive: while a logout that met no hook   *)
(* and a store that answers is under way no hook runs, the places are empty *)
(* from the last removal on, and hooks that begin later come by nothing.    *)
LogoutInv ==
  /\ \A p \in Proc : pc[p] = "idle" => mem[p] = NoCred /\ held[p] = NoCred
  /\ pc[User] \in {"delete", "unlink"} => held[User] = NoCred
  /\ InLogout /\ mixed = {} => \A h \in Hook : pc[h] = "idle"
  /\ pc[User] = "unlink" /\ mixed = {} => store = NoCred
  /\ pc[User] \in {"read", "file", "move", "listed"} /\ mixed = {} =>
       Empty /\ held[User] = NoCred
  /\ signed = "told" =>
       /\ pc[User] = "idle"
       /\ mixed = {} => /\ Empty
                        /\ \A h \in Hook : /\ pc[h] \in {"idle", "cache", "read", "file"}
                                           /\ mem[h] = NoCred /\ held[h] = NoCred
-----------------------------------------------------------------------------
(* Types                                                                   *)

(* A credential has a refresh token, what is cached has none, and neither   *)
(* is NoCred.                                                               *)
LEMMA Credential ==
  /\ \A c \in Cred : /\ c # NoCred /\ c.access \in Serial /\ c.refresh \in Serial
                     /\ c.refresh # 0
  /\ \A c \in Cached : c # NoCred /\ c.access \in Serial /\ c.refresh = 0
  /\ \A n \in Serial : n \in Nat /\ n > 0 /\ n <= MaxIssued
  /\ \A n, m \in Serial : [access |-> n, refresh |-> m] \in Cred
  /\ \A n \in Serial : [access |-> n, refresh |-> 0] \in Cached
  BY CredentialAssumption DEF Cred, Cached, Serial

LEMMA InitType == Init => TypeInv
<1> SUFFICES ASSUME Init PROVE TypeInv
  OBVIOUS
<1>1. PICK c \in {NoCred, [access |-> 1, refresh |-> 1]} :
        /\ \/ store = c /\ file = NoCred /\ hasStore
           \/ store = NoCred /\ file = c
        /\ issued = IF c = NoCred THEN 0 ELSE 1
        /\ honoured = {1} \cap {issued}
        /\ cache \in {0, issued}
        /\ signed = IF c = NoCred THEN "away" ELSE "in"
  BY DEF Init
<1>2. 1 \in Serial /\ 1 <= MaxIssued
  BY CredentialAssumption DEF Serial
<1>3. c # NoCred => c \in Cred /\ c.access = 1 /\ c.refresh = 1
  BY <1>2, Credential
<1>4. TypeOK
  BY <1>1, <1>2, <1>3, CredentialAssumption DEF Init, TypeOK, Places
<1>5. QED
  BY <1>1, <1>3, <1>4 DEF Init, TypeInv, Known

(* No process of the developer is a hook.                                   *)
LEMMA UserIsNoHook == User \in Proc /\ User \notin Hook /\ Hook \subseteq Proc
  BY CredentialAssumption DEF Proc

(* A renewal issues the next number, and the backend honours nothing else   *)
(* that it did not honour before.                                           *)
LEMMA RenewStep ==
  ASSUME TypeInv, NEW c \in Cred, Renew(c)
  PROVE  /\ issued' = issued + 1 /\ issued' \in Serial /\ issued \in Nat
         /\ honoured' \subseteq 1 .. issued'
         /\ c.refresh \in 1 .. issued
         /\ Renewed(c, issued') \in Cred
         /\ Renewed(c, issued').access = issued'
         /\ Renewed(c, issued').refresh \in honoured'
         /\ Renewed(c, issued').refresh <= issued'
         /\ \A d \in Cred \cup Cached :
              Known(d) => d.access <= issued' /\ d.refresh <= issued'
<1>1. issued' = issued + 1 /\ issued' \in Serial /\ issued \in Nat /\ honoured \subseteq 1 .. issued
  BY CredentialAssumption DEF TypeInv, TypeOK, Renew, Issue, Serial
<1>2. c.refresh \in 1 .. issued
  BY <1>1 DEF Renew
<1>3. honoured' \subseteq 1 .. issued'
  <2>1. honoured' \subseteq honoured \cup {issued'}
    BY DEF Renew
  <2>2. \A n \in 1 .. issued : n \in 1 .. issued'
    BY <1>1
  <2>3. issued' \in 1 .. issued'
    BY <1>1
  <2>4. QED
    BY <1>1, <2>1, <2>2, <2>3
<1>4. Renewed(c, issued') \in Cred /\ Renewed(c, issued').access = issued'
  BY <1>1, Credential DEF Renewed
<1>5. Renewed(c, issued').refresh \in honoured'
  BY DEF Renew, Renewed
<1>6. Renewed(c, issued').refresh <= issued'
  <2>1. Renewed(c, issued').refresh \in 1 .. issued'
    BY <1>3, <1>5
  <2>2. QED
    BY <1>1, <2>1
<1>7. ASSUME NEW d \in Cred \cup Cached, Known(d)
      PROVE  d.access <= issued' /\ d.refresh <= issued'
  <2>1. d.access \in Nat /\ d.refresh \in Nat /\ d # NoCred
    BY Credential
  <2>2. QED
    BY <1>1, <1>7, <2>1 DEF Known
<1>8. QED
  BY <1>1, <1>2, <1>3, <1>4, <1>5, <1>6, <1>7

(* Every step keeps the types.                                              *)
LEMMA TypeStep == TypeInv /\ [Next]_vars => TypeInv'
<1> SUFFICES ASSUME TypeInv, [Next]_vars PROVE TypeInv'
  OBVIOUS
<1> USE CredentialAssumption, UserIsNoHook, Credential
        DEF TypeInv, TypeOK, Known, Places, Go, Take, Hold, places, backend, locals, history
<1>1. ASSUME NEW h \in Hook, Begin(h) PROVE TypeInv'
  BY <1>1 DEF Begin
<1>2. ASSUME NEW h \in Hook, UseCached(h) PROVE TypeInv'
  BY <1>2 DEF UseCached, Serial
<1>3. ASSUME NEW h \in Hook, SkipCached(h) \/ Rejected(h) PROVE TypeInv'
  <2>1. CASE SkipCached(h)
    BY <2>1 DEF SkipCached
  <2>2. CASE Rejected(h)
    <3>1. mem[h].refresh # 0 => mem[h] \in Cred
      BY <2>2 DEF Rejected
    <3>2. QED
      BY <2>2, <3>1 DEF Rejected
  <2>3. QED
    BY <1>3, <2>1, <2>2
<1>4. ASSUME NEW h \in Hook, UseFresh(h) PROVE TypeInv'
  BY <1>4 DEF UseFresh
<1>5. ASSUME NEW h \in Hook, Answered(h) PROVE TypeInv'
  BY <1>5 DEF Answered, EndOrNext, End
<1>6. ASSUME NEW h \in Hook, Exchange(h) PROVE TypeInv'
  <2>1. mem[h] \in Cred /\ Renew(mem[h])
    BY <1>6 DEF Exchange
  <2> DEFINE new == Renewed(mem[h], issued')
  <2>2. /\ issued' = issued + 1 /\ issued' \in Serial /\ honoured' \subseteq 1 .. issued'
        /\ new \in Cred /\ new.access = issued' /\ new.refresh <= issued'
        /\ \A c \in Cred \cup Cached : Known(c) => c.access <= issued' /\ c.refresh <= issued'
    BY <2>1, RenewStep
  <2> HIDE DEF new
  <2>3. mem' = [mem EXCEPT ![h] = new] /\ pc' = [pc EXCEPT ![h] = "set"]
        /\ UNCHANGED <<places, held, history>>
    BY <1>6 DEF Exchange, new
  <2>4. TypeOK'
    BY <2>2, <2>3, RenewStep, <2>1
  <2>5. QED
    BY <2>2, <2>3, <2>4
<1>7. ASSUME NEW h \in Hook, AnswerIsLost(h) PROVE TypeInv'
  <2>1. mem[h] \in Cred /\ Renew(mem[h])
    BY <1>7 DEF AnswerIsLost, EndOrNext, End
  <2>2. /\ issued' = issued + 1 /\ issued' \in Serial /\ honoured' \subseteq 1 .. issued'
        /\ \A c \in Cred \cup Cached : Known(c) => c.access <= issued' /\ c.refresh <= issued'
    BY <2>1, RenewStep
  <2>3. mem' = [mem EXCEPT ![h] = NoCred] /\ held' \in {held, [held EXCEPT ![h] = NoCred]}
        /\ pc' \in {[pc EXCEPT ![h] = "idle"], [pc EXCEPT ![h] = "cache"]}
        /\ signed' \in {signed, "lost"} /\ UNCHANGED <<places, mixed>>
    BY <1>7 DEF AnswerIsLost, EndOrNext, End, Loses
  <2>4. QED
    BY <2>2, <2>3
<1>8. ASSUME NEW p \in Proc, NEW from, GiveUp(p, from) PROVE TypeInv'
  BY <1>8 DEF GiveUp, EndOrNext, End
<1>9. ASSUME NEW p \in Proc, ReadHeld(p) PROVE TypeInv'
  BY <1>9 DEF ReadHeld, Return, ReadFor
<1>10. ASSUME NEW p \in Proc, ReadStore(p) PROVE TypeInv'
  BY <1>10 DEF ReadStore, Return, ReadFor
<1>11. ASSUME NEW p \in Proc, LookForFile(p) PROVE TypeInv'
  BY <1>11 DEF LookForFile
<1>12. ASSUME NEW p \in Proc, ReadFile(p) \/ ReadAlone(p) PROVE TypeInv'
  <2>1. CASE ReadFile(p)
    BY <2>1 DEF ReadFile
  <2>2. CASE ReadAlone(p)
    BY <2>2 DEF ReadAlone, Return, ReadFor
  <2>3. QED
    BY <1>12, <2>1, <2>2
<1>13. ASSUME NEW p \in Proc, Move(p) \/ MoveTimesOut(p) PROVE TypeInv'
  <2>1. CASE Move(p)
    BY <2>1 DEF Move, Return, ReadFor, Loses
  <2>2. CASE MoveTimesOut(p)
    BY <2>2 DEF MoveTimesOut, Return, ReadFor, Loses
  <2>3. QED
    BY <1>13, <2>1, <2>2
<1>14. ASSUME NEW p \in Proc, SetStore(p) \/ SetFails(p) PROVE TypeInv'
  <2>1. CASE SetStore(p)
    BY <2>1 DEF SetStore
  <2>2. CASE SetFails(p)
    BY <2>2 DEF SetFails
  <2>3. QED
    BY <1>14, <2>1, <2>2
<1>15. ASSUME NEW p \in Proc, Settle(p) \/ Keep(p) PROVE TypeInv'
  <2>1. CASE Settle(p)
    BY <2>1 DEF Settle, Written, End, Loses
  <2>2. CASE Keep(p)
    BY <2>2 DEF Keep, Written, End, Loses
  <2>3. QED
    BY <1>15, <2>1, <2>2
<1>16. ASSUME NEW p \in Proc, Kill(p) PROVE TypeInv'
  BY <1>16 DEF Kill, End, Loses
<1>17. CASE Login
  BY <1>17 DEF Login, Issue, Serial
<1>18. CASE Logout \/ Delete \/ Unlink \/ StillConnected
  <2>1. CASE Logout
    BY <2>1 DEF Logout
  <2>2. CASE Delete
    BY <2>2 DEF Delete
  <2>3. CASE Unlink
    BY <2>3 DEF Unlink
  <2>4. CASE StillConnected
    BY <2>4 DEF StillConnected, End
  <2>5. QED
    BY <1>18, <2>1, <2>2, <2>3, <2>4
<1>19. CASE UNCHANGED vars
  BY <1>19 DEF vars
<1>20. QED
  BY <1>1, <1>2, <1>3, <1>4, <1>5, <1>6, <1>7, <1>8, <1>9, <1>10, <1>11, <1>12, <1>13,
     <1>14, <1>15, <1>16, <1>17, <1>18, <1>19
     DEF Next, Read, Write, StoreIsSilent, FindNoFile, ExchangeFails

(* THEOREM: the types, and that what is written or exchanged has its refresh *)
(* token.                                                                   *)
THEOREM CredentialTypes == Spec => []TypeOK
<1>1. Spec => []TypeInv
  BY InitType, TypeStep, PTL DEF Spec
<1>2. TypeInv => TypeOK
  BY DEF TypeInv
<1>3. QED
  BY <1>1, <1>2, PTL
-----------------------------------------------------------------------------
(* What was got and not written yet                                        *)

(* Every step keeps NewInv.                                                 *)
LEMMA NewStep == TypeInv /\ NewInv /\ [Next]_vars => NewInv'
<1> SUFFICES ASSUME TypeInv, NewInv, [Next]_vars PROVE NewInv'
  OBVIOUS
<1> USE UserIsNoHook, Credential
        DEF TypeInv, TypeOK, NewInv, Apart, Go, Take, Hold, places, backend, locals, history
<1>1. ASSUME NEW h \in Hook, Begin(h) \/ SkipCached(h) PROVE NewInv'
  BY <1>1 DEF Begin, SkipCached
<1>2. ASSUME NEW h \in Hook, UseCached(h) PROVE NewInv'
  BY <1>2 DEF UseCached
<1>3. ASSUME NEW h \in Hook, Rejected(h) PROVE NewInv'
  BY <1>3 DEF Rejected
<1>4. ASSUME NEW h \in Hook, UseFresh(h) PROVE NewInv'
  BY <1>4 DEF UseFresh
<1>5. ASSUME NEW h \in Hook, Answered(h) PROVE NewInv'
  BY <1>5 DEF Answered, EndOrNext, End
<1>6. ASSUME NEW h \in Hook, Exchange(h) PROVE NewInv'
  <2>1. mem[h] \in Cred /\ Renew(mem[h])
    BY <1>6 DEF Exchange
  <2> DEFINE new == Renewed(mem[h], issued')
  <2>2. /\ new \in Cred /\ new.refresh \in honoured'
        /\ Rotates => new.refresh = issued + 1 /\ honoured \ {mem[h].refresh} \subseteq honoured'
        /\ ~Rotates => honoured' = honoured
    BY <2>1, RenewStep DEF Renew, Renewed
  <2>3. mem' = [mem EXCEPT ![h] = new] /\ pc' = [pc EXCEPT ![h] = "set"]
        /\ UNCHANGED <<places, held>>
    BY <1>6 DEF Exchange
  <2>4. \A c \in Cred \cup Cached \cup {NoCred} : Known(c) => c = NoCred \/ c.refresh # issued + 1
    BY DEF Known, Serial
  <2> HIDE DEF new
  <2> SUFFICES ASSUME NEW p \in Proc, pc'[p] = "set"
               PROVE  /\ mem'[p].refresh \in honoured'
                      /\ Rotates => /\ Apart(store', mem'[p]) /\ Apart(file', mem'[p])
                                    /\ \A q \in Proc : /\ Apart(held'[q], mem'[p])
                                                       /\ q # p => Apart(mem'[q], mem'[p])
    OBVIOUS
  <2>5. CASE p = h
    BY <2>2, <2>3, <2>4, <2>5
  <2>6. CASE p # h
    <3>1. pc[p] = "set" /\ mem'[p] = mem[p]
      BY <2>3, <2>6
    <3>2. mem[p].refresh \in honoured'
      BY <2>1, <2>2, <2>6, <3>1
    <3>3. Rotates => Apart(new, mem[p])
      BY <2>2, <2>4, <3>1
    <3>4. QED
      BY <2>3, <3>1, <3>2, <3>3
  <2>7. QED
    BY <2>5, <2>6
<1>7. ASSUME NEW h \in Hook, AnswerIsLost(h) PROVE NewInv'
  <2>1. mem[h] \in Cred /\ Renew(mem[h]) /\ pc[h] # "set"
    BY <1>7 DEF AnswerIsLost, EndOrNext, End
  <2>2. \A p \in Proc : pc[p] = "set" => mem[p].refresh \in honoured'
    BY <2>1 DEF Renew
  <2>3. mem' = [mem EXCEPT ![h] = NoCred] /\ held' \in {held, [held EXCEPT ![h] = NoCred]}
        /\ pc' \in {[pc EXCEPT ![h] = "idle"], [pc EXCEPT ![h] = "cache"]}
        /\ UNCHANGED places
    BY <1>7 DEF AnswerIsLost, EndOrNext, End
  <2>4. QED
    BY <2>2, <2>3
<1>8. ASSUME NEW p \in Proc, NEW from, GiveUp(p, from) PROVE NewInv'
  BY <1>8 DEF GiveUp, EndOrNext, End
<1>9. ASSUME NEW p \in Proc, ReadHeld(p) PROVE NewInv'
  BY <1>9 DEF ReadHeld, Return, ReadFor
<1>10. ASSUME NEW p \in Proc, ReadStore(p) PROVE NewInv'
  BY <1>10 DEF ReadStore, Return, ReadFor
<1>11. ASSUME NEW p \in Proc, LookForFile(p) PROVE NewInv'
  BY <1>11 DEF LookForFile
<1>12. ASSUME NEW p \in Proc, ReadFile(p) \/ ReadAlone(p) PROVE NewInv'
  BY <1>12 DEF ReadFile, ReadAlone, Return, ReadFor
<1>13. ASSUME NEW p \in Proc, Move(p) \/ MoveTimesOut(p) PROVE NewInv'
  <2>1. CASE Move(p)
    BY <2>1 DEF Move, Return, ReadFor
  <2>2. CASE MoveTimesOut(p)
    BY <2>2 DEF MoveTimesOut, Return, ReadFor
  <2>3. QED
    BY <1>13, <2>1, <2>2
<1>14. ASSUME NEW p \in Proc, SetStore(p) \/ SetFails(p) PROVE NewInv'
  <2>1. CASE SetStore(p)
    BY <2>1 DEF SetStore
  <2>2. CASE SetFails(p)
    BY <2>2 DEF SetFails
  <2>3. QED
    BY <1>14, <2>1, <2>2
<1>15. ASSUME NEW p \in Proc, Settle(p) \/ Keep(p) PROVE NewInv'
  <2>1. CASE Settle(p)
    BY <2>1 DEF Settle, Written, End
  <2>2. CASE Keep(p)
    BY <2>2 DEF Keep, Written, End
  <2>3. QED
    BY <1>15, <2>1, <2>2
<1>16. ASSUME NEW p \in Proc, Kill(p) PROVE NewInv'
  BY <1>16 DEF Kill, End
<1>17. CASE Login
  <2> DEFINE new == [access |-> issued + 1, refresh |-> issued + 1]
  <2>1. /\ issued + 1 \in Serial /\ new \in Cred
        /\ honoured' = honoured \cup {issued + 1}
        /\ mem' = [mem EXCEPT ![User] = new] /\ pc' = [pc EXCEPT ![User] = "set"]
        /\ UNCHANGED <<places, held>>
    <3>1. issued + 1 \in Serial
      BY <1>17, CredentialAssumption DEF Login, Issue, Serial
    <3>2. new \in Cred
      BY <3>1
    <3>3. QED
      BY <1>17, <3>1, <3>2 DEF Login, Issue
  <2>2. \A c \in Cred \cup Cached \cup {NoCred} : Known(c) => c = NoCred \/ c.refresh # issued + 1
    BY DEF Known, Serial
  <2>3. new.refresh = issued + 1
    OBVIOUS
  <2> HIDE DEF new
  <2> SUFFICES ASSUME NEW p \in Proc, pc'[p] = "set"
               PROVE  /\ mem'[p].refresh \in honoured'
                      /\ Rotates => /\ Apart(store', mem'[p]) /\ Apart(file', mem'[p])
                                    /\ \A q \in Proc : /\ Apart(held'[q], mem'[p])
                                                       /\ q # p => Apart(mem'[q], mem'[p])
    OBVIOUS
  <2>4. CASE p = User
    BY <2>1, <2>2, <2>4, <2>3
  <2>5. CASE p # User
    BY <2>1, <2>2, <2>5, <2>3
  <2>6. QED
    BY <2>4, <2>5
<1>18. CASE Logout \/ Delete \/ Unlink \/ StillConnected
  BY <1>18 DEF Logout, Delete, Unlink, StillConnected, End
<1>19. CASE UNCHANGED vars
  BY <1>19 DEF vars
<1>20. QED
  BY <1>1, <1>2, <1>3, <1>4, <1>5, <1>6, <1>7, <1>8, <1>9, <1>10, <1>11, <1>12, <1>13,
     <1>14, <1>15, <1>16, <1>17, <1>18, <1>19
     DEF Next, Read, Write, StoreIsSilent, FindNoFile, ExchangeFails
-----------------------------------------------------------------------------
(* A sign-in is kept                                                       *)

LEMMA InitLogin == Init => LoginInv
<1> SUFFICES ASSUME Init PROVE LoginInv
  OBVIOUS
<1>1. pc = [p \in Proc |-> "idle"] /\ signed \in {"in", "away"}
  BY DEF Init
<1>2. ASSUME signed = "in" PROVE Taken(Stored)
  <2>1. PICK c \in {NoCred, [access |-> 1, refresh |-> 1]} :
          /\ \/ store = c /\ file = NoCred /\ hasStore
             \/ store = NoCred /\ file = c
          /\ issued = IF c = NoCred THEN 0 ELSE 1
          /\ honoured = {1} \cap {issued}
          /\ signed = IF c = NoCred THEN "away" ELSE "in"
    BY DEF Init
  <2>2. c = [access |-> 1, refresh |-> 1] /\ c # NoCred
    BY <1>2, <2>1
  <2>3. c.refresh \in honoured
    BY <2>1, <2>2
  <2>4. QED
    BY <2>1, <2>2, <2>3 DEF Taken, Stored
<1>3. QED
  BY <1>1, <1>2, UserIsNoHook DEF LoginInv, InLogout

(* Every step keeps LoginInv.                                               *)
LEMMA LoginStep == TypeInv /\ NewInv /\ LoginInv /\ [Next]_vars => LoginInv'
<1> SUFFICES ASSUME TypeInv, NewInv, LoginInv, [Next]_vars PROVE LoginInv'
  OBVIOUS
<1> USE UserIsNoHook, Credential
        DEF TypeInv, TypeOK, LoginInv, InLogout, Taken, Writes, Stored, Go, Take, Hold,
            places, backend, locals, history
<1>1. ASSUME NEW h \in Hook, Begin(h) \/ SkipCached(h) PROVE LoginInv'
  BY <1>1 DEF Begin, SkipCached
<1>2. ASSUME NEW h \in Hook, UseCached(h) PROVE LoginInv'
  BY <1>2 DEF UseCached
<1>3. ASSUME NEW h \in Hook, Rejected(h) PROVE LoginInv'
  BY <1>3 DEF Rejected
<1>4. ASSUME NEW h \in Hook, UseFresh(h) PROVE LoginInv'
  BY <1>4 DEF UseFresh
<1>5. ASSUME NEW h \in Hook, Answered(h) PROVE LoginInv'
  BY <1>5 DEF Answered, EndOrNext, End
<1>6. ASSUME NEW h \in Hook, Exchange(h) PROVE LoginInv'
  <2>1. mem[h] \in Cred /\ Renew(mem[h])
    BY <1>6 DEF Exchange
  <2> DEFINE new == Renewed(mem[h], issued')
  <2>2. new \in Cred /\ new.access = issued + 1 /\ new.refresh \in honoured'
    BY <2>1, RenewStep
  <2>3. mem' = [mem EXCEPT ![h] = new] /\ pc' = [pc EXCEPT ![h] = "set"]
        /\ UNCHANGED <<places, held, history>>
    BY <1>6 DEF Exchange
  <2>4. \A c \in Cred \cup Cached : Known(c) => issued + 1 > c.access
    BY DEF Known, Serial
  <2> HIDE DEF new
  <2>5. Writes(h)' /\ mem'[h].access = issued + 1
    BY <2>2, <2>3
  <2>6. QED
    BY <2>3, <2>4, <2>5
<1>7. ASSUME NEW h \in Hook, AnswerIsLost(h) PROVE LoginInv'
  <2>1. mem' = [mem EXCEPT ![h] = NoCred] /\ pc[h] = "exchange"
        /\ pc' \in {[pc EXCEPT ![h] = "idle"], [pc EXCEPT ![h] = "cache"]}
        /\ UNCHANGED places
    BY <1>7 DEF AnswerIsLost, EndOrNext, End
  <2>2. CASE Rotates
    BY <1>7, <2>1, <2>2 DEF AnswerIsLost, Loses
  <2>3. CASE ~Rotates
    <3>1. honoured' = honoured /\ signed' = signed
      BY <1>7, <2>3 DEF AnswerIsLost, Renew, Loses
    <3>2. QED
      BY <2>1, <3>1
  <2>4. QED
    BY <2>2, <2>3
<1>8. ASSUME NEW p \in Proc, NEW from \in {"read", "file", "exchange"}, GiveUp(p, from)
      PROVE LoginInv'
  BY <1>8 DEF GiveUp, EndOrNext, End
<1>9. ASSUME NEW p \in Proc, ReadHeld(p) PROVE LoginInv'
  BY <1>9 DEF ReadHeld, Return, ReadFor
<1>10. ASSUME NEW p \in Proc, ReadStore(p) PROVE LoginInv'
  BY <1>10 DEF ReadStore, Return, ReadFor
<1>11. ASSUME NEW p \in Proc, LookForFile(p) PROVE LoginInv'
  BY <1>11 DEF LookForFile
<1>12. ASSUME NEW p \in Proc, ReadFile(p) \/ ReadAlone(p) PROVE LoginInv'
  BY <1>12 DEF ReadFile, ReadAlone, Return, ReadFor
<1>13. ASSUME NEW p \in Proc, Move(p) \/ MoveTimesOut(p) PROVE LoginInv'
  <2>1. CASE Move(p)
    BY <2>1 DEF Move, Return, ReadFor, Loses, Revives
  <2>2. CASE MoveTimesOut(p)
    BY <2>2 DEF MoveTimesOut, Return, ReadFor, Loses, Revives
  <2>3. QED
    BY <1>13, <2>1, <2>2
<1>14. ASSUME NEW p \in Proc, SetStore(p) \/ SetFails(p) PROVE LoginInv'
  <2>1. CASE SetStore(p)
    BY <2>1 DEF SetStore, NewInv
  <2>2. CASE SetFails(p)
    BY <2>2 DEF SetFails, NewInv
  <2>3. QED
    BY <1>14, <2>1, <2>2
<1>15. ASSUME NEW p \in Proc, Settle(p) \/ Keep(p) PROVE LoginInv'
  <2>1. CASE Settle(p)
    BY <2>1 DEF Settle, Written, End, Loses, Backwards
  <2>2. CASE Keep(p)
    BY <2>2 DEF Keep, Written, End, Loses, Backwards
  <2>3. QED
    BY <1>15, <2>1, <2>2
<1>16. ASSUME NEW p \in Proc, Kill(p) PROVE LoginInv'
  BY <1>16 DEF Kill, End, Loses
<1>17. CASE Login
  <2> DEFINE new == [access |-> issued + 1, refresh |-> issued + 1]
  <2>1. /\ issued + 1 \in Serial /\ honoured' = honoured \cup {issued + 1}
        /\ mem' = [mem EXCEPT ![User] = new] /\ pc' = [pc EXCEPT ![User] = "set"]
        /\ UNCHANGED places
    BY <1>17, CredentialAssumption DEF Login, Issue, Serial
  <2>2. new # NoCred /\ new.refresh \in honoured' /\ new.access = issued + 1
    BY <2>1
  <2>3. \A c \in Cred \cup Cached : Known(c) => issued + 1 > c.access
    BY DEF Known, Serial
  <2> HIDE DEF new
  <2>4. Writes(User)' /\ mem'[User].access = issued + 1 /\ ~InLogout'
    BY <2>1, <2>2
  <2>5. QED
    BY <2>1, <2>3, <2>4
<1>18. CASE Logout \/ Delete \/ Unlink \/ StillConnected
  BY <1>18 DEF Logout, Delete, Unlink, StillConnected, End
<1>19. CASE UNCHANGED vars
  BY <1>19 DEF vars
<1>20. QED
  BY <1>1, <1>2, <1>3, <1>4, <1>5, <1>6, <1>7, <1>8, <1>9, <1>10, <1>11, <1>12, <1>13,
     <1>14, <1>15, <1>16, <1>17, <1>18, <1>19
     DEF Next, Read, Write, StoreIsSilent, FindNoFile, ExchangeFails

LEMMA LoginInvImplies == LoginInv => LoginKept
  BY DEF LoginInv, LoginKept, Taken, Writes

(* THEOREM: the developer stays signed in, whatever hooks renew the         *)
(* credential at once, wherever they are killed and whichever calls to the  *)
(* store time out, except in the ways the code leaves open.                 *)
THEOREM SignInKept == Spec => []LoginKept
<1>1. Init => TypeInv /\ NewInv /\ LoginInv
  <2>1. Init => NewInv
    BY DEF Init, NewInv
  <2>2. QED
    BY <2>1, InitType, InitLogin
<1>2. TypeInv /\ NewInv /\ LoginInv /\ [Next]_vars => (TypeInv /\ NewInv /\ LoginInv)'
  BY TypeStep, NewStep, LoginStep
<1>3. QED
  BY <1>1, <1>2, LoginInvImplies, PTL DEF Spec
-----------------------------------------------------------------------------
(* A logout leaves nothing                                                 *)

LEMMA InitLogout == Init => LogoutInv
  BY UserIsNoHook DEF Init, LogoutInv, InLogout

(* While something is written there is no logout that met nothing, under    *)
(* way or over.                                                             *)
LEMMA WritingIsMet ==
  ASSUME TypeInv, LogoutInv, NEW p \in Proc, pc[p] \in {"move", "set", "settle", "keep"}
  PROVE  /\ mixed = {} => ~InLogout /\ signed # "told"
         /\ p = User => signed # "told"
<1>1. CASE p = User
  BY <1>1, Credential DEF TypeInv, TypeOK, LogoutInv, InLogout
<1>2. CASE p # User
  BY <1>2 DEF Proc, LogoutInv, InLogout
<1>3. QED
  BY <1>1, <1>2

(* Every step keeps LogoutInv.                                              *)
LEMMA LogoutStep == TypeInv /\ LogoutInv /\ [Next]_vars => LogoutInv'
<1> SUFFICES ASSUME TypeInv, LogoutInv, [Next]_vars PROVE LogoutInv'
  OBVIOUS
<1> USE UserIsNoHook, Credential
        DEF TypeInv, TypeOK, LogoutInv, InLogout, Empty, Go, Take, Hold,
            places, backend, locals, history
<1>1. ASSUME NEW h \in Hook, Begin(h) \/ SkipCached(h) PROVE LogoutInv'
  BY <1>1 DEF Begin, SkipCached
<1>2. ASSUME NEW h \in Hook, UseCached(h) PROVE LogoutInv'
  BY <1>2 DEF UseCached
<1>3. ASSUME NEW h \in Hook, Rejected(h) PROVE LogoutInv'
  BY <1>3 DEF Rejected
<1>4. ASSUME NEW h \in Hook, UseFresh(h) PROVE LogoutInv'
  BY <1>4 DEF UseFresh
<1>5. ASSUME NEW h \in Hook, Answered(h) PROVE LogoutInv'
  BY <1>5 DEF Answered, EndOrNext, End
<1>6. ASSUME NEW h \in Hook, Exchange(h) PROVE LogoutInv'
  BY <1>6 DEF Exchange
<1>7. ASSUME NEW h \in Hook, AnswerIsLost(h) PROVE LogoutInv'
  BY <1>7 DEF AnswerIsLost, EndOrNext, End, Loses
<1>8. ASSUME NEW p \in Proc, GiveUp(p, "read") PROVE LogoutInv'
  BY <1>8 DEF GiveUp, EndOrNext, End
<1>9. ASSUME NEW p \in Proc, GiveUp(p, "file") PROVE LogoutInv'
  BY <1>9 DEF GiveUp, EndOrNext, End
<1>10. ASSUME NEW h \in Hook, GiveUp(h, "exchange") PROVE LogoutInv'
  BY <1>10 DEF GiveUp, EndOrNext, End
<1>11. ASSUME NEW p \in Proc, ReadHeld(p) PROVE LogoutInv'
  BY <1>11 DEF ReadHeld, Return, ReadFor
<1>12. ASSUME NEW p \in Proc, ReadStore(p) PROVE LogoutInv'
  BY <1>12 DEF ReadStore, Return, ReadFor
<1>13. ASSUME NEW p \in Proc, LookForFile(p) PROVE LogoutInv'
  BY <1>13 DEF LookForFile
<1>14. ASSUME NEW p \in Proc, ReadFile(p) \/ ReadAlone(p) PROVE LogoutInv'
  BY <1>14 DEF ReadFile, ReadAlone, Return, ReadFor
<1>15. ASSUME NEW p \in Proc, Move(p) PROVE LogoutInv'
  <2>1. pc[p] = "move" /\ (mixed = {} => ~InLogout /\ signed # "told")
        /\ (p = User => signed # "told")
    BY <1>15, WritingIsMet DEF Move, Return
  <2>2. (signed' = "told" <=> signed = "told") /\ mixed' = mixed
    BY <1>15 DEF Move, Loses
  <2>3. /\ p # User => pc'[User] = pc[User]
        /\ \A q \in Proc : pc'[q] = "idle" => pc[q] = "idle" /\ q # p
        /\ pc'[User] \notin {"delete", "unlink"} \/ p # User
        /\ \A q \in Proc \ {p} : mem'[q] = mem[q] /\ held'[q] = held[q]
    BY <1>15 DEF Move, Return, ReadFor
  <2>4. QED
    BY <2>1, <2>2, <2>3
<1>16. ASSUME NEW p \in Proc, MoveTimesOut(p) PROVE LogoutInv'
  <2>1. pc[p] = "move" /\ (mixed = {} => ~InLogout /\ signed # "told")
        /\ (p = User => signed # "told")
    BY <1>16, WritingIsMet DEF MoveTimesOut, Return
  <2>2. (signed' = "told" <=> signed = "told") /\ mixed' = mixed
    BY <1>16 DEF MoveTimesOut, Loses
  <2>3. /\ p # User => pc'[User] = pc[User]
        /\ \A q \in Proc : pc'[q] = "idle" => pc[q] = "idle" /\ q # p
        /\ pc'[User] \notin {"delete", "unlink"} \/ p # User
        /\ \A q \in Proc \ {p} : mem'[q] = mem[q] /\ held'[q] = held[q]
    BY <1>16 DEF MoveTimesOut, Return, ReadFor
  <2>4. QED
    BY <2>1, <2>2, <2>3
<1>17. ASSUME NEW p \in Proc, SetStore(p) \/ SetFails(p) PROVE LogoutInv'
  <2>1. pc[p] = "set" /\ (mixed = {} => ~InLogout /\ signed # "told")
        /\ (p = User => signed # "told")
    BY <1>17, WritingIsMet DEF SetStore, SetFails
  <2>2. pc' \in {[pc EXCEPT ![p] = "settle"], [pc EXCEPT ![p] = "keep"]}
        /\ held' = [held EXCEPT ![p] = NoCred] /\ UNCHANGED <<mem, history>>
    BY <1>17 DEF SetStore, SetFails
  <2>3. QED
    BY <2>1, <2>2
<1>18. ASSUME NEW p \in Proc, Settle(p) \/ Keep(p) PROVE LogoutInv'
  <2>1. pc[p] \in {"settle", "keep"} /\ (mixed = {} => ~InLogout /\ signed # "told")
        /\ (p = User => signed # "told")
    BY <1>18, WritingIsMet DEF Settle, Keep, Written, End
  <2>2. (signed' = "told" <=> signed = "told") /\ mixed' = mixed
    BY <1>18 DEF Settle, Keep, Loses
  <2>3. \/ /\ p # User /\ pc' = [pc EXCEPT ![p] = "send"] /\ UNCHANGED locals
        \/ /\ pc' = [pc EXCEPT ![p] = "idle"]
           /\ mem' = [mem EXCEPT ![p] = NoCred] /\ held' = [held EXCEPT ![p] = NoCred]
    BY <1>18 DEF Settle, Keep, Written, End
  <2>4. QED
    BY <2>1, <2>2, <2>3
<1>19. ASSUME NEW p \in Proc, Kill(p) PROVE LogoutInv'
  BY <1>19 DEF Kill, End, Loses
<1>20. CASE Login
  BY <1>20 DEF Login
<1>21. CASE Logout
  BY <1>21 DEF Logout
<1>22. CASE Delete
  BY <1>22 DEF Delete
<1>23. CASE Unlink \/ StillConnected
  BY <1>23 DEF Unlink, StillConnected, End
<1>24. CASE UNCHANGED vars
  BY <1>24 DEF vars
<1>25. QED
  BY <1>1, <1>2, <1>3, <1>4, <1>5, <1>6, <1>7, <1>8, <1>9, <1>10, <1>11, <1>12, <1>13,
     <1>14, <1>15, <1>16, <1>17, <1>18, <1>19, <1>20, <1>21, <1>22, <1>23, <1>24
     DEF Next, Read, Write, StoreIsSilent, FindNoFile, ExchangeFails

(* THEOREM: a logout that met no running hook and a store that answered     *)
(* leaves nothing to send with until the next login.                        *)
THEOREM SignedOutKept == Spec => []LogoutKept
<1>1. Init => TypeInv /\ LogoutInv
  BY InitType, InitLogout
<1>2. TypeInv /\ LogoutInv /\ [Next]_vars => (TypeInv /\ LogoutInv)'
  BY TypeStep, LogoutStep
<1>3. LogoutInv => LogoutKept
  BY DEF LogoutInv, LogoutKept, Empty
<1>4. QED
  BY <1>1, <1>2, <1>3, PTL DEF Spec
=============================================================================
