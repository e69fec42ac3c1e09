--------------------------- MODULE HandshakeProofs ----------------------------
(***************************************************************************)
(* Proofs about module Handshake, for any number of hooks, opt-ins, faults *)
(* and failures: its types, that a session runs only as the newest answer  *)
(* allows, and that attempts keep their distance.                          *)
(***************************************************************************)
EXTENDS Handshake, TLAPS

\* No two hooks overlapped, none wrote an old session back, and no attempt outlived
\* the session it began in; and none was ended.
Alone == unruly \cap {"overlap", "late write", "ended"} = {}
Calm  == Alone /\ "cut" \notin unruly

\* A session that may run was allowed to, and there is a bundle.
Lawful(s, version) == ~s.inert => version # 0 /\ s.answer.runs

(* A bundle that a hook goes on with, or a live session runs with, is on    *)
(* disk; a live session, in the file or kept by a handler, was allowed.     *)
BundleInv ==
    /\ \A h \in Hook : mem[h].etag # 0 \/ mem[h].bundle # 0 => bundle # 0
    /\ \A s \in file : Lawful(s, bundle)
    /\ \A h \in Hook : \A s \in mem[h].kept : Lawful(s, bundle)

(* A hook that is idle has nothing in mind; only one that attempts has      *)
(* claimed the retry; and as long as no two overlap, one hook attempts at a *)
(* time, and the retry it claimed is in the file and not due.               *)
OneInv ==
    /\ \A h \in Hook : at[h] \in {"idle", "clear"} => mem[h] = Idle
    /\ \A h \in Hook \ Attempting : ~mem[h].claimed
    /\ Alone => /\ \A g, h \in Attempting : g = h
                /\ \A h \in Hook : mem[h].claimed \/ at[h] = "claim" => file # {}
                /\ \A h \in Hook, s \in file : mem[h].claimed => s.retry # {0}

(* What FailClosed needs to be inductive: as long as no two hooks overlap,  *)
(* what a hook asks with is what is on disk, a hook that asks for a bundle  *)
(* once more does so because there is none, and what it is about to write   *)
(* is the newest answer.                                                    *)
AnswerInv ==
    /\ Alone => \A h \in Hook : /\ at[h] \in {"ask", "again", "askAgain"} => mem[h].etag = bundle
                                /\ at[h] = "refetch" => bundle = 0
                                /\ at[h] \in {"refetch", "finish"} => mem[h].answer = newest
    /\ Calm => \A s \in file : ~s.inert => s.answer = newest \/ \E h \in Hook : at[h] = "finish"

(* What BackoffKept needs to be inductive: the retry in the file, the one   *)
(* before it and the attempts that failed are as far on as the attempts     *)
(* that got no answer.                                                      *)
BackoffInv ==
    Calm => /\ file = {} => quiet = 0 /\ missed = 0
            /\ \A s \in file, m \in 0..10 : s.retry = {m} => quiet <= m /\ missed <= s.failures
            /\ \A h \in Attempting : missed <= mem[h].prior
            /\ \A h \in Hook : at[h] = "claim" => quiet = 0
-----------------------------------------------------------------------------
(* The delays                                                              *)

LEMMA MinOfTwo == ASSUME NEW a \in Nat, NEW b \in Nat
                  PROVE  Min({a, b}) = IF a <= b THEN a ELSE b
<1>1. CASE a <= b
  BY <1>1 DEF Min
<1>2. CASE b <= a
  BY <1>2 DEF Min
<1>3. QED
  BY <1>1, <1>2

LEMMA MaxOfTwo == ASSUME NEW a \in Nat, NEW b \in Nat
                  PROVE  Max({a, b}) = IF a <= b THEN b ELSE a
<1>1. CASE a <= b
  BY <1>1 DEF Max
<1>2. CASE b <= a
  BY <1>2 DEF Max
<1>3. QED
  BY <1>1, <1>2

(* The delay doubles from one minute on and stays at ten.                   *)
LEMMA Delays == ASSUME NEW n \in Nat \ {0}
                PROVE  Delay(n) = IF n >= 5 THEN 10 ELSE <<1, 2, 4, 8>>[n]
<1>1. Delay(n) = Min({2 ^ (IF n - 1 <= 8 THEN n - 1 ELSE 8), 10})
  <2>1. Max({n, 1}) = n
    BY MaxOfTwo
  <2>2. Min({n - 1, 8}) = IF n - 1 <= 8 THEN n - 1 ELSE 8
    BY MinOfTwo
  <2>3. QED
    BY <2>1, <2>2 DEF Delay
<1>2. CASE n <= 5
  <2>1. 2 ^ 0 = 1 /\ 2 ^ 1 = 2 /\ 2 ^ 2 = 4 /\ 2 ^ 3 = 8 /\ 2 ^ 4 = 16
    OBVIOUS
  <2>2. n \in {1, 2, 3, 4, 5}
    BY <1>2
  <2>3. CASE n = 1
    BY <1>1, <2>1, <2>3, MinOfTwo
  <2>4. CASE n = 2
    BY <1>1, <2>1, <2>4, MinOfTwo
  <2>5. CASE n = 3
    BY <1>1, <2>1, <2>5, MinOfTwo
  <2>6. CASE n = 4
    BY <1>1, <2>1, <2>6, MinOfTwo
  <2>7. CASE n = 5
    BY <1>1, <2>1, <2>7, MinOfTwo
  <2>8. QED
    BY <2>2, <2>3, <2>4, <2>5, <2>6, <2>7
<1>3. CASE n > 5
  <2>1. 2 ^ 5 = 32 /\ 2 ^ 6 = 64 /\ 2 ^ 7 = 128 /\ 2 ^ 8 = 256
    OBVIOUS
  <2> DEFINE k == IF n - 1 <= 8 THEN n - 1 ELSE 8
  <2>2. k \in {5, 6, 7, 8} /\ Delay(n) = Min({2 ^ k, 10})
    BY <1>1, <1>3
  <2> HIDE DEF k
  <2>3. 2 ^ k \in {32, 64, 128, 256}
    <3>1. CASE k = 5
      BY <2>1, <3>1
    <3>2. CASE k = 6
      BY <2>1, <3>2
    <3>3. CASE k = 7
      BY <2>1, <3>3
    <3>4. CASE k = 8
      BY <2>1, <3>4
    <3>5. QED
      BY <2>2, <3>1, <3>2, <3>3, <3>4
  <2>4. 2 ^ k \in Nat /\ 2 ^ k > 10
    BY <2>3
  <2>5. Min({2 ^ k, 10}) = 10
    BY <2>4, MinOfTwo
  <2>6. QED
    BY <1>3, <2>2, <2>5
<1>4. QED
  BY <1>2, <1>3

LEMMA DelayIsShort == ASSUME NEW n \in Nat \ {0} PROVE Delay(n) \in 1..10
<1>1. n < 5 => n \in {1, 2, 3, 4}
  OBVIOUS
<1>2. QED
  BY <1>1, Delays

(* It never becomes shorter.                                                *)
LEMMA DelayGrows == ASSUME NEW a \in Nat \ {0}, NEW b \in Nat \ {0}, a <= b
                    PROVE  Delay(a) <= Delay(b)
<1>1. CASE b >= 5
  BY <1>1, Delays, DelayIsShort
<1>2. CASE b < 5
  <2>1. b \in {1, 2, 3, 4} /\ a \in {1, 2, 3, 4}
    BY <1>2
  <2>2. Delay(a) = <<1, 2, 4, 8>>[a] /\ Delay(b) = <<1, 2, 4, 8>>[b]
    BY <2>1, Delays
  <2>3. QED
    BY <2>1, <2>2
<1>3. QED
  BY <1>1, <1>2

(* The minutes that attempts without an answer call for are those of the    *)
(* delay.                                                                   *)
LEMMA MissedStep ==
  ASSUME missed \in 0..MaxFailures, Missed
  PROVE  /\ missed' \in 0..MaxFailures
         /\ missed' = IF missed < MaxFailures THEN missed + 1 ELSE MaxFailures
         /\ quiet' = Delay(missed + 1) /\ quiet' \in 1..10
<1>1. missed \in Nat /\ MaxFailures \in Nat /\ MaxFailures >= 5
  BY HandshakeAssumption
<1>2. Min({missed + 1, MaxFailures}) = IF missed < MaxFailures THEN missed + 1 ELSE MaxFailures
  BY <1>1, MinOfTwo
<1>3. Min({missed + 1, 5}) = IF missed + 1 <= 5 THEN missed + 1 ELSE 5
  BY <1>1, MinOfTwo
<1>4. quiet' = Delay(missed + 1)
  <2>1. CASE missed + 1 >= 5
    BY <1>1, <1>3, <2>1, Delays DEF Missed
  <2>2. CASE missed + 1 < 5
    <3>1. missed + 1 \in {1, 2, 3, 4}
      BY <1>1, <2>2
    <3>2. QED
      BY <1>3, <3>1, Delays DEF Missed
  <2>3. QED
    BY <1>1, <2>1, <2>2
<1>5. quiet' \in 1..10
  BY <1>1, <1>4, DelayIsShort
<1>6. QED
  BY <1>1, <1>2, <1>4, <1>5 DEF Missed
-----------------------------------------------------------------------------
(* Types                                                                   *)

LEMMA StateType ==
  ASSUME NEW inert \in BOOLEAN, NEW retry \in Retry, NEW n \in 0..MaxFailures, NEW a \in Answer
  PROVE  State(inert, retry, n, a) \in FileState
  BY DEF State, FileState

LEMMA RetryType == ASSUME NEW n \in Nat \ {0}
                   PROVE  {Delay(n)} \in Retry /\ {} \in Retry
  BY DelayIsShort DEF Retry

(* At most one state is in the file.                                        *)
LEMMA FilesType ==
  /\ {} \in Files
  /\ \A s \in FileState : {s} \in Files
  /\ \A f \in Files : \A s \in f : s \in FileState /\ f = {s}
  BY DEF Files

LEMMA MindType ==
  /\ Idle \in Mind /\ [Idle EXCEPT !.start = TRUE] \in Mind
  /\ \A m \in Mind : m.prior \in 0..MaxFailures /\ m.etag \in 0..2 /\ m.bundle \in 0..2 /\ m.answer \in Answer
                    /\ m.kept \in Files
  /\ \A m \in Mind, f \in Files : [m EXCEPT !.kept = f] \in Mind
  /\ \A m \in Mind, e \in 0..2 : [m EXCEPT !.etag = e] \in Mind
  /\ \A m \in Mind, a \in Answer, b \in 0..2 : [m EXCEPT !.answer = a, !.bundle = b] \in Mind
  /\ \A m \in Mind, a \in Answer : [m EXCEPT !.claimed = TRUE, !.answer = a] \in Mind
  /\ \A n \in 0..MaxFailures, a \in Answer : [Idle EXCEPT !.prior = n, !.answer = a] \in Mind
<1>1. Idle \in Mind /\ [Idle EXCEPT !.start = TRUE] \in Mind
  <2>1. 0 \in 0..MaxFailures /\ Silence \in Answer
    BY HandshakeAssumption DEF Silence, Answer
  <2>2. Idle \in Mind
    BY <2>1, FilesType DEF Idle, Mind
  <2>3. QED
    BY <2>2 DEF Mind
<1>2. \A m \in Mind : m.prior \in 0..MaxFailures /\ m.etag \in 0..2 /\ m.bundle \in 0..2 /\ m.answer \in Answer
                  /\ m.kept \in Files
  BY DEF Mind
<1>8. \A m \in Mind, f \in Files : [m EXCEPT !.kept = f] \in Mind
  BY DEF Mind
<1>3. \A m \in Mind, e \in 0..2 : [m EXCEPT !.etag = e] \in Mind
  BY DEF Mind
<1>4. \A m \in Mind, a \in Answer, b \in 0..2 : [m EXCEPT !.answer = a, !.bundle = b] \in Mind
  BY DEF Mind
<1>5. \A m \in Mind, a \in Answer : [m EXCEPT !.claimed = TRUE, !.answer = a] \in Mind
  BY DEF Mind
<1>6. \A n \in 0..MaxFailures, a \in Answer : [Idle EXCEPT !.prior = n, !.answer = a] \in Mind
  BY <1>1 DEF Mind
<1>7. QED
  BY <1>1, <1>2, <1>3, <1>4, <1>5, <1>6, <1>8

(* Answers, and the state of a session that must not run.                   *)
LEMMA AnswerType ==
  /\ Silence \in Answer
  /\ TypeOK => Told \in Answer
  /\ State(TRUE, {}, 0, Silence) \in FileState
  /\ \A inert \in BOOLEAN, a \in Answer : State(inert, {}, 0, a) \in FileState
<1>1. Silence \in Answer
  BY DEF Silence, Answer
<1>2. TypeOK => Told \in Answer
  BY DEF TypeOK, Policy, Told, Answer
<1>3. {} \in Retry /\ 0 \in 0..MaxFailures
  BY HandshakeAssumption DEF Retry
<1>4. \A inert \in BOOLEAN, a \in Answer : State(inert, {}, 0, a) \in FileState
  BY <1>3 DEF State, FileState
<1>5. QED
  BY <1>1, <1>2, <1>4

LEMMA InitType == Init => TypeOK
<1> SUFFICES ASSUME Init PROVE TypeOK
  OBVIOUS
<1>1. file \in Files
  BY FilesType DEF Init
<1>2. [ok |-> TRUE, retry |-> {}] \in Result
  BY DEF Retry, Result
<1>3. policy \in Policy /\ at \in [Hook -> Places] /\ mem \in [Hook -> Mind]
  <2>1. [runs |-> TRUE, version |-> 1, optIns |-> {}] \in Policy
    BY DEF Policy
  <2>2. "idle" \in Places
    BY DEF Places
  <2>3. QED
    BY <2>1, <2>2, MindType DEF Init
<1>4. changes \in 0..MaxChanges /\ faults \in 0..MaxFaults /\ missed \in 0..MaxFailures
  BY HandshakeAssumption DEF Init
<1>5. QED
  BY <1>1, <1>2, <1>3, <1>4, AnswerType DEF Init, TypeOK

(* A hook that ends and leaves a state is idle with nothing in mind.        *)
LEMMA FinishType ==
  ASSUME TypeOK, NEW h \in Hook, NEW s \in FileState, Finish(h, s)
  PROVE  /\ file' \in Files
         /\ at' = [at EXCEPT ![h] = "idle"] /\ mem' = [mem EXCEPT ![h] = Idle]
         /\ Idle \in Mind
  BY MindType, FilesType DEF Finish, Set

(* What a failure leaves.                                                   *)
LEMMA FailedType ==
  ASSUME TypeOK, NEW h \in Hook, NEW retryable \in BOOLEAN, Failed(h, retryable)
  PROVE  \E n \in 1..MaxFailures, r \in Retry :
           /\ n = IF mem[h].prior < MaxFailures THEN mem[h].prior + 1 ELSE MaxFailures
           /\ r = IF retryable THEN {Delay(n)} ELSE {}
           /\ State(TRUE, r, n, Silence) \in FileState
           /\ Finish(h, State(TRUE, r, n, Silence))
           /\ last' = [ok |-> FALSE, retry |-> r]
           /\ UNCHANGED <<bundle, flags>>
<1> DEFINE n == Min({mem[h].prior + 1, MaxFailures})
           r == IF retryable THEN {Delay(n)} ELSE {}
<1>1. mem[h].prior \in Nat /\ mem[h].prior <= MaxFailures /\ MaxFailures \in Nat /\ MaxFailures >= 5
  <2>1. mem[h] \in Mind
    BY DEF TypeOK, Mind
  <2>2. QED
    BY <2>1, HandshakeAssumption DEF Mind
<1>2. n = (IF mem[h].prior < MaxFailures THEN mem[h].prior + 1 ELSE MaxFailures) /\ n \in 1..MaxFailures
  BY <1>1, MinOfTwo
<1>3. /\ Finish(h, State(TRUE, r, n, Silence)) /\ last' = [ok |-> FALSE, retry |-> r]
      /\ UNCHANGED <<bundle, flags>>
  BY DEF Failed
<1> HIDE DEF n
<1>4. r \in Retry /\ Silence \in Answer /\ n \in 0..MaxFailures
  <2>1. n \in Nat \ {0} /\ n \in 0..MaxFailures
    BY <1>1, <1>2
  <2>2. Silence \in Answer
    BY DEF Silence, Answer
  <2>3. r \in Retry
    BY <2>1, RetryType
  <2>4. QED
    BY <2>1, <2>2, <2>3
<1> HIDE DEF r
<1>5. State(TRUE, r, n, Silence) \in FileState
  BY <1>1, <1>2, <1>4, StateType
<1>6. r = IF retryable THEN {Delay(n)} ELSE {}
  BY DEF r
<1>7. QED
  BY <1>2, <1>3, <1>4, <1>5, <1>6

(* Every step keeps the types.                                              *)
LEMMA TypeStep == TypeOK /\ [Next]_vars => TypeOK'
<1> SUFFICES ASSUME TypeOK, [Next]_vars PROVE TypeOK'
  OBVIOUS
<1>a. MaxFailures \in Nat /\ MaxFailures >= 5 /\ MaxFaults \in Nat /\ 0 \in 0..MaxFailures
  BY HandshakeAssumption
<1>b. [ok |-> TRUE, retry |-> {}] \in Result
  BY DEF Retry, Result
<1>1. ASSUME NEW h \in Hook, FireStart(h) PROVE TypeOK'
  BY <1>1, <1>a, MindType DEF TypeOK, FireStart, Go, Set, backend, disk, Places
<1>2. ASSUME NEW h \in Hook, FindNoSession(h) PROVE TypeOK'
  BY <1>2 DEF TypeOK, FindNoSession, Together, Go, backend, disk, Places
<1>3. ASSUME NEW h \in Hook, FindDue(h) PROVE TypeOK'
  <2>1. PICK s \in FileState : mem' = [mem EXCEPT ![h] = [Idle EXCEPT !.prior = s.failures, !.answer = s.answer]]
    BY <1>3, FilesType DEF TypeOK, FindDue, Set
  <2>2. [Idle EXCEPT !.prior = s.failures, !.answer = s.answer] \in Mind
    BY MindType DEF FileState
  <2>3. QED
    BY <1>3, <2>1, <2>2 DEF TypeOK, FindDue, Together, Go, backend, disk, Places
<1>4. ASSUME NEW h \in Hook, Claim(h) PROVE TypeOK'
  <2>1. mem[h] \in Mind
    BY DEF TypeOK
  <2>2. mem[h].prior + 1 \in Nat \ {0}
    <3>1. mem[h].prior \in 0..MaxFailures
      BY <2>1, MindType
    <3>2. QED
      BY <1>a, <3>1
  <2>3. State(TRUE, {Delay(mem[h].prior + 1)}, mem[h].prior, mem[h].answer) \in FileState
    BY <2>1, <2>2, RetryType, StateType, MindType
  <2>4. [mem[h] EXCEPT !.claimed = TRUE, !.answer = Silence] \in Mind
    BY <2>1, MindType, AnswerType
  <2>5. QED
    BY <1>4, <2>3, <2>4, FilesType DEF TypeOK, Claim, Go, Set, backend, history, Places
<1>5. ASSUME NEW h \in Hook, Connected(h) PROVE TypeOK'
  <2>1. mem[h] \in Mind /\ [mem[h] EXCEPT !.etag = bundle] \in Mind
    BY MindType DEF TypeOK
  <2>2. QED
    BY <1>5, <2>1 DEF TypeOK, Connected, Go, Set, backend, disk, history, Places
<1>6. ASSUME NEW h \in Hook, NotConnected(h), UNCHANGED <<policy, mood, cred, changes>>,
             unruly' \subseteq unruly \cup {"no credential", "store", "renewal"}
      PROVE TypeOK'
  <2>1. Finish(h, State(TRUE, {}, 0, Silence))
    BY <1>6 DEF NotConnected
  <2>2. /\ file' \in Files
        /\ at' = [at EXCEPT ![h] = "idle"] /\ mem' = [mem EXCEPT ![h] = Idle]
    BY <2>1, AnswerType, FinishType
  <2>3. QED
    BY <1>6, <2>2, MindType DEF TypeOK, NotConnected, Places
<1>7. ASSUME NEW h \in Hook, StoreIsSilent(h) PROVE TypeOK'
  <2>1. faults' \in 0..MaxFaults
    <3>1. faults \in 0..MaxFaults /\ faults < MaxFaults /\ faults' = faults + 1
      BY <1>7 DEF TypeOK, StoreIsSilent
    <3>2. QED
      BY <1>a, <3>1
  <2>2. Finish(h, State(TRUE, {}, 0, Silence))
    BY <1>7 DEF StoreIsSilent
  <2>3. /\ file' \in Files
        /\ at' = [at EXCEPT ![h] = "idle"] /\ mem' = [mem EXCEPT ![h] = Idle]
    BY <2>2, AnswerType, FinishType
  <2>4. QED
    BY <1>7, <2>1, <2>3, MindType DEF TypeOK, StoreIsSilent, backend, Places
<1>8. ASSUME NEW h \in Hook, Renew(h) PROVE TypeOK'
  <2>1. mem[h] \in Mind /\ bundle \in 0..2
    BY DEF TypeOK
  <2>2. [mem[h] EXCEPT !.etag = IF at[h] = "renew" THEN bundle ELSE @] \in Mind
    BY <2>1, MindType
  <2>3. QED
    BY <1>8, <2>2 DEF TypeOK, Renew, Go, Set, disk, history, Places
<1>9. ASSUME NEW h \in Hook, NEW r \in BOOLEAN, Failed(h, r), UNCHANGED backend,
             UNCHANGED <<faults, newest>>, quiet' \in 0..10, missed' \in 0..MaxFailures,
             unruly' \subseteq unruly \cup {"renewal", "refused"}
      PROVE TypeOK'
  <2>1. PICK n \in 1..MaxFailures, t \in Retry :
          /\ State(TRUE, t, n, Silence) \in FileState
          /\ Finish(h, State(TRUE, t, n, Silence))
          /\ last' = [ok |-> FALSE, retry |-> t]
          /\ UNCHANGED <<bundle, flags>>
    BY <1>9, FailedType
  <2>2. /\ file' \in Files
        /\ at' = [at EXCEPT ![h] = "idle"] /\ mem' = [mem EXCEPT ![h] = Idle]
    BY <2>1, FinishType
  <2>3. last' \in Result
    BY <2>1 DEF Result
  <2>4. QED
    BY <1>9, <2>1, <2>2, <2>3, MindType DEF TypeOK, backend, Places
<1>10. ASSUME NEW h \in Hook, NoCredential(h) PROVE TypeOK'
  BY <1>10, <1>6 DEF NoCredential, backend
<1>11. ASSUME NEW h \in Hook, RenewFails(h) PROVE TypeOK'
  BY <1>11, <1>6, <1>9 DEF TypeOK, RenewFails, backend
<1>12. ASSUME NEW h \in Hook, Rejected(h) PROVE TypeOK'
  BY <1>12, <1>9 DEF TypeOK, Rejected, Go, backend, disk, Places
<1>13. ASSUME NEW h \in Hook, NoAnswer(h) PROVE TypeOK'
  <2>1. missed' \in 0..MaxFailures /\ quiet' \in 0..10
    <3>1. missed \in 0..MaxFailures /\ Missed
      BY <1>13 DEF TypeOK, NoAnswer
    <3>2. quiet' \in 1..10 /\ missed' \in 0..MaxFailures
      BY <3>1, MissedStep
    <3>3. QED
      BY <3>2
  <2>2. QED
    BY <1>13, <1>9, <2>1 DEF NoAnswer
<1>14. ASSUME NEW h \in Hook, Refused(h) PROVE TypeOK'
  BY <1>14, <1>9 DEF TypeOK, Refused
<1>15. ASSUME NEW h \in Hook, Answered(h) PROVE TypeOK'
  <2> DEFINE has == IF Sent(mem[h].etag) # 0 THEN Sent(mem[h].etag) ELSE mem[h].etag
  <2>1. mem[h] \in Mind /\ mem[h].etag \in 0..2 /\ policy.version \in 0..2 /\ bundle \in 0..2
    BY MindType DEF TypeOK, Policy
  <2>2. Sent(mem[h].etag) \in 0..2 /\ has \in 0..2
    BY <2>1 DEF Sent
  <2>3. [mem[h] EXCEPT !.answer = Told, !.bundle = has] \in Mind
    BY <2>1, <2>2, AnswerType, MindType
  <2>4. /\ bundle' \in 0..2 /\ mem' = [mem EXCEPT ![h] = [@ EXCEPT !.answer = Told, !.bundle = has]]
        /\ at' \in {[at EXCEPT ![h] = "refetch"], [at EXCEPT ![h] = "finish"]}
    BY <1>15, <2>1, <2>2 DEF Answered, Go, Set
  <2> HIDE DEF has
  <2>5. /\ last' = [ok |-> TRUE, retry |-> {}] /\ missed' = 0 /\ quiet' = 0 /\ newest' = Told
        /\ UNCHANGED <<policy, mood, cred, changes, file, flags, faults, unruly>>
    BY <1>15 DEF Answered, backend
  <2>6. mem' \in [Hook -> Mind] /\ at' \in [Hook -> Places]
    BY <2>3, <2>4 DEF TypeOK, Places
  <2>7. newest' \in Answer /\ last' \in Result /\ missed' \in 0..MaxFailures /\ quiet' \in 0..10
    BY <1>a, <1>b, <2>5, AnswerType
  <2>8. bundle' \in 0..2
    BY <2>4
  <2>9. QED
    BY <2>5, <2>6, <2>7, <2>8 DEF TypeOK
<1>16. ASSUME NEW h \in Hook, Refetch(h) PROVE TypeOK'
  <2>1. mem[h] \in Mind /\ policy.version \in 0..2
    BY DEF TypeOK, Policy
  <2>2. [mem[h] EXCEPT !.answer = Told, !.bundle = policy.version] \in Mind
    BY <2>1, AnswerType, MindType
  <2>3. /\ cred' \in {cred, "good"} /\ bundle' \in 0..2 /\ newest' \in Answer
        /\ mem' \in [Hook -> Mind] /\ at' \in [Hook -> Places]
    BY <1>16, <2>1, <2>2, AnswerType DEF TypeOK, Refetch, Go, Set, Places
  <2>4. QED
    BY <1>16, <2>3 DEF TypeOK, Refetch
<1>17. ASSUME NEW h \in Hook, Decide(h) PROVE TypeOK'
  <2>1. mem[h] \in Mind
    BY DEF TypeOK
  <2>2. Permits(mem[h]) \in BOOLEAN
    BY DEF Permits
  <2>3. State(~Permits(mem[h]), {}, 0, mem[h].answer) \in FileState
    BY <2>1, <2>2, AnswerType, MindType
  <2>4. flags' \in SUBSET OptIn
    BY <1>17, <2>1 DEF Decide, Mind, Answer
  <2> DEFINE s == State(~Permits(mem[h]), {}, 0, mem[h].answer)
  <2>5. /\ file' = {s}
        /\ \/ at' = [at EXCEPT ![h] = "idle"] /\ mem' = [mem EXCEPT ![h] = Idle]
           \/ at' = [at EXCEPT ![h] = "handle"] /\ mem' = [mem EXCEPT ![h] = [Idle EXCEPT !.kept = {s}]]
    BY <1>17, Zenon DEF Decide, Finish, Go, Set
  <2> HIDE DEF s
  <2>6. file' \in Files /\ Idle \in Mind /\ [Idle EXCEPT !.kept = {s}] \in Mind
    BY <2>3, <2>5, MindType, FilesType DEF s
  <2>7. at' \in [Hook -> Places] /\ mem' \in [Hook -> Mind]
    BY <2>5, <2>6 DEF TypeOK, Places
  <2>8. QED
    BY <1>17, <2>4, <2>6, <2>7 DEF TypeOK, Decide, backend
<1>18. ASSUME NEW h \in Hook, Cut(h) PROVE TypeOK'
  <2>1. missed' \in 0..MaxFailures /\ quiet' \in 0..10
    <3>1. CASE Missed
      <4>1. quiet' \in 1..10 /\ missed' \in 0..MaxFailures
        BY <3>1, MissedStep DEF TypeOK
      <4>2. QED
        BY <4>1
    <3>2. CASE UNCHANGED <<quiet, missed>>
      BY <3>2 DEF TypeOK
    <3>3. QED
      BY <1>18, <3>1, <3>2 DEF Cut
  <2>2. faults' \in 0..MaxFaults
    <3>1. faults \in 0..MaxFaults /\ faults < MaxFaults /\ faults' = faults + 1
      BY <1>18 DEF TypeOK, Cut
    <3>2. QED
      BY <1>a, <3>1
  <2>3. QED
    BY <1>18, <2>1, <2>2, MindType DEF TypeOK, Cut, Set, backend, disk, Places
<1>19. CASE Tick
  <2>1. PICK s \in file, m \in 1..10 :
          /\ s.retry = {m} /\ file' = {[s EXCEPT !.retry = {0}]}
          /\ quiet' = Max({quiet, m}) - m
    BY <1>19 DEF Tick
  <2>2. [s EXCEPT !.retry = {0}] \in FileState
    <3>1. s \in FileState
      BY <2>1, FilesType DEF TypeOK
    <3>2. {0} \in Retry
      BY DEF Retry
    <3>3. QED
      BY <3>1, <3>2 DEF FileState
  <2>3. quiet' \in 0..10
    <3>1. quiet \in 0..10
      BY DEF TypeOK
    <3>2. Max({quiet, m}) = IF quiet <= m THEN m ELSE quiet
      BY <3>1, MaxOfTwo
    <3>3. QED
      BY <2>1, <3>1, <3>2
  <2>4. QED
    BY <1>19, <2>1, <2>2, <2>3, FilesType DEF TypeOK, Tick, backend, hooks
<1>20. CASE Change
  <2>1. changes' \in 0..MaxChanges
    <3>1. changes \in 0..MaxChanges /\ changes < MaxChanges /\ changes' = changes + 1
      BY <1>20 DEF TypeOK, Change
    <3>2. QED
      BY <3>1, HandshakeAssumption
  <2>2. policy' \in Policy
    <3>1. policy \in Policy
      BY DEF TypeOK
    <3>2. QED
      BY <1>20, <3>1 DEF Change, Policy
  <2>3. QED
    BY <1>20, <2>1, <2>2 DEF TypeOK, Change, disk, hooks, history
<1>29. CASE Recover
  BY <1>29 DEF TypeOK, Recover, disk, hooks, history
<1>21. CASE UNCHANGED vars
  BY <1>21 DEF vars, backend, disk, hooks, history, TypeOK
<1>22. ASSUME NEW h \in Hook, FindLive(h) PROVE TypeOK'
  <2>1. PICK s \in file : mem' = [mem EXCEPT ![h] = [Idle EXCEPT !.kept = {s}]]
    BY <1>22 DEF FindLive, Set
  <2>2. [Idle EXCEPT !.kept = {s}] \in Mind
    BY <2>1, FilesType, MindType DEF TypeOK
  <2>3. QED
    BY <1>22, <2>1, <2>2 DEF TypeOK, FindLive, Go, backend, disk, history, Places
<1>23. ASSUME NEW h \in Hook, FindInert(h) PROVE TypeOK'
  <2>1. faults' \in 0..MaxFaults
    <3>1. faults \in 0..MaxFaults /\ faults < MaxFaults /\ faults' = faults + 1
      BY <1>23 DEF TypeOK, FindInert
    <3>2. QED
      BY <1>a, <3>1
  <2>2. QED
    BY <1>23, <2>1 DEF TypeOK, FindInert, Go, backend, disk, Places
<1>24. ASSUME NEW h \in Hook, ReadAgain(h) PROVE TypeOK'
  <2>1. [mem[h] EXCEPT !.kept = IF file = {} THEN @ ELSE file] \in Mind
    <3>1. mem[h] \in Mind /\ file \in Files /\ mem[h].kept \in Files
      BY MindType DEF TypeOK
    <3>2. QED
      BY <3>1, MindType
  <2>2. QED
    BY <1>24, <2>1 DEF TypeOK, ReadAgain, Go, Set, backend, disk, history, Places
<1>25. ASSUME NEW h \in Hook, SeenBefore(h) PROVE TypeOK'
  BY <1>25, MindType DEF TypeOK, SeenBefore, Go, Set, backend, disk, history, Places
<1>26. ASSUME NEW h \in Hook, WriteBack(h) PROVE TypeOK'
  <2>1. file' \in Files
    BY <1>26, MindType DEF TypeOK, WriteBack
  <2>2. faults' \in 0..MaxFaults
    <3>1. faults \in 0..MaxFaults /\ (faults' = faults \/ (faults < MaxFaults /\ faults' = faults + 1))
      BY <1>26 DEF TypeOK, WriteBack
    <3>2. QED
      BY <1>a, <3>1
  <2>3. at' \in [Hook -> Places] /\ mem' \in [Hook -> Mind]
    BY <1>26, MindType DEF TypeOK, WriteBack, Go, Set, Places
  <2>4. QED
    BY <1>26, <2>1, <2>2, <2>3 DEF TypeOK, WriteBack, backend
<1>27. ASSUME NEW h \in Hook, Clear(h) PROVE TypeOK'
  <2>1. unruly' \in {{}, unruly, unruly \cup {"ended"}}
    BY <1>27 DEF Clear
  <2>2. at' \in [Hook -> Places] /\ UNCHANGED mem /\ file' = {} /\ quiet' = 0 /\ missed' = 0
    BY <1>27 DEF TypeOK, Clear, Go, Places
  <2>3. UNCHANGED <<policy, mood, cred, changes, bundle, flags, last, faults, newest>>
    BY <1>27 DEF Clear, backend
  <2>4. QED
    <3>1. unruly' \subseteq unruly \cup {"ended"} /\ file' \in Files /\ quiet' \in 0..10 /\ missed' \in 0..MaxFailures
      BY <1>a, <2>1, <2>2, FilesType
    <3>2. QED
      BY <2>2, <2>3, <3>1 DEF TypeOK
<1>28. QED
  BY <1>1, <1>2, <1>3, <1>4, <1>5, <1>7, <1>8, <1>10, <1>11, <1>12, <1>13, <1>14, <1>15,
     <1>16, <1>17, <1>18, <1>19, <1>20, <1>21, <1>22, <1>23, <1>24, <1>25, <1>26, <1>27, <1>29 DEF Next, Step

(* Values stay in their types; no retry is more than ten minutes away.      *)
THEOREM HandshakeTypes == Spec => []TypeOK
  BY InitType, TypeStep, PTL DEF Spec
-----------------------------------------------------------------------------
(* The kinds of steps                                                      *)

\* The places of a hook that makes no attempt.
Handling == {"idle", "handle", "write", "clear"}

\* The hook goes on towards a request, with the bundle on disk as its etag.
GoesOn(h) ==
    /\ at[h] \in {"token", "renew", "ask", "again"}
    /\ \E p \in {"renew", "ask", "again", "askAgain"}, e \in 0..2 :
          /\ at' = [at EXCEPT ![h] = p]
          /\ mem' = [mem EXCEPT ![h] = [@ EXCEPT !.etag = e]]
          /\ e = bundle \/ (e = mem[h].etag /\ (p = "renew" \/ at[h] \in {"ask", "again"}))
    /\ UNCHANGED <<file, bundle, quiet, missed, newest, unruly>>

\* The hook ends and leaves a session that is muted for good.
GivesUp(h) ==
    /\ h \in Attempting
    /\ \E s \in FileState : s.inert /\ s.retry = {} /\ Finish(h, s)
    /\ unruly \subseteq unruly'
    /\ UNCHANGED <<bundle, quiet, missed, newest>>

\* A handler goes on, or a hook becomes one or ends, with no word to the file.
Handles(h) ==
    /\ at[h] \in Handling
    /\ \E p \in Handling, m \in Mind :
          /\ at' = [at EXCEPT ![h] = p] /\ mem' = [mem EXCEPT ![h] = m]
          /\ m.etag \in {0, mem[h].etag} /\ m.bundle \in {0, mem[h].bundle} /\ m.claimed \in {FALSE, mem[h].claimed}
          /\ \A s \in m.kept : s \in mem[h].kept \/ s \in file
          /\ p \in {"idle", "clear"} => m = Idle \/ (at[h] = "idle" /\ m = mem[h])
    /\ UNCHANGED <<file, bundle, quiet, missed, newest, unruly>>

LEMMA SilentState ==
  /\ State(TRUE, {}, 0, Silence) \in FileState
  /\ \A r, n : /\ State(TRUE, r, n, Silence).inert
               /\ State(TRUE, r, n, Silence).retry = r
               /\ State(TRUE, r, n, Silence).failures = n
  BY AnswerType DEF State

LEMMA IdleMind == /\ Idle.etag = 0 /\ Idle.bundle = 0 /\ Idle.claimed = FALSE /\ Idle.prior = 0 /\ Idle.kept = {}
                  /\ \A f : /\ [Idle EXCEPT !.kept = f].etag = 0 /\ [Idle EXCEPT !.kept = f].bundle = 0
                            /\ [Idle EXCEPT !.kept = f].claimed = FALSE /\ [Idle EXCEPT !.kept = f].kept = f
  BY DEF Idle

(* The file that a decision leaves lets the session run only if the hook    *)
(* permits it, and is what a handler goes on with.                          *)
LEMMA DecidedState ==
  ASSUME TypeOK, NEW h \in Hook, Decide(h)
  PROVE  \E s \in FileState : /\ file' = {s} /\ s.retry = {} /\ s.answer = mem[h].answer
                              /\ ~s.inert => Permits(mem[h])
                              /\ \/ at' = [at EXCEPT ![h] = "idle"] /\ mem' = [mem EXCEPT ![h] = Idle]
                                 \/ /\ at' = [at EXCEPT ![h] = "handle"]
                                    /\ mem' = [mem EXCEPT ![h] = [Idle EXCEPT !.kept = {s}]]
<1> DEFINE s == State(~Permits(mem[h]), {}, 0, mem[h].answer)
<1>1. /\ file' = {s}
      /\ \/ at' = [at EXCEPT ![h] = "idle"] /\ mem' = [mem EXCEPT ![h] = Idle]
         \/ at' = [at EXCEPT ![h] = "handle"] /\ mem' = [mem EXCEPT ![h] = [Idle EXCEPT !.kept = {s}]]
  BY Zenon DEF Decide, Finish, Go, Set
<1>2. s.retry = {} /\ s.answer = mem[h].answer
  BY DEF State
<1>3. ~s.inert => Permits(mem[h])
  BY Zenon DEF State
<1>4. s \in FileState
  <2>1. mem[h].answer \in Answer
    BY MindType DEF TypeOK
  <2>2. Permits(mem[h]) \in BOOLEAN
    BY DEF Permits
  <2>3. QED
    BY <2>1, <2>2, AnswerType
<1> HIDE DEF s
<1>5. QED
  BY <1>1, <1>2, <1>3, <1>4

LEMMA NotConnectedGivesUp ==
  ASSUME NEW h \in Hook, h \in Attempting, Finish(h, State(TRUE, {}, 0, Silence)),
         unruly \subseteq unruly', UNCHANGED <<bundle, quiet, missed, newest>>
  PROVE  GivesUp(h)
  BY SilentState DEF GivesUp

LEMMA FailedGivesUp ==
  ASSUME TypeOK, NEW h \in Hook, h \in Attempting, Failed(h, FALSE),
         unruly \subseteq unruly', UNCHANGED <<quiet, missed, newest>>
  PROVE  GivesUp(h)
<1>1. PICK n \in 1..MaxFailures, r \in Retry :
        /\ r = {} /\ State(TRUE, r, n, Silence) \in FileState
        /\ Finish(h, State(TRUE, r, n, Silence)) /\ UNCHANGED bundle
  BY FailedType
<1>2. QED
  BY <1>1, SilentState DEF GivesUp

(* What a step can be, as far as the session file and the bundle go.        *)
LEMMA Kinds ==
  ASSUME TypeOK, [Next]_vars
  PROVE  \/ \E h \in Hook : \/ FireStart(h) \/ FindNoSession(h) \/ FindDue(h) \/ Claim(h) \/ GoesOn(h)
                            \/ GivesUp(h) \/ NoAnswer(h) \/ Answered(h) \/ Refetch(h) \/ Decide(h)
                            \/ (Cut(h) /\ h \in Attempting)
                            \/ Handles(h) \/ WriteBack(h) \/ Clear(h)
         \/ Tick
         \/ UNCHANGED <<file, bundle, at, mem, quiet, missed, newest, unruly>>
<1>1. ASSUME NEW h \in Hook, Connected(h) PROVE GoesOn(h)
  <2>1. mem[h] \in Mind /\ mem[h].etag \in 0..2 /\ bundle \in 0..2
    BY MindType DEF TypeOK
  <2>2. mem = [mem EXCEPT ![h] = [@ EXCEPT !.etag = mem[h].etag]]
    BY <2>1 DEF TypeOK, Mind
  <2>3. QED
    BY <1>1, <2>1, <2>2 DEF Connected, Go, Set, disk, history, GoesOn
<1>2. ASSUME NEW h \in Hook, Renew(h) PROVE GoesOn(h)
  <2>1. mem[h] \in Mind /\ mem[h].etag \in 0..2 /\ bundle \in 0..2
    BY MindType DEF TypeOK
  <2>2. QED
    BY <1>2, <2>1 DEF Renew, Go, Set, disk, history, GoesOn
<1>3. ASSUME NEW h \in Hook, Rejected(h) PROVE GoesOn(h) \/ GivesUp(h)
  <2>1. mem[h] \in Mind /\ mem[h].etag \in 0..2 /\ bundle \in 0..2
    BY MindType DEF TypeOK
  <2>2. CASE at[h] = "ask"
    <3>1. mem = [mem EXCEPT ![h] = [@ EXCEPT !.etag = mem[h].etag]]
      BY <2>1 DEF TypeOK, Mind
    <3>2. QED
      BY <1>3, <2>1, <2>2, <3>1 DEF Rejected, Go, disk, GoesOn
  <2>3. CASE at[h] # "ask"
    BY <1>3, <2>3, FailedGivesUp DEF Rejected, Asking, Attempting
  <2>4. QED
    BY <2>2, <2>3
<1>4. ASSUME NEW h \in Hook, NoCredential(h) \/ StoreIsSilent(h) PROVE GivesUp(h)
  BY <1>4, NotConnectedGivesUp DEF NoCredential, StoreIsSilent, NotConnected, Attempting
<1>5. ASSUME NEW h \in Hook, RenewFails(h) PROVE GivesUp(h)
  BY <1>5, NotConnectedGivesUp, FailedGivesUp DEF RenewFails, NotConnected, Attempting
<1>6. ASSUME NEW h \in Hook, Refused(h) PROVE GivesUp(h)
  BY <1>6, FailedGivesUp DEF Refused, Asking, Attempting
<1>7. CASE Change \/ Recover \/ UNCHANGED vars
  BY <1>7 DEF Change, Recover, vars, disk, hooks, history
<1>9. ASSUME NEW h \in Hook, FindLive(h) PROVE Handles(h)
  <2>1. PICK s \in file : mem' = [mem EXCEPT ![h] = [Idle EXCEPT !.kept = {s}]]
    BY <1>9 DEF FindLive, Set
  <2>2. [Idle EXCEPT !.kept = {s}] \in Mind
    BY <2>1, FilesType, MindType DEF TypeOK
  <2>3. QED
    BY <1>9, <2>1, <2>2, IdleMind DEF FindLive, Go, disk, history, Handles, Handling
<1>10. ASSUME NEW h \in Hook, FindInert(h) PROVE Handles(h)
  <2>1. mem[h] \in Mind /\ mem' = [mem EXCEPT ![h] = mem[h]]
    BY <1>10 DEF TypeOK, FindInert
  <2>2. QED
    BY <1>10, <2>1 DEF FindInert, Go, disk, Handles, Handling
<1>11. ASSUME NEW h \in Hook, ReadAgain(h) PROVE Handles(h)
  <2> DEFINE m == [mem[h] EXCEPT !.kept = IF file = {} THEN @ ELSE file]
  <2>1. mem[h] \in Mind /\ m \in Mind
    BY MindType DEF TypeOK
  <2>2. /\ m.etag = mem[h].etag /\ m.bundle = mem[h].bundle /\ m.claimed = mem[h].claimed
        /\ \A s \in m.kept : s \in mem[h].kept \/ s \in file
    BY <2>1 DEF Mind
  <2>3. mem' = [mem EXCEPT ![h] = m] /\ at[h] = "handle" /\ at' = [at EXCEPT ![h] = "write"]
        /\ UNCHANGED <<file, bundle, quiet, missed, newest, unruly>>
    BY <1>11 DEF ReadAgain, Go, Set, disk, history
  <2> HIDE DEF m
  <2>4. QED
    BY <2>1, <2>2, <2>3 DEF Handles, Handling
<1>12. ASSUME NEW h \in Hook, SeenBefore(h) \/ (Cut(h) /\ h \notin Attempting) PROVE Handles(h)
  <2>1. /\ at[h] \in Handling /\ at' = [at EXCEPT ![h] = "idle"] /\ mem' = [mem EXCEPT ![h] = Idle]
        /\ UNCHANGED <<file, bundle, quiet, missed, newest, unruly>>
    BY <1>12 DEF SeenBefore, Cut, Go, Set, disk, history, Attempting, Handling, Asking
  <2>2. QED
    BY <2>1, IdleMind, MindType DEF Handles, Handling
<1>13. QED
  BY <1>1, <1>2, <1>3, <1>4, <1>5, <1>6, <1>7, <1>9, <1>10, <1>11, <1>12 DEF Next, Step

(* What another hook of the step works with stays as it is.                 *)
LEMMA Others ==
  ASSUME TypeOK, NEW h \in Hook, NEW g \in Hook, g # h,
         \/ FireStart(h) \/ FindNoSession(h) \/ FindDue(h) \/ Claim(h) \/ GoesOn(h)
         \/ GivesUp(h) \/ NoAnswer(h) \/ Answered(h) \/ Refetch(h) \/ Decide(h) \/ Cut(h)
         \/ Handles(h) \/ WriteBack(h) \/ Clear(h)
  PROVE  at'[g] = at[g] /\ mem'[g] = mem[g]
<1> USE DEF TypeOK, Go, Set, Finish
<1>1. CASE FireStart(h) \/ FindNoSession(h) \/ FindDue(h) \/ Claim(h)
  BY <1>1 DEF FireStart, FindNoSession, FindDue, Claim
<1>2. CASE GoesOn(h) \/ GivesUp(h) \/ Handles(h)
  BY <1>2 DEF GoesOn, GivesUp, Handles
<1>3. CASE NoAnswer(h) \/ Decide(h)
  BY <1>3, DecidedState DEF NoAnswer, Failed
<1>4. CASE Answered(h)
  BY <1>4 DEF Answered
<1>5. CASE Refetch(h)
  BY <1>5 DEF Refetch
<1>6. CASE Cut(h)
  BY <1>6 DEF Cut
<1>8. CASE WriteBack(h) \/ Clear(h)
  BY <1>8 DEF WriteBack, Clear
<1>7. QED
  BY <1>1, <1>2, <1>3, <1>4, <1>5, <1>6, <1>8
-----------------------------------------------------------------------------
(* The bundle                                                              *)

LEMMA BundleStep == TypeOK /\ BundleInv /\ [Next]_vars => BundleInv'
<1> SUFFICES ASSUME TypeOK, BundleInv, [Next]_vars PROVE BundleInv'
  OBVIOUS
<1>a. mem \in [Hook -> Mind] /\ file \in Files
  BY DEF TypeOK
<1>1. ASSUME NEW h \in Hook, bundle # 0 => bundle' # 0,
             \A g \in Hook \ {h} : mem'[g] = mem[g],
             mem'[h].etag # 0 \/ mem'[h].bundle # 0 => bundle' # 0,
             \A s \in file' : s \in file \/ s \in mem[h].kept \/ Lawful(s, bundle'),
             \A s \in mem'[h].kept : s \in file \/ s \in mem[h].kept \/ Lawful(s, bundle')
      PROVE  BundleInv'
  <2>1. \A s : Lawful(s, bundle) => Lawful(s, bundle')
    BY <1>1 DEF Lawful
  <2>2. \A s : s \in file \/ s \in mem[h].kept => Lawful(s, bundle')
    BY <2>1 DEF BundleInv
  <2>3. \A g \in Hook : mem'[g].etag # 0 \/ mem'[g].bundle # 0 => bundle' # 0
    BY <1>1 DEF BundleInv
  <2>4. \A g \in Hook : \A s \in mem'[g].kept : Lawful(s, bundle')
    BY <1>1, <2>1, <2>2 DEF BundleInv
  <2>5. QED
    BY <1>1, <2>2, <2>3, <2>4 DEF BundleInv
<1>2. ASSUME NEW h \in Hook, FireStart(h) \/ FindNoSession(h) \/ FindDue(h) \/ Cut(h) PROVE BundleInv'
  <2>1. UNCHANGED <<file, bundle>>
    BY <1>2 DEF FireStart, FindNoSession, FindDue, Cut, disk
  <2>2. mem'[h] = mem[h] \/ (mem'[h].etag = 0 /\ mem'[h].bundle = 0 /\ mem'[h].kept = {})
    <3>1. CASE FireStart(h) \/ FindNoSession(h) \/ Cut(h)
      BY <1>a, <3>1 DEF FireStart, FindNoSession, Cut, Set, Idle
    <3>2. CASE FindDue(h)
      <4>1. PICK s \in file : mem' = [mem EXCEPT ![h] = [Idle EXCEPT !.prior = s.failures, !.answer = s.answer]]
        BY <3>2 DEF FindDue, Set
      <4>2. mem'[h] = [Idle EXCEPT !.prior = s.failures, !.answer = s.answer]
        BY <1>a, <4>1
      <4>3. QED
        BY <4>2 DEF Idle
    <3>3. QED
      BY <1>2, <3>1, <3>2
  <2>3. \A g \in Hook \ {h} : mem'[g] = mem[g]
    BY <1>2, Others
  <2>5. mem'[h].etag # 0 \/ mem'[h].bundle # 0 => bundle' # 0
    BY <2>1, <2>2 DEF BundleInv
  <2>4. QED
    BY <1>1, <2>1, <2>2, <2>3, <2>5
<1>3. ASSUME NEW h \in Hook, Claim(h) PROVE BundleInv'
  <2>1. bundle' = bundle /\ \A s \in file' : s.inert
    BY <1>3 DEF Claim, State
  <2>2. mem'[h].etag = mem[h].etag /\ mem'[h].bundle = mem[h].bundle /\ mem'[h].kept = mem[h].kept
    BY <1>3, <1>a DEF TypeOK, Claim, Set, Mind
  <2>3. \A g \in Hook \ {h} : mem'[g] = mem[g]
    BY <1>3, Others
  <2>4. \A s \in file' : Lawful(s, bundle')
    BY <2>1 DEF Lawful
  <2>5. mem'[h].etag # 0 \/ mem'[h].bundle # 0 => bundle' # 0
    BY <2>1, <2>2 DEF BundleInv
  <2>6. QED
    BY <1>1, <2>1, <2>2, <2>3, <2>4, <2>5
<1>4. ASSUME NEW h \in Hook, GoesOn(h) PROVE BundleInv'
  <2>1. UNCHANGED <<file, bundle>>
    BY <1>4 DEF GoesOn
  <2>2. PICK e \in {bundle, mem[h].etag} : mem' = [mem EXCEPT ![h] = [@ EXCEPT !.etag = e]]
    BY <1>4 DEF GoesOn
  <2>5. mem'[h].etag \in {bundle, mem[h].etag} /\ mem'[h].bundle = mem[h].bundle /\ mem'[h].kept = mem[h].kept
    BY <1>a, <2>2 DEF Mind
  <2>3. \A g \in Hook \ {h} : mem'[g] = mem[g]
    BY <1>4, Others
  <2>6. mem'[h].etag # 0 \/ mem'[h].bundle # 0 => bundle' # 0
    BY <2>1, <2>5 DEF BundleInv
  <2>4. QED
    BY <1>1, <2>1, <2>3, <2>5, <2>6
<1>5. ASSUME NEW h \in Hook, GivesUp(h) \/ NoAnswer(h) PROVE BundleInv'
  <2>1. PICK s : s.inert /\ Finish(h, s) /\ bundle' = bundle
    BY <1>5, SilentState DEF GivesUp, NoAnswer, Failed
  <2>4. bundle' = bundle /\ file' = {s} /\ mem'[h] = Idle
    BY <1>a, <2>1 DEF Finish, Set
  <2>5. \A t \in file' : Lawful(t, bundle')
    BY <2>1, <2>4 DEF Lawful
  <2>2. \A g \in Hook \ {h} : mem'[g] = mem[g]
    BY <1>5, Others
  <2>3. QED
    BY <1>1, <2>2, <2>4, <2>5, IdleMind
<1>6. ASSUME NEW h \in Hook, Answered(h) PROVE BundleInv'
  <2> DEFINE sent == Sent(mem[h].etag)
             has == IF sent # 0 THEN sent ELSE mem[h].etag
  <2>1. /\ bundle' = (IF sent # 0 THEN sent ELSE bundle) /\ file' = file
        /\ mem' = [mem EXCEPT ![h] = [@ EXCEPT !.answer = Told, !.bundle = has]]
    BY <1>6 DEF Answered, Set
  <2> HIDE DEF sent
  <2>2. mem'[h].etag = mem[h].etag /\ mem'[h].bundle = has /\ mem'[h].kept = mem[h].kept
    BY <1>a, <2>1 DEF TypeOK, Mind
  <2>3. \A g \in Hook \ {h} : mem'[g] = mem[g]
    BY <1>6, Others
  <2>5. (bundle # 0 => bundle' # 0) /\ (mem'[h].etag # 0 \/ mem'[h].bundle # 0 => bundle' # 0)
    BY <2>1, <2>2 DEF BundleInv
  <2>4. QED
    BY <1>1, <2>1, <2>2, <2>3, <2>5
<1>7. ASSUME NEW h \in Hook, Refetch(h) PROVE BundleInv'
  <2>1. file' = file /\ mem'[h].etag = mem[h].etag /\ mem'[h].kept = mem[h].kept
    BY <1>7, <1>a DEF TypeOK, Refetch, Set, Mind
  <2>2. \/ bundle' = bundle /\ mem'[h] = mem[h]
        \/ policy.version # 0 /\ bundle' = policy.version
    BY <1>7 DEF Refetch, Set
  <2>3. \A g \in Hook \ {h} : mem'[g] = mem[g]
    BY <1>7, Others
  <2>5. (bundle # 0 => bundle' # 0) /\ (mem'[h].etag # 0 \/ mem'[h].bundle # 0 => bundle' # 0)
    BY <2>1, <2>2 DEF BundleInv
  <2>4. QED
    BY <1>1, <2>1, <2>3, <2>5
<1>8. ASSUME NEW h \in Hook, Decide(h) PROVE BundleInv'
  <2>1. PICK s \in FileState : /\ file' = {s} /\ s.answer = mem[h].answer
                               /\ ~s.inert => Permits(mem[h])
                               /\ \/ mem' = [mem EXCEPT ![h] = Idle]
                                  \/ mem' = [mem EXCEPT ![h] = [Idle EXCEPT !.kept = {s}]]
    BY <1>8, DecidedState
  <2>2. bundle' = bundle
    BY <1>8 DEF Decide
  <2>3. Lawful(s, bundle')
    BY <2>1, <2>2 DEF BundleInv, Permits, Lawful
  <2>4. mem'[h].etag = 0 /\ mem'[h].bundle = 0 /\ mem'[h].kept \in {{}, {s}}
    <3>1. mem'[h] = Idle \/ mem'[h] = [Idle EXCEPT !.kept = {s}]
      BY <1>a, <2>1
    <3>2. [Idle EXCEPT !.kept = {s}].etag = 0 /\ [Idle EXCEPT !.kept = {s}].bundle = 0
          /\ [Idle EXCEPT !.kept = {s}].kept = {s}
      BY IdleMind
    <3>3. QED
      BY <3>1, <3>2, IdleMind
  <2>5. \A g \in Hook \ {h} : mem'[g] = mem[g]
    BY <1>8, Others
  <2>6. QED
    BY <1>1, <2>1, <2>2, <2>3, <2>4, <2>5
<1>9. CASE Tick
  <2>1. UNCHANGED <<bundle, mem>>
    BY <1>9 DEF Tick, hooks
  <2>2. PICK s \in file : file' = {[s EXCEPT !.retry = {0}]}
    BY <1>9 DEF Tick
  <2>3. s \in FileState
    BY <1>a, <2>2, FilesType
  <2>4. [s EXCEPT !.retry = {0}].inert = s.inert /\ [s EXCEPT !.retry = {0}].answer = s.answer
    BY <2>3 DEF FileState
  <2>5. Lawful(s, bundle)
    BY DEF BundleInv
  <2>6. Lawful([s EXCEPT !.retry = {0}], bundle)
    BY <2>4, <2>5 DEF Lawful
  <2>7. QED
    BY <2>1, <2>2, <2>6 DEF BundleInv
<1>10. CASE UNCHANGED <<file, bundle, at, mem, quiet, missed, newest, unruly>>
  BY <1>10 DEF BundleInv
<1>11. ASSUME NEW h \in Hook, Handles(h) PROVE BundleInv'
  <2>1. PICK m \in Mind :
          /\ mem' = [mem EXCEPT ![h] = m]
          /\ m.etag \in {0, mem[h].etag} /\ m.bundle \in {0, mem[h].bundle}
          /\ \A s \in m.kept : s \in mem[h].kept \/ s \in file
    BY <1>11 DEF Handles
  <2>2. UNCHANGED <<file, bundle>> /\ mem'[h] = m
    BY <1>11, <1>a, <2>1 DEF Handles
  <2>3. \A g \in Hook \ {h} : mem'[g] = mem[g]
    BY <1>11, Others
  <2>4. mem'[h].etag # 0 \/ mem'[h].bundle # 0 => bundle' # 0
    BY <2>1, <2>2 DEF BundleInv
  <2>5. QED
    BY <1>1, <2>1, <2>2, <2>3, <2>4
<1>12. ASSUME NEW h \in Hook, WriteBack(h) PROVE BundleInv'
  <2>1. file' = mem[h].kept /\ bundle' = bundle /\ mem'[h] = Idle
    BY <1>12, <1>a DEF WriteBack, Set
  <2>2. \A g \in Hook \ {h} : mem'[g] = mem[g]
    BY <1>12, Others
  <2>3. QED
    BY <1>1, <2>1, <2>2, IdleMind
<1>13. ASSUME NEW h \in Hook, Clear(h) PROVE BundleInv'
  BY <1>13 DEF Clear, BundleInv
<1>14. QED
  BY <1>2, <1>3, <1>4, <1>5, <1>6, <1>7, <1>8, <1>9, <1>10, <1>11, <1>12, <1>13, Kinds
-----------------------------------------------------------------------------
(* One attempt at a time                                                   *)

(* The causes only add up until the session ends.                           *)
LEMMA UnrulyGrows ==
  ASSUME TypeOK, [Next]_vars, ~\E h \in Hook : Clear(h)
  PROVE  unruly \subseteq unruly' /\ (Alone' => Alone) /\ (Calm' => Calm)
<1> USE DEF Failed
<1>1. ASSUME NEW h \in Hook, FireStart(h) \/ FindNoSession(h) \/ FindDue(h) \/ Claim(h) PROVE unruly \subseteq unruly'
  BY <1>1 DEF FireStart, FindNoSession, FindDue, Claim, Together, history
<1>2. ASSUME NEW h \in Hook, GoesOn(h) \/ GivesUp(h) \/ NoAnswer(h) \/ Answered(h) PROVE unruly \subseteq unruly'
  BY <1>2 DEF GoesOn, GivesUp, NoAnswer, Answered
<1>3. ASSUME NEW h \in Hook, Refetch(h) \/ Decide(h) \/ Cut(h) \/ Handles(h) \/ WriteBack(h) PROVE unruly \subseteq unruly'
  BY <1>3 DEF Refetch, Decide, Cut, Handles, WriteBack
<1>4. unruly \subseteq unruly'
  BY <1>1, <1>2, <1>3, Kinds DEF Tick
<1>5. QED
  BY <1>4 DEF Alone, Calm

(* The end of a session: nothing is left of it, and no attempt is made, or  *)
(* one is that goes on beyond it.                                           *)
LEMMA Cleared ==
  ASSUME TypeOK, NEW h \in Hook, Clear(h)
  PROVE  /\ at[h] = "clear" /\ at' = [at EXCEPT ![h] = "idle"] /\ mem' = mem
         /\ file' = {} /\ quiet' = 0 /\ missed' = 0
         /\ Attempting' = Attempting
         /\ Alone' => Attempting = {}
<1>1. at[h] = "clear" /\ at' = [at EXCEPT ![h] = "idle"] /\ mem' = mem /\ file' = {} /\ quiet' = 0 /\ missed' = 0
  BY DEF Clear, Go
<1>2. Attempting' = Attempting
  BY <1>1 DEF TypeOK, Attempting
<1>3. ASSUME Alone' PROVE Attempting = {}
  <2>1. CASE \A g \in Hook \ {h} : at[g] = "idle"
    BY <1>1, <2>1 DEF Attempting
  <2>2. CASE ~\A g \in Hook \ {h} : at[g] = "idle"
    BY <1>3, <2>2 DEF Clear, Alone
  <2>3. QED
    BY <2>1, <2>2
<1>4. QED
  BY <1>1, <1>2, <1>3

(* What a handler does to the file is to write back what is there, or it is *)
(* a late write.                                                            *)
LEMMA Handled ==
  ASSUME TypeOK, OneInv, NEW h \in Hook, Handles(h) \/ WriteBack(h)
  PROVE  /\ at[h] \in Handling /\ at'[h] \in Handling
         /\ ~mem'[h].claimed /\ (at'[h] \in {"idle", "clear"} => mem'[h] = Idle)
         /\ \A g \in Hook \ {h} : at'[g] = at[g] /\ mem'[g] = mem[g]
         /\ Attempting' = Attempting /\ h \notin Attempting
         /\ UNCHANGED <<bundle, quiet, missed, newest>>
         /\ Alone' => file' = file
<1>a. at \in [Hook -> Places] /\ mem \in [Hook -> Mind]
  BY DEF TypeOK
<1>1. \A g \in Hook \ {h} : at'[g] = at[g] /\ mem'[g] = mem[g]
  BY Others
<1>2. CASE Handles(h)
  <2>1. PICK p \in Handling, m \in Mind :
          /\ at' = [at EXCEPT ![h] = p] /\ mem' = [mem EXCEPT ![h] = m]
          /\ m.claimed \in {FALSE, mem[h].claimed}
          /\ p \in {"idle", "clear"} => m = Idle \/ (at[h] = "idle" /\ m = mem[h])
    BY <1>2 DEF Handles
  <2>2. at'[h] = p /\ mem'[h] = m /\ at[h] \in Handling /\ h \notin Attempting
    BY <1>2, <1>a, <2>1 DEF Handles, Handling, Attempting
  <2>3. ~mem'[h].claimed
    BY <2>1, <2>2 DEF OneInv
  <2>4. at'[h] \in {"idle", "clear"} => mem'[h] = Idle
    BY <2>1, <2>2 DEF OneInv
  <2>5. UNCHANGED <<file, bundle, quiet, missed, newest>>
    BY <1>2 DEF Handles
  <2>6. Attempting' = Attempting
    BY <1>1, <2>1, <2>2 DEF Attempting, Handling
  <2>7. QED
    BY <1>1, <2>1, <2>2, <2>3, <2>4, <2>5, <2>6
<1>3. CASE WriteBack(h)
  <2>1. /\ at[h] = "write" /\ at'[h] \in {"idle", "clear"} /\ mem'[h] = Idle
        /\ UNCHANGED <<bundle, quiet, missed, newest>>
    BY <1>3, <1>a DEF WriteBack, Go, Set
  <2>2. Alone' => file' = file
    BY <1>3 DEF WriteBack, Alone
  <2>3. Attempting' = Attempting /\ h \notin Attempting
    BY <1>1, <2>1 DEF Attempting
  <2>4. QED
    BY <1>1, <2>1, <2>2, <2>3, IdleMind DEF Handling
<1>4. QED
  BY <1>2, <1>3

(* A hook that was already at it does one more thing.                       *)
LEMMA OneGoesOn ==
  ASSUME TypeOK, OneInv, NEW h \in Hook, h \in Attempting, Alone' => Alone,
         \A g \in Hook \ {h} : at'[g] = at[g] /\ mem'[g] = mem[g],
         at'[h] # "claim", at'[h] \in {"idle", "clear"} => mem'[h] = Idle,
         h \notin Attempting' => ~mem'[h].claimed,
         file # {} => file' # {},
         mem'[h].claimed => mem[h].claimed /\ file' = file
  PROVE  OneInv'
<1>1. \A g \in Hook : at'[g] \in {"idle", "clear"} => mem'[g] = Idle
  BY DEF OneInv
<1>2. \A g \in Hook \ Attempting' : ~mem'[g].claimed
  BY DEF OneInv, Attempting
<1>3. ASSUME Alone', NEW g \in Hook, g # h PROVE g \notin Attempting /\ at'[g] # "claim" /\ ~mem'[g].claimed
  <2>1. g \notin Attempting
    BY <1>3 DEF OneInv
  <2>2. QED
    BY <1>3, <2>1 DEF OneInv, Attempting
<1>4. ASSUME Alone' PROVE \A f, g \in Attempting' : f = g
  BY <1>3, <1>4 DEF Attempting
<1>5. ASSUME Alone', NEW g \in Hook, mem'[g].claimed \/ at'[g] = "claim" PROVE file' # {}
  BY <1>3, <1>5 DEF OneInv
<1>6. ASSUME Alone', NEW g \in Hook, NEW s \in file', mem'[g].claimed PROVE s.retry # {0}
  BY <1>3, <1>6 DEF OneInv
<1>7. QED
  BY <1>1, <1>2, <1>4, <1>5, <1>6 DEF OneInv

(* A hook begins: no other is at it, or the two overlap.                    *)
LEMMA OneBegins ==
  ASSUME TypeOK, OneInv, NEW h \in Hook, at[h] = "idle", at'[h] \in {"token", "claim"}, Alone' => Alone,
         \A g \in Hook \ {h} : at'[g] = at[g] /\ mem'[g] = mem[g],
         at'[h] = "claim" => file # {}, ~mem'[h].claimed,
         file' = file, Alone' => Attempting = {}
  PROVE  OneInv'
<1>1. \A g \in Hook : at'[g] \in {"idle", "clear"} => mem'[g] = Idle
  BY DEF OneInv
<1>2. \A g \in Hook \ Attempting' : ~mem'[g].claimed
  BY DEF OneInv, Attempting
<1>3. ASSUME Alone', NEW g \in Hook, g # h PROVE g \notin Attempting' /\ at'[g] # "claim" /\ ~mem'[g].claimed
  <2>1. g \notin Attempting
    BY <1>3
  <2>2. QED
    BY <1>3, <2>1 DEF OneInv, Attempting
<1>4. ASSUME Alone' PROVE \A f, g \in Attempting' : f = g
  BY <1>3, <1>4 DEF Attempting
<1>5. ASSUME Alone', NEW g \in Hook, mem'[g].claimed \/ at'[g] = "claim" PROVE file' # {}
  BY <1>3, <1>5
<1>6. ASSUME Alone', NEW g \in Hook, NEW s \in file', mem'[g].claimed PROVE s.retry # {0}
  BY <1>3, <1>6
<1>7. QED
  BY <1>1, <1>2, <1>4, <1>5, <1>6 DEF OneInv

(* No hook makes an attempt.                                                *)
LEMMA OneNone ==
  ASSUME \A g \in Hook : at'[g] \in {"idle", "clear"} => mem'[g] = Idle,
         \A g \in Hook \ Attempting' : ~mem'[g].claimed,
         Alone' => Attempting' = {}
  PROVE  OneInv'
<1>1. ASSUME Alone', NEW g \in Hook PROVE ~mem'[g].claimed /\ at'[g] # "claim"
  BY <1>1 DEF Attempting
<1>2. QED
  BY <1>1 DEF OneInv

(* Nobody claims the retry before the file says when the next one is, so a  *)
(* hook that found it due is alone with it.                                 *)
LEMMA FoundAlone ==
  ASSUME TypeOK, OneInv, NEW h \in Hook, FindNoSession(h) \/ FindDue(h), Alone'
  PROVE  Attempting = {} /\ \A g \in Hook : ~mem[g].claimed
<1>1. \A g \in Attempting \ {h} : mem[g].claimed
  BY DEF FindNoSession, FindDue, Together, Alone
<1>2. \A g \in Hook : ~mem[g].claimed
  <2>1. Alone
    BY DEF FindNoSession, FindDue, Together, Alone
  <2>2. CASE FindNoSession(h)
    BY <2>1, <2>2 DEF FindNoSession, OneInv
  <2>3. CASE FindDue(h)
    BY <2>1, <2>3 DEF FindDue, OneInv
  <2>4. QED
    BY <2>2, <2>3
<1>3. h \notin Attempting
  BY DEF Attempting, FindNoSession, FindDue, Go
<1>4. QED
  BY <1>1, <1>2, <1>3 DEF Attempting

LEMMA OneStep == TypeOK /\ OneInv /\ [Next]_vars => OneInv'
<1> SUFFICES ASSUME TypeOK, OneInv, [Next]_vars PROVE OneInv'
  OBVIOUS
<1>a. at \in [Hook -> Places] /\ mem \in [Hook -> Mind]
  BY DEF TypeOK
<1>0. ASSUME NEW h \in Hook, Clear(h) PROVE OneInv'
  <2>1. at[h] = "clear" /\ at' = [at EXCEPT ![h] = "idle"] /\ mem' = mem /\ Attempting' = Attempting
        /\ (Alone' => Attempting = {})
    BY <1>0, Cleared
  <2>2. \A g \in Hook : at'[g] \in {"idle", "clear"} => at[g] \in {"idle", "clear"}
    BY <1>a, <2>1
  <2>3. QED
    BY <2>1, <2>2, OneNone DEF OneInv
<1> SUFFICES ASSUME ~\E h \in Hook : Clear(h) PROVE OneInv'
  BY <1>0
<1>b. Alone' => Alone
  BY UnrulyGrows
<1>1. ASSUME NEW h \in Hook, FireStart(h) PROVE OneInv'
  <2>1. /\ at[h] = "idle" /\ at'[h] = "token" /\ ~mem'[h].claimed /\ file' = file
        /\ Alone' => Attempting = {}
    BY <1>1, <1>a DEF FireStart, Go, Set, disk, Idle, Alone
  <2>2. \A g \in Hook \ {h} : at'[g] = at[g] /\ mem'[g] = mem[g]
    BY <1>1, Others
  <2>3. QED
    BY <1>b, <2>1, <2>2, OneBegins
<1>2. ASSUME NEW h \in Hook, FindNoSession(h) PROVE OneInv'
  <2>1. at[h] = "idle" /\ at'[h] = "token" /\ mem'[h] = Idle /\ file' = file
    BY <1>2, <1>a DEF FindNoSession, Go, disk, OneInv
  <2>2. \A g \in Hook \ {h} : at'[g] = at[g] /\ mem'[g] = mem[g]
    BY <1>2, Others
  <2>3. ~mem'[h].claimed /\ (Alone' => Attempting = {})
    BY <1>2, <2>1, FoundAlone DEF Idle
  <2>4. QED
    BY <1>b, <2>1, <2>2, <2>3, OneBegins
<1>3. ASSUME NEW h \in Hook, FindDue(h) PROVE OneInv'
  <2>1. PICK s \in file : mem' = [mem EXCEPT ![h] = [Idle EXCEPT !.prior = s.failures, !.answer = s.answer]]
    BY <1>3 DEF FindDue, Set
  <2>2. ~mem'[h].claimed
    BY <1>a, <2>1 DEF Idle
  <2>3. at[h] = "idle" /\ at'[h] = "claim" /\ file # {} /\ file' = file
    BY <1>3, <1>a, <2>1 DEF FindDue, Go, disk
  <2>4. \A g \in Hook \ {h} : at'[g] = at[g] /\ mem'[g] = mem[g]
    BY <1>3, Others
  <2>5. Alone' => Attempting = {}
    BY <1>3, FoundAlone
  <2>6. QED
    BY <1>b, <2>2, <2>3, <2>4, <2>5, OneBegins
<1>4. ASSUME NEW h \in Hook, Claim(h) PROVE OneInv'
  <2>1. /\ at[h] = "claim" /\ at'[h] = "token" /\ \A s \in file' : s.retry = {Delay(mem[h].prior + 1)}
        /\ file' # {}
    BY <1>4, <1>a DEF Claim, Go, State
  <2>2. \A s \in file' : s.retry # {0}
    <3>1. mem[h].prior + 1 \in Nat \ {0}
      <4>1. mem[h].prior \in 0..MaxFailures
        BY <1>a, MindType
      <4>2. QED
        BY <4>1, HandshakeAssumption
    <3>2. Delay(mem[h].prior + 1) # 0
      BY <3>1, DelayIsShort
    <3>3. QED
      BY <2>1, <3>2
  <2>3. \A g \in Hook \ {h} : at'[g] = at[g] /\ mem'[g] = mem[g]
    BY <1>4, Others
  <2>4. \A g \in Hook : at'[g] \in {"idle", "clear"} => mem'[g] = Idle
    BY <2>1, <2>3 DEF OneInv
  <2>5. h \in Attempting /\ Attempting' = Attempting
    BY <2>1, <2>3 DEF Attempting
  <2>6. ASSUME Alone' PROVE \A f, g \in Attempting' : f = g
    BY <1>b, <2>5, <2>6 DEF OneInv
  <2>7. \A g \in Hook \ Attempting' : ~mem'[g].claimed
    BY <2>3, <2>5 DEF OneInv
  <2>8. QED
    BY <2>1, <2>2, <2>4, <2>6, <2>7 DEF OneInv
<1>5. ASSUME NEW h \in Hook, GoesOn(h) PROVE OneInv'
  <2>1. PICK p \in {"renew", "ask", "again", "askAgain"}, e \in 0..2 :
          at' = [at EXCEPT ![h] = p] /\ mem' = [mem EXCEPT ![h] = [@ EXCEPT !.etag = e]]
    BY <1>5 DEF GoesOn
  <2>2. at'[h] = p /\ mem'[h].claimed = mem[h].claimed
    BY <1>a, <2>1 DEF Mind
  <2>3. h \in Attempting /\ h \in Attempting' /\ file' = file
    BY <1>5, <2>2 DEF GoesOn, Attempting
  <2>4. \A g \in Hook \ {h} : at'[g] = at[g] /\ mem'[g] = mem[g]
    BY <1>5, Others
  <2>5. QED
    BY <1>b, <2>1, <2>2, <2>3, <2>4, OneGoesOn
<1>6. ASSUME NEW h \in Hook, h \in Attempting, at'[h] \in {"idle", "handle"}, ~mem'[h].claimed,
             at'[h] = "idle" => mem'[h] = Idle,
             \A g \in Hook \ {h} : at'[g] = at[g] /\ mem'[g] = mem[g],
             file' # {} \/ file' = file
      PROVE  OneInv'
  BY <1>6, <1>b, OneGoesOn
<1>7. ASSUME NEW h \in Hook, GivesUp(h) \/ NoAnswer(h) \/ Cut(h), h \in Attempting PROVE OneInv'
  <2>1. at'[h] = "idle" /\ mem'[h] = Idle /\ (file' # {} \/ file' = file)
    BY <1>7, <1>a DEF GivesUp, NoAnswer, Failed, Finish, Set, Cut, disk
  <2>2. \A g \in Hook \ {h} : at'[g] = at[g] /\ mem'[g] = mem[g]
    BY <1>7, Others
  <2>3. QED
    BY <1>6, <1>7, <2>1, <2>2, IdleMind
<1>8. ASSUME NEW h \in Hook, Answered(h) PROVE OneInv'
  <2>1. PICK b : mem' = [mem EXCEPT ![h] = [@ EXCEPT !.answer = Told, !.bundle = b]]
    BY <1>8 DEF Answered, Set
  <2>2. mem'[h].claimed = mem[h].claimed
    BY <1>a, <2>1 DEF Mind
  <2>3. h \in Attempting /\ h \in Attempting' /\ at'[h] \in {"refetch", "finish"} /\ file' = file
    BY <1>8, <1>a DEF Answered, Asking, Go, Attempting
  <2>4. \A g \in Hook \ {h} : at'[g] = at[g] /\ mem'[g] = mem[g]
    BY <1>8, Others
  <2>5. QED
    BY <1>b, <2>2, <2>3, <2>4, OneGoesOn
<1>9. ASSUME NEW h \in Hook, Refetch(h) PROVE OneInv'
  <2>1. mem'[h].claimed = mem[h].claimed
    BY <1>9, <1>a DEF Refetch, Set, Mind
  <2>2. h \in Attempting /\ h \in Attempting' /\ at'[h] = "finish" /\ file' = file
    BY <1>9, <1>a DEF Refetch, Go, Attempting
  <2>3. \A g \in Hook \ {h} : at'[g] = at[g] /\ mem'[g] = mem[g]
    BY <1>9, Others
  <2>4. QED
    BY <1>b, <2>1, <2>2, <2>3, OneGoesOn
<1>10. CASE Tick
  <2>1. Attempting = {} /\ Attempting' = Attempting /\ UNCHANGED <<at, mem>>
    BY <1>10 DEF Tick, hooks, Attempting
  <2>2. QED
    BY <2>1, OneNone DEF OneInv
<1>11. CASE UNCHANGED <<file, bundle, at, mem, quiet, missed, newest, unruly>>
  BY <1>11 DEF OneInv, Alone, Attempting
<1>12. ASSUME NEW h \in Hook, Decide(h) PROVE OneInv'
  <2>1. PICK s \in FileState :
          /\ file' = {s}
          /\ \/ at' = [at EXCEPT ![h] = "idle"] /\ mem' = [mem EXCEPT ![h] = Idle]
             \/ at' = [at EXCEPT ![h] = "handle"] /\ mem' = [mem EXCEPT ![h] = [Idle EXCEPT !.kept = {s}]]
    BY <1>12, DecidedState
  <2>2. at'[h] \in {"idle", "handle"} /\ (at'[h] = "idle" => mem'[h] = Idle)
    BY <1>a, <2>1
  <2>3. mem'[h] = Idle \/ mem'[h] = [Idle EXCEPT !.kept = {s}]
    BY <1>a, <2>1
  <2>4. ~Idle.claimed /\ ~[Idle EXCEPT !.kept = {s}].claimed
    BY IdleMind
  <2>5. \A g \in Hook \ {h} : at'[g] = at[g] /\ mem'[g] = mem[g]
    BY <1>12, Others
  <2>6. h \in Attempting
    BY <1>12 DEF Decide, Attempting
  <2>7. QED
    BY <1>6, <2>1, <2>2, <2>3, <2>4, <2>5, <2>6
<1>13. ASSUME NEW h \in Hook, Handles(h) \/ WriteBack(h) PROVE OneInv'
  <2>1. /\ at[h] \in Handling /\ at'[h] \in Handling
        /\ ~mem'[h].claimed /\ (at'[h] \in {"idle", "clear"} => mem'[h] = Idle)
        /\ \A g \in Hook \ {h} : at'[g] = at[g] /\ mem'[g] = mem[g]
        /\ Attempting' = Attempting
        /\ Alone' => file' = file
    BY <1>13, Handled
  <2>2. \A g \in Hook : at'[g] \in {"idle", "clear"} => mem'[g] = Idle
    BY <2>1 DEF OneInv
  <2>3. \A g \in Hook \ Attempting' : ~mem'[g].claimed
    BY <2>1 DEF OneInv
  <2>4. ASSUME Alone', NEW g \in Hook, mem'[g].claimed \/ at'[g] = "claim"
        PROVE  file' # {} /\ (mem'[g].claimed => \A s \in file' : s.retry # {0})
    <3>1. g # h
      BY <2>1, <2>4 DEF Handling
    <3>2. QED
      BY <1>b, <2>1, <2>4, <3>1 DEF OneInv
  <2>5. QED
    BY <1>b, <2>1, <2>2, <2>3, <2>4 DEF OneInv
<1>14. \A h \in Hook : GivesUp(h) \/ NoAnswer(h) => h \in Attempting
  BY DEF GivesUp, NoAnswer, Asking, Attempting
<1>15. QED
  BY <1>1, <1>2, <1>3, <1>4, <1>5, <1>7, <1>8, <1>9, <1>10, <1>11, <1>12, <1>13, <1>14, Kinds
-----------------------------------------------------------------------------
(* What a session may do is what the newest answer allows                  *)

\* What a hook that is at it knows, as long as it is alone.
Knows(h) ==
    /\ at[h] \in {"ask", "again", "askAgain"} => mem[h].etag = bundle
    /\ at[h] = "refetch" => bundle = 0
    /\ at[h] \in {"refetch", "finish"} => mem[h].answer = newest

(* A step of one hook that is at it: the others have nothing to know.       *)
LEMMA AnswerGoesOn ==
  ASSUME TypeOK, OneInv, AnswerInv, NEW h \in Hook, h \in Attempting, Alone' => Alone,
         \A g \in Hook \ {h} : at'[g] = at[g] /\ mem'[g] = mem[g],
         Alone => Knows(h)',
         Calm' => \A s \in file' : ~s.inert => s.answer = newest' \/ at'[h] = "finish"
  PROVE  AnswerInv'
<1>1. ASSUME Alone', NEW g \in Hook PROVE Knows(g)'
  <2>1. Alone
    BY <1>1
  <2>2. CASE g = h
    BY <2>1, <2>2
  <2>3. CASE g # h
    <3>1. g \notin Attempting
      BY <2>1, <2>3 DEF OneInv
    <3>2. at'[g] \notin {"ask", "again", "askAgain", "refetch", "finish"}
      BY <2>3, <3>1 DEF Attempting
    <3>3. QED
      BY <3>2 DEF Knows
  <2>4. QED
    BY <2>2, <2>3
<1>2. QED
  BY <1>1 DEF AnswerInv, Knows

(* A step of one hook that makes no attempt, or begins one: it knows        *)
(* nothing, and the file stays as it is.                                    *)
LEMMA AnswerStays ==
  ASSUME TypeOK, AnswerInv, NEW h \in Hook, h \notin Attempting,
         at'[h] \notin {"ask", "again", "askAgain", "refetch", "finish"},
         Alone' => Alone /\ file' = file, Calm' => Calm,
         \A g \in Hook \ {h} : at'[g] = at[g] /\ mem'[g] = mem[g], UNCHANGED <<bundle, newest>>
  PROVE  AnswerInv'
<1>1. ASSUME Alone', NEW g \in Hook PROVE Knows(g)'
  <2>1. Alone /\ Knows(g)
    BY <1>1 DEF AnswerInv, Knows
  <2>2. QED
    BY <2>1 DEF Knows
<1>2. \A g \in Hook : at[g] = "finish" => at'[g] = "finish"
  BY DEF Attempting
<1>3. Calm' => \A s \in file' : ~s.inert => s.answer = newest' \/ \E g \in Hook : at'[g] = "finish"
  BY <1>2 DEF AnswerInv, Calm
<1>4. QED
  BY <1>1, <1>3 DEF AnswerInv, Knows

LEMMA AnswerStep == TypeOK /\ BundleInv /\ OneInv /\ AnswerInv /\ [Next]_vars => AnswerInv'
<1> SUFFICES ASSUME TypeOK, BundleInv, OneInv, AnswerInv, [Next]_vars PROVE AnswerInv'
  OBVIOUS
<1>0. ASSUME NEW h \in Hook, Clear(h) PROVE AnswerInv'
  <2>1. file' = {} /\ Attempting' = Attempting /\ (Alone' => Attempting = {})
    BY <1>0, Cleared
  <2>2. Alone' => \A g \in Hook : at'[g] \notin {"ask", "again", "askAgain", "refetch", "finish"}
    BY <2>1 DEF Attempting
  <2>3. QED
    BY <2>1, <2>2 DEF AnswerInv
<1> SUFFICES ASSUME ~\E h \in Hook : Clear(h) PROVE AnswerInv'
  BY <1>0
<1>a. at \in [Hook -> Places] /\ mem \in [Hook -> Mind] /\ (Alone' => Alone) /\ (Calm' => Calm)
  BY UnrulyGrows DEF TypeOK
<1>b. Alone => \A g \in Hook : Knows(g)
  BY DEF AnswerInv, Knows
<1>c. ASSUME NEW h \in Hook, h \in Attempting, at[h] # "finish", UNCHANGED <<file, newest>>, Calm'
      PROVE  \A s \in file' : ~s.inert => s.answer = newest'
  <2>1. Calm
    BY <1>a, <1>c
  <2>2. \A g \in Hook : at[g] # "finish"
    BY <2>1, <1>c DEF Calm, OneInv, Attempting
  <2>3. QED
    BY <2>1, <2>2, <1>c DEF AnswerInv
<1>1. ASSUME NEW h \in Hook, FireStart(h) \/ FindNoSession(h) \/ FindDue(h) PROVE AnswerInv'
  <2>1. h \notin Attempting /\ at'[h] \in {"token", "claim"} /\ UNCHANGED <<file, bundle, newest>>
    BY <1>1, <1>a DEF FireStart, FindNoSession, FindDue, Go, disk, Attempting
  <2>2. \A g \in Hook \ {h} : at'[g] = at[g] /\ mem'[g] = mem[g]
    BY <1>1, Others
  <2>3. QED
    BY <1>a, <2>1, <2>2, AnswerStays
<1>2. ASSUME NEW h \in Hook, Claim(h) PROVE AnswerInv'
  <2>1. h \in Attempting /\ at'[h] = "token" /\ \A s \in file' : s.inert
    BY <1>2, <1>a DEF Claim, Go, State, Attempting
  <2>2. \A g \in Hook \ {h} : at'[g] = at[g] /\ mem'[g] = mem[g]
    BY <1>2, Others
  <2>3. Knows(h)'
    BY <2>1 DEF Knows
  <2>4. QED
    BY <1>a, <2>1, <2>2, <2>3, AnswerGoesOn
<1>3. ASSUME NEW h \in Hook, GoesOn(h) PROVE AnswerInv'
  <2>1. PICK p \in {"renew", "ask", "again", "askAgain"}, e \in 0..2 :
          /\ at' = [at EXCEPT ![h] = p] /\ mem' = [mem EXCEPT ![h] = [@ EXCEPT !.etag = e]]
          /\ e = bundle \/ (e = mem[h].etag /\ (p = "renew" \/ at[h] \in {"ask", "again"}))
    BY <1>3 DEF GoesOn
  <2>2. at'[h] = p /\ mem'[h].etag = e
    BY <1>a, <2>1 DEF Mind
  <2>3. h \in Attempting /\ at[h] # "finish" /\ at[h] # "refetch" /\ UNCHANGED <<file, bundle, newest>>
    BY <1>3 DEF GoesOn, Attempting
  <2>4. Alone => Knows(h)'
    <3> SUFFICES ASSUME Alone PROVE Knows(h)'
      OBVIOUS
    <3>1. Knows(h)
      BY <1>b
    <3>2. p = "renew" \/ e = bundle
      BY <2>1, <3>1 DEF Knows
    <3>3. QED
      BY <2>1, <2>2, <2>3, <3>2 DEF Knows
  <2>5. \A g \in Hook \ {h} : at'[g] = at[g] /\ mem'[g] = mem[g]
    BY <1>3, Others
  <2>7. Calm' => \A s \in file' : ~s.inert => s.answer = newest'
    BY <2>3, <1>c
  <2>8. QED
    BY <1>a, <2>3, <2>4, <2>5, <2>7, AnswerGoesOn
<1>4. ASSUME NEW h \in Hook, GivesUp(h) \/ NoAnswer(h) PROVE AnswerInv'
  <2>1. h \in Attempting /\ \E s : s.inert /\ Finish(h, s)
    BY <1>4, SilentState DEF GivesUp, NoAnswer, Failed, Asking, Attempting
  <2>2. at'[h] = "idle" /\ \A s \in file' : s.inert
    BY <1>a, <2>1 DEF Finish
  <2>3. \A g \in Hook \ {h} : at'[g] = at[g] /\ mem'[g] = mem[g]
    BY <1>4, Others
  <2>4. Knows(h)'
    BY <2>2 DEF Knows
  <2>5. QED
    BY <1>a, <2>1, <2>2, <2>3, <2>4, AnswerGoesOn
<1>5. ASSUME NEW h \in Hook, Answered(h) PROVE AnswerInv'
  <2> DEFINE sent == Sent(mem[h].etag)
             has == IF sent # 0 THEN sent ELSE mem[h].etag
  <2>1. /\ at[h] \in {"ask", "askAgain"} /\ bundle' = (IF sent # 0 THEN sent ELSE bundle)
        /\ at' = [at EXCEPT ![h] = IF has = 0 THEN "refetch" ELSE "finish"]
        /\ mem' = [mem EXCEPT ![h] = [@ EXCEPT !.answer = Told, !.bundle = has]]
        /\ newest' = Told /\ UNCHANGED <<file, unruly>>
    BY <1>5 DEF Answered, Asking, Go, Set
  <2> HIDE DEF sent
  <2>2. at'[h] = (IF has = 0 THEN "refetch" ELSE "finish") /\ mem'[h].answer = newest'
    BY <1>a, <2>1 DEF Mind
  <2>3. Alone => Knows(h)'
    <3> SUFFICES ASSUME Alone PROVE Knows(h)'
      OBVIOUS
    <3>1. mem[h].etag = bundle
      BY <1>b, <2>1 DEF Knows
    <3>2. QED
      BY <2>1, <2>2, <3>1 DEF Knows
  <2>4. \A g \in Hook \ {h} : at'[g] = at[g] /\ mem'[g] = mem[g]
    BY <1>5, Others
  <2>5. h \in Attempting
    BY <2>1 DEF Attempting
  <2>6. Calm' => \A s \in file' : ~s.inert => at'[h] = "finish"
    <3> SUFFICES ASSUME Calm', has = 0, NEW s \in file', ~s.inert PROVE FALSE
      BY <2>2
    <3>1. mem[h].etag = bundle
      BY <1>a, <1>b, <2>1 DEF Knows, Calm
    <3>2. bundle = 0
      BY <3>1
    <3>3. QED
      BY <2>1, <3>2 DEF BundleInv, Lawful
  <2>7. QED
    BY <1>a, <2>1, <2>3, <2>4, <2>5, <2>6, AnswerGoesOn
<1>6. ASSUME NEW h \in Hook, Refetch(h) PROVE AnswerInv'
  <2>1. at[h] = "refetch" /\ at'[h] = "finish" /\ file' = file
    BY <1>6, <1>a DEF Refetch, Go
  <2>2. \/ UNCHANGED <<mem, newest>>
        \/ mem'[h].answer = newest'
    BY <1>6, <1>a DEF Refetch, Set, Mind
  <2>3. Alone => Knows(h)'
    BY <1>b, <2>1, <2>2 DEF Knows
  <2>4. \A g \in Hook \ {h} : at'[g] = at[g] /\ mem'[g] = mem[g]
    BY <1>6, Others
  <2>5. h \in Attempting
    BY <2>1 DEF Attempting
  <2>6. QED
    BY <1>a, <2>1, <2>3, <2>4, <2>5, AnswerGoesOn
<1>7. ASSUME NEW h \in Hook, Decide(h) PROVE AnswerInv'
  <2>1. PICK s \in FileState : /\ file' = {s} /\ s.answer = mem[h].answer
                               /\ \/ at' = [at EXCEPT ![h] = "idle"]
                                  \/ at' = [at EXCEPT ![h] = "handle"]
    BY <1>7, DecidedState
  <2>2. at[h] = "finish" /\ at'[h] \in {"idle", "handle"} /\ newest' = newest /\ h \in Attempting
    BY <1>7, <1>a, <2>1 DEF Decide, Attempting
  <2>4. Knows(h)'
    BY <2>2 DEF Knows
  <2>5. Calm' => \A t \in file' : t.answer = newest'
    <3> SUFFICES ASSUME Calm' PROVE s.answer = newest'
      BY <2>1
    <3>1. Alone
      BY <1>a DEF Calm
    <3>2. mem[h].answer = newest
      BY <1>b, <2>2, <3>1 DEF Knows
    <3>3. QED
      BY <2>1, <2>2, <3>2
  <2>6. \A g \in Hook \ {h} : at'[g] = at[g] /\ mem'[g] = mem[g]
    BY <1>7, Others
  <2>7. QED
    BY <1>a, <2>2, <2>4, <2>5, <2>6, AnswerGoesOn
<1>8. ASSUME NEW h \in Hook, Cut(h), h \in Attempting PROVE AnswerInv'
  <2>1. at'[h] = "idle" /\ ~Calm'
    BY <1>8, <1>a DEF Cut, Calm
  <2>2. \A g \in Hook \ {h} : at'[g] = at[g] /\ mem'[g] = mem[g]
    BY <1>8, Others
  <2>3. Knows(h)'
    BY <2>1 DEF Knows
  <2>5. QED
    BY <1>8, <1>a, <2>1, <2>2, <2>3, AnswerGoesOn
<1>9. CASE Tick
  <2>1. PICK s \in file : file' = {[s EXCEPT !.retry = {0}]}
    BY <1>9 DEF Tick
  <2>2. [s EXCEPT !.retry = {0}].inert = s.inert /\ [s EXCEPT !.retry = {0}].answer = s.answer
    <3>1. s \in FileState
      BY <2>1, FilesType DEF TypeOK
    <3>2. QED
      BY <3>1 DEF FileState
  <2>3. UNCHANGED <<bundle, at, mem, newest, unruly>>
    BY <1>9 DEF Tick, hooks
  <2>4. QED
    BY <2>1, <2>2, <2>3 DEF AnswerInv, Alone, Calm
<1>10. CASE UNCHANGED <<file, bundle, at, mem, quiet, missed, newest, unruly>>
  BY <1>10 DEF AnswerInv, Alone, Calm
<1>11. ASSUME NEW h \in Hook, Handles(h) \/ WriteBack(h) PROVE AnswerInv'
  <2>1. /\ h \notin Attempting /\ at'[h] \in Handling /\ UNCHANGED <<bundle, newest>>
        /\ \A g \in Hook \ {h} : at'[g] = at[g] /\ mem'[g] = mem[g]
        /\ Alone' => file' = file
    BY <1>11, Handled
  <2>2. at'[h] \notin {"ask", "again", "askAgain", "refetch", "finish"}
    BY <2>1 DEF Handling
  <2>3. QED
    BY <1>a, <2>1, <2>2, AnswerStays
<1>12. QED
  BY <1>1, <1>2, <1>3, <1>4, <1>5, <1>6, <1>7, <1>8, <1>9, <1>10, <1>11, Kinds

LEMMA AllInit == Init => BundleInv /\ OneInv /\ AnswerInv /\ BackoffInv
<1> SUFFICES ASSUME Init PROVE BundleInv /\ OneInv /\ AnswerInv /\ BackoffInv
  OBVIOUS
<1>1. file = {} /\ quiet = 0 /\ missed = 0 /\ \A h \in Hook : at[h] = "idle" /\ mem[h] = Idle
  BY DEF Init
<1>2. Idle.etag = 0 /\ Idle.bundle = 0 /\ ~Idle.claimed /\ Idle.kept = {}
  BY DEF Idle
<1>3. BundleInv
  BY <1>1, <1>2 DEF BundleInv
<1>4. OneInv
  BY <1>1, <1>2 DEF OneInv, Attempting
<1>5. AnswerInv
  BY <1>1 DEF AnswerInv
<1>6. BackoffInv
  BY <1>1 DEF BackoffInv, Attempting
<1>7. QED
  BY <1>3, <1>4, <1>5, <1>6

(* Fail closed (session.rs:163-203): a live session has a classifier on     *)
(* disk and runs as the newest answer says, for any number of hooks and     *)
(* faults.                                                                  *)
THEOREM SessionFailsClosed == Spec => []FailClosed
<1> DEFINE I == TypeOK /\ BundleInv /\ OneInv /\ AnswerInv
<1>1. Init => I
  BY InitType, AllInit
<1>2. I /\ [Next]_vars => I'
  BY TypeStep, BundleStep, OneStep, AnswerStep
<1>3. I => FailClosed
  BY DEF BundleInv, Lawful, AnswerInv, FailClosed, Disorder, Calm, Alone
<1>4. QED
  BY <1>1, <1>2, <1>3, PTL DEF Spec
-----------------------------------------------------------------------------
(* Attempts keep their distance                                            *)

(* A step of one hook that is at it and leaves the file, or one file.       *)
LEMMA BackoffGoesOn ==
  ASSUME TypeOK, OneInv, BackoffInv, NEW h \in Hook, h \in Attempting, Calm' => Calm,
         \A g \in Hook \ {h} : at'[g] = at[g] /\ mem'[g] = mem[g], at'[h] # "claim",
         Calm => /\ file' = {} => quiet' = 0 /\ missed' = 0
                 /\ \A s \in file', m \in 0..10 : s.retry = {m} => quiet' <= m /\ missed' <= s.failures
                 /\ h \in Attempting' => missed' <= mem'[h].prior
  PROVE  BackoffInv'
<1> SUFFICES ASSUME Calm' PROVE BackoffInv'
  BY DEF BackoffInv
<1>1. Calm /\ Alone
  BY DEF Calm
<1>2. \A g \in Hook \ {h} : g \notin Attempting
  BY <1>1 DEF OneInv
<1>3. \A g \in Hook \ {h} : g \notin Attempting' /\ at'[g] # "claim"
  BY <1>2 DEF Attempting
<1>4. QED
  BY <1>1, <1>3 DEF BackoffInv, Attempting

LEMMA BackoffStep == TypeOK /\ OneInv /\ BackoffInv /\ [Next]_vars => BackoffInv'
<1> SUFFICES ASSUME TypeOK, OneInv, BackoffInv, [Next]_vars PROVE BackoffInv'
  OBVIOUS
<1>0. ASSUME NEW h \in Hook, Clear(h) PROVE BackoffInv'
  <2>1. file' = {} /\ quiet' = 0 /\ missed' = 0 /\ Attempting' = Attempting /\ (Alone' => Attempting = {})
    BY <1>0, Cleared
  <2>2. Alone' => \A g \in Hook : at'[g] # "claim"
    BY <2>1 DEF Attempting
  <2>3. QED
    BY <2>1, <2>2 DEF BackoffInv, Calm
<1> SUFFICES ASSUME ~\E h \in Hook : Clear(h) PROVE BackoffInv'
  BY <1>0
<1>a. at \in [Hook -> Places] /\ mem \in [Hook -> Mind] /\ (Calm' => Calm)
  BY UnrulyGrows DEF TypeOK
<1>b. quiet \in 0..10 /\ missed \in 0..MaxFailures /\ MaxFailures \in Nat /\ MaxFailures >= 5
  BY HandshakeAssumption DEF TypeOK
<1>c. Calm' => Calm
  BY <1>a
<1>d. \A s \in file : s \in FileState /\ file = {s} /\ s.failures \in 0..MaxFailures
  BY FilesType DEF TypeOK, FileState
<1>1. ASSUME NEW h \in Hook, FireStart(h) PROVE BackoffInv'
  <2>1. /\ at' = [at EXCEPT ![h] = "token"] /\ mem' = [mem EXCEPT ![h] = [Idle EXCEPT !.start = TRUE]]
        /\ file' = file /\ missed' = 0 /\ quiet' = quiet
    BY <1>1 DEF FireStart, Go, Set, disk
  <2>2. \A g \in Hook : mem'[g].prior \in 0..MaxFailures
    <3>1. mem' \in [Hook -> Mind]
      BY <1>a, <2>1, MindType
    <3>2. QED
      BY <3>1, MindType
  <2>3. \A s \in file : s.failures \in 0..MaxFailures
    BY <1>d
  <2>4. \A g \in Hook : at'[g] = "claim" => at[g] = "claim"
    BY <1>a, <2>1
  <2>5. (\A g \in Hook : 0 <= mem'[g].prior) /\ \A s \in file : 0 <= s.failures
    BY <1>b, <2>2, <2>3
  <2>6. QED
    BY <1>c, <2>1, <2>4, <2>5 DEF BackoffInv, Attempting
<1>2. ASSUME NEW h \in Hook, FindNoSession(h) PROVE BackoffInv'
  <2>1. at' = [at EXCEPT ![h] = "token"] /\ at[h] = "idle" /\ mem[h] = Idle /\ file = {}
        /\ UNCHANGED <<file, mem, quiet, missed>>
    BY <1>2 DEF FindNoSession, Go, disk, OneInv
  <2>2. \A g \in Attempting' : g \in Attempting \/ g = h
    BY <1>a, <2>1 DEF Attempting
  <2>3. \A g \in Hook : at'[g] = "claim" => at[g] = "claim"
    BY <1>a, <2>1
  <2>4. Calm' => missed <= mem[h].prior
    BY <1>b, <1>c, <2>1 DEF BackoffInv, Idle
  <2>5. QED
    BY <1>c, <2>1, <2>2, <2>3, <2>4 DEF BackoffInv
<1>3. ASSUME NEW h \in Hook, FindDue(h) PROVE BackoffInv'
  <2>1. PICK s \in file : s.retry = {0} /\ mem' = [mem EXCEPT ![h] = [Idle EXCEPT !.prior = s.failures, !.answer = s.answer]]
    BY <1>3 DEF FindDue, Set
  <2>2. mem'[h].prior = s.failures
    BY <1>a, <2>1 DEF Idle
  <2>3. at' = [at EXCEPT ![h] = "claim"] /\ UNCHANGED <<file, quiet, missed>>
    BY <1>3 DEF FindDue, Go, disk
  <2>4. Calm' => quiet = 0 /\ missed <= mem'[h].prior
    BY <1>b, <1>c, <2>1, <2>2 DEF BackoffInv
  <2>5. \A g \in Hook \ {h} : at'[g] = at[g] /\ mem'[g] = mem[g]
    BY <1>3, Others
  <2>6. QED
    BY <1>c, <2>3, <2>4, <2>5 DEF BackoffInv, Attempting
<1>4. ASSUME NEW h \in Hook, Claim(h) PROVE BackoffInv'
  <2>1. /\ at[h] = "claim" /\ at'[h] = "token" /\ UNCHANGED <<quiet, missed>> /\ h \in Attempting
        /\ file' = {State(TRUE, {Delay(mem[h].prior + 1)}, mem[h].prior, mem[h].answer)}
    BY <1>4, <1>a DEF Claim, Go, history, Attempting
  <2>2. mem'[h].prior = mem[h].prior /\ mem[h].prior \in Nat
    <3>1. mem[h].prior \in 0..MaxFailures
      BY <1>a, MindType
    <3>2. QED
      BY <1>4, <1>a, <1>b, <3>1 DEF Claim, Set, Mind
  <2>3. \A g \in Hook \ {h} : at'[g] = at[g] /\ mem'[g] = mem[g]
    BY <1>4, Others
  <2>4. Calm => quiet = 0 /\ missed <= mem[h].prior
    BY <2>1 DEF BackoffInv, Attempting
  <2>5. Calm => \A s \in file', m \in 0..10 : s.retry = {m} => quiet' <= m /\ missed' <= s.failures
    BY <1>b, <2>1, <2>4 DEF State
  <2>6. QED
    BY <1>a, <2>1, <2>2, <2>3, <2>4, <2>5, BackoffGoesOn
<1>5. ASSUME NEW h \in Hook, GoesOn(h) PROVE BackoffInv'
  <2>1. PICK p \in {"renew", "ask", "again", "askAgain"}, e \in 0..2 :
          at' = [at EXCEPT ![h] = p] /\ mem' = [mem EXCEPT ![h] = [@ EXCEPT !.etag = e]]
    BY <1>5 DEF GoesOn
  <2>2. at'[h] = p /\ mem'[h].prior = mem[h].prior
    BY <1>a, <2>1 DEF Mind
  <2>3. h \in Attempting /\ UNCHANGED <<file, quiet, missed>>
    BY <1>5 DEF GoesOn, Attempting
  <2>4. \A g \in Hook \ {h} : at'[g] = at[g] /\ mem'[g] = mem[g]
    BY <1>5, Others
  <2>5. Calm => missed <= mem[h].prior
    BY <2>3 DEF BackoffInv, Attempting
  <2>6. Calm => /\ file' = {} => quiet' = 0 /\ missed' = 0
                /\ \A s \in file', m \in 0..10 : s.retry = {m} => quiet' <= m /\ missed' <= s.failures
    BY <2>3 DEF BackoffInv
  <2>7. QED
    BY <1>a, <2>2, <2>3, <2>4, <2>5, <2>6, BackoffGoesOn
<1>6. ASSUME NEW h \in Hook, GivesUp(h) \/ Decide(h) PROVE BackoffInv'
  <2>1. h \in Attempting /\ at'[h] \in {"idle", "handle"} /\ \E s : file' = {s} /\ s.retry = {}
    <3>1. CASE GivesUp(h)
      BY <1>a, <3>1 DEF GivesUp, Finish
    <3>2. CASE Decide(h)
      <4>1. PICK s \in FileState : /\ file' = {s} /\ s.retry = {}
                                   /\ at' = [at EXCEPT ![h] = "idle"] \/ at' = [at EXCEPT ![h] = "handle"]
        BY <3>2, DecidedState
      <4>2. QED
        BY <1>a, <3>2, <4>1 DEF Decide, Attempting
    <3>3. QED
      BY <1>6, <3>1, <3>2
  <2>2. \A g \in Hook \ {h} : at'[g] = at[g] /\ mem'[g] = mem[g]
    BY <1>6, Others
  <2>3. h \notin Attempting' /\ at'[h] # "claim"
    BY <2>1 DEF Attempting
  <2>4. file' # {} /\ \A s \in file', m \in 0..10 : s.retry # {m}
    BY <2>1
  <2>5. QED
    BY <1>a, <2>1, <2>2, <2>3, <2>4, BackoffGoesOn
<1>7. ASSUME NEW h \in Hook, NoAnswer(h) PROVE BackoffInv'
  <2>1. PICK n \in 1..MaxFailures, r \in Retry :
           /\ n = IF mem[h].prior < MaxFailures THEN mem[h].prior + 1 ELSE MaxFailures
           /\ r = {Delay(n)} /\ Finish(h, State(TRUE, r, n, Silence))
    BY <1>7, FailedType DEF NoAnswer
  <2>2. /\ h \in Attempting /\ h \notin Attempting' /\ at'[h] = "idle"
        /\ file' = {State(TRUE, {Delay(n)}, n, Silence)}
    BY <1>7, <1>a, <2>1 DEF NoAnswer, Asking, Finish, Attempting
  <2>3. /\ missed' = IF missed < MaxFailures THEN missed + 1 ELSE MaxFailures
        /\ quiet' = Delay(missed + 1)
    BY <1>7, <1>b, MissedStep DEF NoAnswer
  <2>4. Calm => missed <= mem[h].prior /\ mem[h].prior \in 0..MaxFailures
    BY <1>a, <2>2, MindType DEF BackoffInv, Attempting
  <2>5. Calm => quiet' <= Delay(n) /\ missed' <= n
    <3> SUFFICES ASSUME Calm PROVE quiet' <= Delay(n) /\ missed' <= n
      OBVIOUS
    <3>1. missed' <= n
      BY <1>b, <2>1, <2>3, <2>4
    <3>2. CASE mem[h].prior < MaxFailures
      <4>1. missed + 1 \in Nat \ {0} /\ n \in Nat \ {0} /\ missed + 1 <= n
        BY <1>b, <2>1, <2>4, <3>2
      <4>2. QED
        BY <2>3, <3>1, <4>1, DelayGrows
    <3>3. CASE ~(mem[h].prior < MaxFailures)
      <4>1. n = MaxFailures /\ n \in Nat \ {0} /\ n >= 5 /\ missed + 1 \in Nat \ {0}
        BY <1>b, <2>1, <3>3
      <4>2. Delay(n) = 10 /\ Delay(missed + 1) \in 1..10
        BY <4>1, Delays, DelayIsShort
      <4>3. QED
        BY <2>3, <3>1, <4>2
    <3>4. QED
      BY <3>2, <3>3
  <2>6. \A s \in file' : s.retry = {Delay(n)} /\ s.failures = n
    BY <2>2 DEF State
  <2>7. \A g \in Hook \ {h} : at'[g] = at[g] /\ mem'[g] = mem[g]
    BY <1>7, Others
  <2>8. Calm => \A s \in file', m \in 0..10 : s.retry = {m} => quiet' <= m /\ missed' <= s.failures
    BY <2>5, <2>6
  <2>9. QED
    BY <1>a, <2>2, <2>7, <2>8, BackoffGoesOn
<1>8. ASSUME NEW h \in Hook, Answered(h) PROVE BackoffInv'
  <2>1. PICK b : mem' = [mem EXCEPT ![h] = [@ EXCEPT !.answer = Told, !.bundle = b]]
    BY <1>8 DEF Answered, Set
  <2>2. mem'[h].prior = mem[h].prior /\ mem[h].prior \in 0..MaxFailures
    <3>1. mem[h].prior \in 0..MaxFailures
      BY <1>a, MindType
    <3>2. QED
      BY <1>a, <2>1, <3>1 DEF Mind
  <2>3. h \in Attempting /\ at'[h] \in {"refetch", "finish"} /\ file' = file /\ quiet' = 0 /\ missed' = 0
    BY <1>8, <1>a DEF Answered, Asking, Go, Attempting
  <2>4. \A g \in Hook \ {h} : at'[g] = at[g] /\ mem'[g] = mem[g]
    BY <1>8, Others
  <2>5. \A s \in file' : s.failures \in 0..MaxFailures
    BY <1>d, <2>3
  <2>6. \A s \in file' : 0 <= s.failures
    BY <1>b, <2>5
  <2>7. QED
    BY <1>a, <1>b, <2>2, <2>3, <2>4, <2>6, BackoffGoesOn
<1>9. ASSUME NEW h \in Hook, Refetch(h) PROVE BackoffInv'
  <2>1. mem'[h].prior = mem[h].prior
    BY <1>9, <1>a DEF Refetch, Set, Mind
  <2>2. h \in Attempting /\ at'[h] = "finish" /\ UNCHANGED <<file, quiet, missed>>
    BY <1>9, <1>a DEF Refetch, Go, Attempting
  <2>3. \A g \in Hook \ {h} : at'[g] = at[g] /\ mem'[g] = mem[g]
    BY <1>9, Others
  <2>4. Calm => missed <= mem[h].prior
    BY <2>2 DEF BackoffInv, Attempting
  <2>5. Calm => /\ file' = {} => quiet' = 0 /\ missed' = 0
                /\ \A s \in file', m \in 0..10 : s.retry = {m} => quiet' <= m /\ missed' <= s.failures
    BY <2>2 DEF BackoffInv
  <2>6. QED
    BY <1>a, <2>1, <2>2, <2>3, <2>4, <2>5, BackoffGoesOn
<1>10. ASSUME NEW h \in Hook, Cut(h), h \in Attempting PROVE BackoffInv'
  BY <1>10 DEF Cut, BackoffInv, Calm
<1>11. CASE Tick
  <2>1. PICK s \in file, k \in 1..10 : /\ s.retry = {k} /\ file' = {[s EXCEPT !.retry = {0}]}
                                       /\ quiet' = Max({quiet, k}) - k
    BY <1>11 DEF Tick
  <2>2. UNCHANGED <<at, mem, missed, unruly>>
    BY <1>11 DEF Tick, hooks
  <2>3. [s EXCEPT !.retry = {0}].retry = {0} /\ [s EXCEPT !.retry = {0}].failures = s.failures
    BY <1>d DEF FileState
  <2>4. Calm => quiet <= k /\ missed <= s.failures
    BY <2>1 DEF BackoffInv
  <2>5. Calm => quiet' = 0
    <3>1. Max({quiet, k}) = IF quiet <= k THEN k ELSE quiet
      BY <1>b, MaxOfTwo
    <3>2. QED
      BY <2>1, <2>4, <3>1
  <2>6. Calm => \A t \in file', m \in 0..10 : t.retry = {m} => quiet' <= m /\ missed' <= t.failures
    <3>1. \A t \in file' : t.retry = {0} /\ t.failures = s.failures
      BY <2>1, <2>3
    <3>2. QED
      BY <2>2, <2>4, <2>5, <3>1
  <2>7. file' # {}
    BY <2>1
  <2>8. QED
    BY <1>c, <2>2, <2>5, <2>6, <2>7 DEF BackoffInv, Attempting
<1>12. CASE UNCHANGED <<file, bundle, at, mem, quiet, missed, newest, unruly>>
  BY <1>12 DEF BackoffInv, Alone, Calm, Attempting
<1>13. ASSUME NEW h \in Hook, Handles(h) \/ WriteBack(h) PROVE BackoffInv'
  <2>1. /\ h \notin Attempting /\ Attempting' = Attempting /\ at'[h] \in Handling
        /\ UNCHANGED <<quiet, missed>>
        /\ \A g \in Hook \ {h} : at'[g] = at[g] /\ mem'[g] = mem[g]
        /\ Alone' => file' = file
    BY <1>13, Handled
  <2>2. \A g \in Attempting : mem'[g] = mem[g]
    BY <2>1 DEF Attempting
  <2>3. \A g \in Hook : at'[g] = "claim" => at[g] = "claim"
    BY <2>1 DEF Handling
  <2>4. Calm' => Calm /\ file' = file
    BY <1>c, <2>1 DEF Calm
  <2>5. QED
    BY <2>1, <2>2, <2>3, <2>4 DEF BackoffInv
<1>14. QED
  BY <1>1, <1>2, <1>3, <1>4, <1>5, <1>6, <1>7, <1>8, <1>9, <1>10, <1>11, <1>12, <1>13, Kinds

(* A hook that is not the start of a session attempts only when the time    *)
(* that the failures so far call for is over and no other hook is making    *)
(* the attempt (session.rs:297-300).                                        *)
LEMMA DistanceStep ==
  ASSUME TypeOK, OneInv, BackoffInv, [Next]_vars,
         NEW h \in Hook, h \notin Attempting, h \in Attempting', ~mem'[h].start
  PROVE  \/ quiet = 0 /\ \A g \in Hook : ~mem[g].claimed
         \/ unruly' \cap Disorder # {}
<1>a. at \in [Hook -> Places] /\ mem \in [Hook -> Mind]
  BY DEF TypeOK
<1>0. at'[h] # at[h]
  BY DEF Attempting
<1>1. ASSUME FindNoSession(h) \/ FindDue(h), Calm' PROVE quiet = 0 /\ \A g \in Hook : ~mem[g].claimed
  <2>1. \A g \in Hook : ~mem[g].claimed
    BY <1>1, FoundAlone DEF Calm
  <2>2. Calm
    BY <1>1 DEF FindNoSession, FindDue, Together, Calm, Alone
  <2>3. quiet = 0
    <3>1. CASE FindNoSession(h)
      BY <2>2, <3>1 DEF FindNoSession, BackoffInv
    <3>2. CASE FindDue(h)
      <4>1. quiet \in 0..10 /\ \E s \in file : s.retry = {0}
        BY <3>2 DEF FindDue, TypeOK
      <4>2. QED
        BY <2>2, <4>1 DEF BackoffInv
    <3>3. QED
      BY <1>1, <3>1, <3>2
  <2>4. QED
    BY <2>1, <2>3
<1>2. ASSUME NEW g \in Hook, g # h,
             \/ FireStart(g) \/ FindNoSession(g) \/ FindDue(g) \/ Claim(g) \/ GoesOn(g)
             \/ GivesUp(g) \/ NoAnswer(g) \/ Answered(g) \/ Refetch(g) \/ Decide(g) \/ Cut(g)
             \/ Handles(g) \/ WriteBack(g) \/ Clear(g)
      PROVE  FALSE
  BY <1>0, <1>2, Others
<1>3. ~FireStart(h)
  <2>1. FireStart(h) => mem' = [mem EXCEPT ![h] = [Idle EXCEPT !.start = TRUE]]
    BY DEF FireStart, Set
  <2>2. [Idle EXCEPT !.start = TRUE].start
    BY DEF Idle
  <2>3. QED
    BY <1>a, <2>1, <2>2
<1>4. ~Claim(h) /\ ~GoesOn(h) /\ ~GivesUp(h) /\ ~NoAnswer(h) /\ ~Answered(h) /\ ~Refetch(h) /\ ~Decide(h)
  BY DEF Claim, Go, GoesOn, GivesUp, NoAnswer, Answered, Asking, Refetch, Decide, Attempting
<1>5. ~Tick /\ ~UNCHANGED <<file, bundle, at, mem, quiet, missed, newest, unruly>>
  BY <1>0 DEF Tick, hooks
<1>6. ~Handles(h) /\ ~WriteBack(h) /\ ~Clear(h)
  <2>1. Handles(h) \/ WriteBack(h) => Attempting' = Attempting
    BY Handled
  <2>2. Clear(h) => Attempting' = Attempting
    BY Cleared
  <2>3. QED
    BY <2>1, <2>2
<1>7. FindNoSession(h) \/ FindDue(h)
  BY <1>2, <1>3, <1>4, <1>5, <1>6, Kinds
<1>8. QED
  BY <1>1, <1>7 DEF Calm, Alone, Disorder

(* "The next retry time is written before the attempt, so hooks that fire   *)
(* together do not all make the same request" (session.rs:297-300), for any *)
(* number of hooks and failures.                                            *)
THEOREM AttemptsKeepDistance == Spec => BackoffKept
<1> DEFINE I == TypeOK /\ OneInv /\ BackoffInv
           Apart == \A h \in Hook : h \notin Attempting /\ h \in Attempting' /\ ~mem'[h].start =>
                       \/ quiet = 0 /\ \A g \in Hook : ~mem[g].claimed
                       \/ unruly' \cap Disorder # {}
<1>1. Init => I
  BY InitType, AllInit
<1>2. I /\ [Next]_vars => I'
  BY TypeStep, OneStep, BackoffStep
<1>3. I /\ [Next]_vars => [Apart]_vars
  BY DistanceStep
<1>4. QED
  BY <1>1, <1>2, <1>3, PTL DEF Spec, BackoffKept
=============================================================================
