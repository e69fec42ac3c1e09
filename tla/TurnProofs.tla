----------------------------- MODULE TurnProofs -----------------------------
(***************************************************************************)
(* The turns of a session for any repository, any commands, any number of  *)
(* calls and any order of hooks: nothing is reverted twice, the event of a *)
(* turn agrees with its decisions, its streak is the longest there was, and *)
(* it ends green as its calls happened.                                    *)
(***************************************************************************)
EXTENDS Turn, SequenceLemmas

(* Reverts.  An accepted edit is spent once: on a revert, on the file being *)
(* uncommitted, or on its place in the last commit.                        *)

One(condition) == IF condition THEN 1 ELSE 0

Track(texts) == [known : BOOLEAN, dirty : BOOLEAN, pre : SUBSET texts, reverts : Nat]

\* What the bookkeeping of a file is, whatever texts a host tells of.
TrackType ==
    /\ \E texts : files \in [File -> Track(texts)]
    /\ accepted \in [File -> Nat]
    /\ lastCommit \in SUBSET File

\* Every accepted edit is spent once: on a revert, or it is uncommitted, or it
\* is in the last commit, which a revert of HEAD would take.
Spent ==
    \A f \in File : files[f].reverts + One(files[f].dirty) + One(f \in lastCommit) <= accepted[f]

IInv == TrackType /\ Spent

LEMMA RevertsInit == Init => IInv
  <1> SUFFICES ASSUME Init PROVE IInv
    OBVIOUS
  <1>1. files \in [File -> Track({})] /\ accepted \in [File -> Nat] /\ lastCommit \in SUBSET File
    BY DEF Init, Track, Track0
  <1>2. Spent
    BY DEF Init, Spent, One, Track0
  <1> QED BY <1>1, <1>2 DEF IInv, TrackType

\* A track of fewer texts is one of more.
LEMMA MoreTexts ==
  ASSUME NEW texts, NEW more, NEW track \in Track(texts), texts \subseteq more
  PROVE  track \in Track(more)
  BY DEF Track

\* What a revert does to the account of a file.
LEMMA RevertSpends ==
  ASSUME NEW texts, NEW track \in Track(texts)
  PROVE  /\ MarkReverted(track) \in Track(texts)
         /\ ~MarkReverted(track).dirty
         /\ MarkReverted(track).reverts = track.reverts + 1
  <1> DEFINE clean == [track EXCEPT !.dirty = FALSE]
  <1>1. clean \in Track(texts) /\ track.reverts \in Nat
    BY DEF Track
  <1>2. MarkReverted(track) = [clean EXCEPT !.reverts = track.reverts + 1]
    BY Zenon DEF MarkReverted, Track
  <1>3. MarkReverted(track) \in Track(texts)
    <2> HIDE DEF clean
    <2> QED BY <1>1, <1>2 DEF Track
  <1>4. ~MarkReverted(track).dirty
    BY DEF MarkReverted, Track
  <1>5. MarkReverted(track).reverts = track.reverts + 1
    BY DEF MarkReverted, Track
  <1> QED BY <1>3, <1>4, <1>5

\* What an edit does to it.
LEMMA EditSpends ==
  ASSUME NEW texts, NEW track \in Track(texts), NEW original, original \subseteq texts, NEW onDisk
  PROVE  LET after == TrackEdit(track, original, onDisk)
         IN /\ after \in Track(texts)
            /\ after.reverts + One(after.dirty) <= track.reverts + One(track.dirty) + 1
  <1> DEFINE after == TrackEdit(track, original, onDisk)
  <1> SUFFICES after \in Track(texts) /\ after.reverts + One(after.dirty) <= track.reverts + One(track.dirty) + 1
    OBVIOUS
  <1>0. track.known \in BOOLEAN /\ track.dirty \in BOOLEAN /\ track.reverts \in Nat
    BY DEF Track
  <1>1. CASE ~track.known
    BY <1>0, <1>1 DEF TrackEdit, One, Track
  <1>2. CASE track.known /\ PutsBack(track, onDisk)
    <2>1. after = MarkReverted(track)
      BY <1>2 DEF TrackEdit
    <2>2. track.dirty
      BY <1>2 DEF PutsBack
    <2>3. One(track.dirty) = 1
      BY <2>2 DEF One
    <2>4. One(after.dirty) = 0
      BY <2>1, RevertSpends DEF One
    <2>5. after \in Track(texts) /\ after.reverts = track.reverts + 1
      BY <2>1, RevertSpends
    <2> HIDE DEF after
    <2> QED BY <1>0, <2>3, <2>4, <2>5
  <1>3. CASE track.known /\ ~PutsBack(track, onDisk)
    <2>1. after = [track EXCEPT !.dirty = TRUE]
      BY <1>3 DEF TrackEdit
    <2>2. after \in Track(texts) /\ after.reverts = track.reverts
      BY <2>1 DEF Track
    <2>3. One(after.dirty) \in {0, 1} /\ One(track.dirty) \in {0, 1}
      BY DEF One
    <2> HIDE DEF after
    <2> QED BY <1>0, <2>2, <2>3
  <1> HIDE DEF after
  <1> QED BY <1>0, <1>1, <1>2, <1>3

LEMMA RevertsStep == IInv /\ [Next]_vars => IInv'
  <1> SUFFICES ASSUME IInv, [Next]_vars PROVE IInv'
    OBVIOUS
  <1> USE DEF IInv
  <1>1. ASSUME UNCHANGED <<files, accepted, lastCommit>> PROVE IInv'
    BY <1>1 DEF TrackType, Spent
  <1>2. ASSUME NEW c, Record(c) PROVE IInv'
    <2>1. PICK E, original :
             /\ files' = [f \in File |-> IF E[f] THEN TrackEdit(files[f], original, Lines[tree[f]]) ELSE files[f]]
             /\ accepted' = [f \in File |-> IF E[f] THEN accepted[f] + 1 ELSE accepted[f]]
      <3> DEFINE read == Reads[[k \in {"tool", "file", "input", "result", "replaced"} |-> calls[c][k]]]
                 E == [f \in File |-> read.accepted /\ f = read.signal.file]
      <3>1. Write(c, read)
        BY <1>2 DEF Record
      <3> HIDE DEF read
      <3>2. /\ files' = [f \in File |-> IF read.accepted /\ f = read.signal.file
                                        THEN TrackEdit(files[f], read.signal.original, Lines[tree[f]]) ELSE files[f]]
            /\ accepted' = [f \in File |-> IF read.accepted /\ f = read.signal.file THEN accepted[f] + 1 ELSE accepted[f]]
        BY <3>1 DEF Write
      <3>3. \A f \in File : E[f] = (read.accepted /\ f = read.signal.file)
        OBVIOUS
      <3> HIDE DEF E
      <3> QED BY <3>2, <3>3
    <2>2. lastCommit' = lastCommit
      BY <1>2 DEF Record
    <2>3. PICK texts : files \in [File -> Track(texts)]
      BY DEF TrackType
    <2> DEFINE more == texts \cup original
    <2>4. ASSUME NEW f \in File
          PROVE  /\ files'[f] \in Track(more)
                 /\ accepted'[f] \in Nat
                 /\ files'[f].reverts + One(files'[f].dirty) + One(f \in lastCommit) <= accepted'[f]
      <3>1. files[f] \in Track(more)
        BY <2>3, MoreTexts
      <3>2. files[f].reverts \in Nat /\ accepted[f] \in Nat
        BY <3>1 DEF Track, TrackType
      <3>3. files[f].reverts + One(files[f].dirty) + One(f \in lastCommit) <= accepted[f]
        BY DEF Spent
      <3>4. CASE E[f]
        <4> DEFINE after == TrackEdit(files[f], original, Lines[tree[f]])
        <4>1. after \in Track(more) /\ after.reverts + One(after.dirty) <= files[f].reverts + One(files[f].dirty) + 1
          BY <3>1, EditSpends
        <4>2. files'[f] = after /\ accepted'[f] = accepted[f] + 1
          BY <2>1, <3>4
        <4>3. after.reverts \in Nat
          BY <4>1 DEF Track
        <4> HIDE DEF after
        <4> QED BY <3>2, <3>3, <4>1, <4>2, <4>3 DEF One
      <3>5. CASE ~E[f]
        BY <2>1, <3>1, <3>2, <3>3, <3>5
      <3> QED BY <3>4, <3>5
    <2>5. files' \in [File -> Track(more)] /\ accepted' \in [File -> Nat]
      BY <2>1, <2>4
    <2> QED BY <2>2, <2>4, <2>5 DEF TrackType, Spent
  <1>3. ASSUME TrackTarget PROVE IInv'
    <2>1. PICK t \in tracking :
             /\ files' = [f \in File |-> IF TakesBack(Head(t.todo), f) THEN MarkReverted(files[f]) ELSE files[f]]
             /\ lastCommit' = IF Head(t.todo).kind = "head" THEN {} ELSE lastCommit
             /\ accepted' = accepted
      BY <1>3 DEF TrackTarget
    <2> DEFINE target == Head(t.todo)
    <2>2. ASSUME NEW f \in File, TakesBack(target, f)
          PROVE  files[f].dirty \/ (target.kind = "head" /\ f \in lastCommit)
      BY <2>2 DEF TakesBack
    <2>3. PICK texts : files \in [File -> Track(texts)]
      BY DEF TrackType
    <2>4. ASSUME NEW f \in File
          PROVE  /\ files'[f] \in Track(texts)
                 /\ files'[f].reverts + One(files'[f].dirty) + One(f \in lastCommit') <= accepted[f]
      <3>1. files[f] \in Track(texts) /\ accepted[f] \in Nat
        BY <2>3 DEF TrackType
      <3>2. files[f].reverts + One(files[f].dirty) + One(f \in lastCommit) <= accepted[f]
        BY DEF Spent
      <3>3. CASE TakesBack(target, f)
        <4>1. MarkReverted(files[f]) \in Track(texts)
              /\ ~MarkReverted(files[f]).dirty
              /\ MarkReverted(files[f]).reverts = files[f].reverts + 1
          BY <3>1, RevertSpends
        <4>2. files'[f] = MarkReverted(files[f])
          BY <2>1, <3>3
        <4>3. files[f].reverts \in Nat
          BY <3>1 DEF Track
        <4> QED BY <2>1, <2>2, <3>1, <3>2, <3>3, <4>1, <4>2, <4>3 DEF One
      <3>4. CASE ~TakesBack(target, f)
        <4>1. files'[f] = files[f] /\ files[f].reverts \in Nat
          BY <2>1, <3>1, <3>4 DEF Track
        <4> QED BY <2>1, <3>1, <3>2, <4>1 DEF One
      <3> QED BY <3>3, <3>4
    <2>5. files' \in [File -> Track(texts)] /\ lastCommit' \in SUBSET File /\ accepted' \in [File -> Nat]
      BY <2>1, <2>4 DEF TrackType
    <2> QED BY <2>1, <2>4, <2>5 DEF TrackType, Spent
  <1>4. ASSUME TrackCommit PROVE IInv'
    <2>1. PICK committed \in SUBSET File :
             /\ \A f \in committed : files[f].dirty
             /\ files' = [f \in File |-> IF f \in committed THEN [files[f] EXCEPT !.dirty = FALSE] ELSE files[f]]
             /\ lastCommit' = IF committed # {} THEN committed ELSE lastCommit
             /\ accepted' = accepted
      BY <1>4 DEF TrackCommit
    <2>2. PICK texts : files \in [File -> Track(texts)]
      BY DEF TrackType
    <2>3. ASSUME NEW f \in File
          PROVE  /\ files'[f] \in Track(texts)
                 /\ files'[f].reverts + One(files'[f].dirty) + One(f \in lastCommit') <= accepted[f]
      <3>1. files[f] \in Track(texts) /\ accepted[f] \in Nat
        BY <2>2 DEF TrackType
      <3>2. files[f].reverts + One(files[f].dirty) + One(f \in lastCommit) <= accepted[f]
        BY DEF Spent
      <3>3. files[f].reverts \in Nat
        BY <3>1 DEF Track
      <3>4. CASE f \in committed
        <4> DEFINE after == [files[f] EXCEPT !.dirty = FALSE]
        <4>1. after \in Track(texts) /\ after.dirty = FALSE /\ after.reverts = files[f].reverts
          BY <3>1 DEF Track
        <4>2. files'[f] = after /\ files[f].dirty /\ f \in lastCommit'
          BY <2>1, <3>4
        <4> HIDE DEF after
        <4> QED BY <3>1, <3>2, <3>3, <4>1, <4>2 DEF One
      <3>5. CASE f \notin committed
        BY <2>1, <3>1, <3>2, <3>3, <3>5 DEF One
      <3> QED BY <3>4, <3>5
    <2>4. files' \in [File -> Track(texts)] /\ accepted' \in [File -> Nat]
      <3>1. files' = [f \in File |-> files'[f]]
        BY <2>1
      <3> QED BY <2>1, <2>3, <3>1 DEF TrackType
    <2>5. lastCommit' \in SUBSET File
      BY <2>1 DEF TrackType
    <2> QED BY <2>1, <2>3, <2>4, <2>5 DEF TrackType, Spent
  <1>5. CASE UNCHANGED vars
    BY <1>1, <1>5 DEF vars, session
  <1>6. CASE \E edit \in scenario.edits, fate \in scenario.fates : DoEdit(edit.file, edit.content, fate)
    BY <1>1, <1>6 DEF DoEdit, session
  <1>7. CASE \E command \in scenario.commands, plain \in BOOLEAN : \E pass \in Passes(command) :
                DoCommand(command, pass, plain)
    BY <1>1, <1>7 DEF DoCommand, session
  <1>8. CASE \E edit \in scenario.edits : Developer(edit.file, edit.content)
    BY <1>1, <1>8 DEF Developer, session
  <1>9. CASE \E c \in DOMAIN calls : Killed(c) \/ Again(c) \/ SkipSeen(c)
    BY <1>1, <1>9 DEF Killed, Again, SkipSeen, session
  <1>10. CASE Stop
    BY <1>1, <1>10 DEF Stop
  <1> QED BY <1>2, <1>3, <1>4, <1>5, <1>6, <1>7, <1>8, <1>9, <1>10 DEF Next

\* A file is reported as reverted at most once for every edit of it that a hook
\* accepted (mark_reverted, track_edit and track_command of revert.rs), for any
\* repository, commands and number of calls.
THEOREM RevertsOnce == Spec => []NothingRevertedTwice
  <1>1. IInv => NothingRevertedTwice
    BY DEF IInv, TrackType, Track, Spent, One, NothingRevertedTwice
  <1> QED BY <1>1, RevertsInit, RevertsStep, PTL DEF Spec
-----------------------------------------------------------------------------
(* What is sent about a turn agrees with the decisions sent with it.       *)

\* What the hooks note down is three lists, of whatever, and a counter.
TurnOf(noted) == [step : Nat, edits : Seq(noted), runs : Seq(noted), flagged : Seq(noted)]

\* A turn has an edit for every decision that is waiting, and a call that waits
\* was seen, so that no other hook of it comes that far.
Agree ==
    /\ \E noted : turn \in TurnOf(noted)
    /\ IsFiniteSet(pending) /\ pending \subseteq seen
    /\ Cardinality(pending) = Len(turn.edits)

\* What leaves the edits of a turn alone, and what adds one.
SameEdits(before, after) == (\E noted : after \in TurnOf(noted)) /\ after.edits = before.edits
OneMore(before, after) == (\E noted : after \in TurnOf(noted)) /\ Len(after.edits) = Len(before.edits) + 1

LEMMA MoreNoted ==
  ASSUME NEW noted, NEW more, noted \subseteq more, NEW t \in TurnOf(noted)
  PROVE  t \in TurnOf(more)
  <1>1. t.edits \in Seq(more) /\ t.runs \in Seq(more) /\ t.flagged \in Seq(more)
    <2>1. ASSUME NEW s \in Seq(noted) PROVE s \in Seq(more)
      BY <2>1
    <2> QED BY <2>1 DEF TurnOf
  <1> QED BY <1>1 DEF TurnOf

LEMMA RecordEditAdds ==
  ASSUME NEW noted, NEW t \in TurnOf(noted), NEW file, NEW test, NEW sensitive
  PROVE  OneMore(t, RecordEdit(t, file, test, sensitive))
  <1> DEFINE e == [step |-> t.step + 1, file |-> file, test |-> test, sensitive |-> sensitive]
             more == noted \cup {e}
             after == [t EXCEPT !.step = t.step + 1, !.edits = Append(t.edits, e)]
  <1>1. RecordEdit(t, file, test, sensitive) = after
    BY DEF RecordEdit, TurnOf
  <1>2. t \in TurnOf(more) /\ e \in more
    BY MoreNoted
  <1> HIDE DEF e, more
  <1>3. Append(t.edits, e) \in Seq(more) /\ Len(Append(t.edits, e)) = Len(t.edits) + 1 /\ t.step + 1 \in Nat
    BY <1>2 DEF TurnOf
  <1>4. after \in TurnOf(more) /\ after.edits = Append(t.edits, e)
    BY <1>2, <1>3 DEF TurnOf
  <1> QED BY <1>1, <1>3, <1>4 DEF OneMore

LEMMA RecordRunKeeps ==
  ASSUME NEW noted, NEW t \in TurnOf(noted), NEW outcome, NEW command
  PROVE  SameEdits(t, RecordRun(t, outcome, command))
  <1> DEFINE r == [step |-> t.step + 1, outcome |-> outcome, command |-> command]
             more == noted \cup {r}
             after == [t EXCEPT !.step = t.step + 1, !.runs = Append(t.runs, r)]
  <1>1. RecordRun(t, outcome, command) = after
    BY DEF RecordRun, TurnOf
  <1>2. t \in TurnOf(more) /\ r \in more
    BY MoreNoted
  <1> HIDE DEF r, more
  <1>3. Append(t.runs, r) \in Seq(more) /\ t.step + 1 \in Nat
    BY <1>2 DEF TurnOf
  <1>4. after \in TurnOf(more) /\ after.edits = t.edits
    BY <1>2, <1>3 DEF TurnOf
  <1> QED BY <1>1, <1>4 DEF SameEdits

LEMMA RecordFlagsKeeps ==
  ASSUME NEW noted, NEW t \in TurnOf(noted), NEW file, NEW flags, NEW caught
  PROVE  SameEdits(t, RecordFlags(t, file, flags, caught))
  <1> DEFINE c == [step |-> t.step + 1, file |-> file, flags |-> flags, caught |-> caught]
             more == noted \cup {c}
             after == [t EXCEPT !.step = t.step + 1, !.flagged = Append(t.flagged, c)]
  <1>1. CASE flags = {}
    BY <1>1 DEF RecordFlags, SameEdits
  <1>2. CASE flags # {}
    <2>1. RecordFlags(t, file, flags, caught) = after
      BY <1>2 DEF RecordFlags, TurnOf
    <2>2. t \in TurnOf(more) /\ c \in more
      BY MoreNoted
    <2> HIDE DEF c, more
    <2>3. Append(t.flagged, c) \in Seq(more) /\ t.step + 1 \in Nat
      BY <2>2 DEF TurnOf
    <2>4. after \in TurnOf(more) /\ after.edits = t.edits
      BY <2>2, <2>3 DEF TurnOf
    <2> QED BY <2>1, <2>4 DEF SameEdits
  <1> QED BY <1>1, <1>2

LEMMA CatchFilesKeeps ==
  ASSUME NEW noted, NEW t \in TurnOf(noted), NEW fs
  PROVE  SameEdits(t, CatchFiles(t, fs))
  <1> DEFINE Caught(c) == IF c.file \in fs \ {NoFile} THEN [c EXCEPT !.caught = TRUE] ELSE c
             flagged == [i \in DOMAIN t.flagged |-> Caught(t.flagged[i])]
             more == noted \cup {Caught(c) : c \in noted}
             after == [t EXCEPT !.flagged = flagged]
  <1>1. CatchFiles(t, fs) = after
    BY DEF CatchFiles, TurnOf
  <1>2. t \in TurnOf(more)
    BY MoreNoted
  <1>3. flagged \in Seq(more)
    <2>1. t.flagged \in Seq(noted) /\ DOMAIN t.flagged = 1 .. Len(t.flagged) /\ Len(t.flagged) \in Nat
      BY DEF TurnOf
    <2> HIDE DEF Caught
    <2>2. \A i \in 1 .. Len(t.flagged) : Caught(t.flagged[i]) \in more
      BY <2>1
    <2> QED BY <2>1, <2>2
  <1> HIDE DEF flagged, more
  <1>4. after \in TurnOf(more) /\ after.edits = t.edits
    BY <1>2, <1>3 DEF TurnOf
  <1> QED BY <1>1, <1>4 DEF SameEdits

\* What a hook notes down of a call.
LEMMA NotedEdits ==
  ASSUME NEW noted, turn \in TurnOf(noted),
         NEW signal, NEW facts, NEW isAccepted, NEW isDeclined, NEW back
  PROVE  LET after == Noted(signal, facts, isAccepted, isDeclined, back)
         IN IF isAccepted THEN OneMore(turn, after) ELSE SameEdits(turn, after)
  <1> DEFINE edit == RecordEdit(turn, signal.file, signal.isTestFile, facts.pathClass \cap Sensitive # {})
             edited == IF isAccepted THEN RecordFlags(edit, signal.file, signal.editFlags, FALSE)
                       ELSE IF facts.isEdit /\ isDeclined THEN RecordFlags(turn, signal.file, signal.editFlags, TRUE)
                       ELSE turn
             caught == IF back THEN CatchFiles(edited, {signal.file}) ELSE edited
             run == CHOOSE run \in signal.testRun : TRUE
             ran == IF signal.testRun = {} THEN caught ELSE RecordRun(caught, run.outcome, run.key)
             after == IF signal.commandSucceeded THEN RecordFlags(ran, NoFile, signal.commandFlags, FALSE) ELSE ran
  <1>1. Noted(signal, facts, isAccepted, isDeclined, back) = after
    BY DEF Noted
  <1>2. (\E more : edited \in TurnOf(more))
        /\ IF isAccepted THEN Len(edited.edits) = Len(turn.edits) + 1 ELSE edited.edits = turn.edits
    <2>1. CASE isAccepted
      <3>1. PICK more : edit \in TurnOf(more) /\ Len(edit.edits) = Len(turn.edits) + 1
        BY RecordEditAdds DEF OneMore
      <3> HIDE DEF edit
      <3>2. SameEdits(edit, RecordFlags(edit, signal.file, signal.editFlags, FALSE))
        BY <3>1, RecordFlagsKeeps
      <3> QED BY <2>1, <3>1, <3>2 DEF SameEdits
    <2>2. CASE ~isAccepted
      <3>1. SameEdits(turn, RecordFlags(turn, signal.file, signal.editFlags, TRUE))
        BY RecordFlagsKeeps
      <3> QED BY <2>2, <3>1 DEF SameEdits
    <2> QED BY <2>1, <2>2
  <1> HIDE DEF edited
  <1>3. SameEdits(edited, caught)
    <2>1. PICK more : edited \in TurnOf(more)
      BY <1>2
    <2>2. SameEdits(edited, CatchFiles(edited, {signal.file}))
      BY <2>1, CatchFilesKeeps
    <2> QED BY <2>1, <2>2 DEF SameEdits
  <1> HIDE DEF caught, run
  <1>4. SameEdits(caught, ran)
    <2>1. PICK more : caught \in TurnOf(more)
      BY <1>3 DEF SameEdits
    <2>2. SameEdits(caught, RecordRun(caught, run.outcome, run.key))
      BY <2>1, RecordRunKeeps
    <2> QED BY <2>1, <2>2 DEF SameEdits
  <1> HIDE DEF ran
  <1>5. SameEdits(ran, after)
    <2>1. PICK more : ran \in TurnOf(more)
      BY <1>4 DEF SameEdits
    <2>2. SameEdits(ran, RecordFlags(ran, NoFile, signal.commandFlags, FALSE))
      BY <2>1, RecordFlagsKeeps
    <2> QED BY <2>1, <2>2 DEF SameEdits
  <1> HIDE DEF after
  <1> QED BY <1>1, <1>2, <1>3, <1>4, <1>5 DEF SameEdits, OneMore

\* The event of a turn has the number of its edits; no edit, no event.
LEMMA VerificationCounts ==
  ASSUME NEW noted, NEW t \in TurnOf(noted)
  PROVE  {e.editsAccepted : e \in TurnVerification(t)} = {Len(t.edits)} \ {0}
  <1>1. t.edits \in Seq(noted) /\ Len(t.edits) \in Nat
    BY DEF TurnOf
  <1>2. ToSet(t.edits) = {} <=> Len(t.edits) = 0
    <2>1. PICK n \in Nat : n = Len(t.edits) /\ DOMAIN t.edits = 1 .. n
      BY <1>1
    <2>2. DOMAIN t.edits = {} <=> n = 0
      <3>1. n # 0 => 1 \in 1 .. n
        OBVIOUS
      <3>2. n = 0 => 1 .. n = {}
        OBVIOUS
      <3> QED BY <2>1, <3>1, <3>2
    <2> QED BY <2>1, <2>2 DEF ToSet
  <1>3. CASE ToSet(t.edits) = {}
    <2>1. TurnVerification(t) = {}
      BY <1>3 DEF TurnVerification
    <2> QED BY <1>2, <1>3, <2>1
  <1>4. CASE ToSet(t.edits) # {}
    <2>1. \A e \in TurnVerification(t) : e.editsAccepted = Len(t.edits)
      BY <1>4 DEF TurnVerification
    <2>2. TurnVerification(t) # {}
      BY <1>4 DEF TurnVerification
    <2> QED BY <1>2, <1>4, <2>1, <2>2
  <1> QED BY <1>3, <1>4

AgreeInv == Agree /\ DecidedAsVerified

LEMMA AgreeInit == Init => AgreeInv
  <1> SUFFICES ASSUME Init PROVE AgreeInv
    OBVIOUS
  <1>1. turn \in TurnOf({}) /\ Len(turn.edits) = 0
    BY DEF Init, NewTurn, TurnOf
  <1>2. IsFiniteSet(pending) /\ Cardinality(pending) = 0 /\ pending \subseteq seen
    BY FS_EmptySet DEF Init
  <1>3. DecidedAsVerified
    BY DEF Init, DecidedAsVerified
  <1> QED BY <1>1, <1>2, <1>3 DEF AgreeInv, Agree

LEMMA AgreeStep == AgreeInv /\ [Next]_vars => AgreeInv'
  <1> SUFFICES ASSUME AgreeInv, [Next]_vars PROVE AgreeInv'
    OBVIOUS
  <1>0. PICK noted : turn \in TurnOf(noted)
    BY DEF AgreeInv, Agree
  <1>1. ASSUME UNCHANGED <<seen, pending, turn, verdict>> PROVE AgreeInv'
    <2>1. Agree'
      BY <1>0, <1>1 DEF AgreeInv, Agree
    <2>2. DecidedAsVerified'
      BY <1>1 DEF AgreeInv, DecidedAsVerified
    <2> QED BY <2>1, <2>2 DEF AgreeInv
  <1>2. ASSUME NEW c, Record(c) PROVE AgreeInv'
    <2>1. PICK accept, signal, facts, declined, back :
             /\ pending' = IF accept THEN pending \cup {c} ELSE pending
             /\ turn' = Noted(signal, facts, accept, declined, back)
      <3> DEFINE read == Reads[[k \in {"tool", "file", "input", "result", "replaced"} |-> calls[c][k]]]
      <3>1. Write(c, read)
        BY <1>2 DEF Record
      <3> HIDE DEF read
      <3>2. PICK back : /\ pending' = IF read.accepted THEN pending \cup {c} ELSE pending
                        /\ turn' = Noted(read.signal, read.facts, read.accepted, read.declined, back)
        BY <3>1 DEF Write
      <3> QED BY <3>2
    <2>2. c \notin pending /\ seen' = seen \cup {c} /\ verdict' = verdict
      BY <1>2 DEF Record, AgreeInv, Agree
    <2>3. IF accept THEN OneMore(turn, turn') ELSE SameEdits(turn, turn')
      <3>1. LET after == Noted(signal, facts, accept, declined, back)
            IN IF accept THEN OneMore(turn, after) ELSE SameEdits(turn, after)
        BY <1>0, NotedEdits
      <3> QED BY <2>1, <3>1
    <2>4. /\ IsFiniteSet(pending') /\ pending' \subseteq seen'
          /\ Cardinality(pending') = Cardinality(pending) + IF accept THEN 1 ELSE 0
      <3>1. IsFiniteSet(pending) /\ Cardinality(pending) \in Nat /\ pending \subseteq seen
        BY FS_CardinalityType DEF AgreeInv, Agree
      <3>2. IsFiniteSet(pending \cup {c}) /\ Cardinality(pending \cup {c}) = Cardinality(pending) + 1
        BY <2>2, <3>1, FS_AddElement
      <3> QED BY <2>1, <2>2, <3>1, <3>2
    <2>5. Agree'
      <3>1. Cardinality(pending) = Len(turn.edits) /\ Len(turn.edits) \in Nat
        BY <1>0 DEF AgreeInv, Agree, TurnOf
      <3>2. (\E more : turn' \in TurnOf(more)) /\ Len((turn').edits) = Len(turn.edits) + IF accept THEN 1 ELSE 0
        <4>1. CASE accept
          BY <2>3, <4>1 DEF OneMore
        <4>2. CASE ~accept
          <5>1. SameEdits(turn, turn')
            BY <2>3, <4>2
          <5> QED BY <3>1, <4>2, <5>1 DEF SameEdits
        <4> QED BY <4>1, <4>2
      <3>3. Cardinality(pending') = Len((turn').edits)
        BY <2>4, <3>1, <3>2
      <3> QED BY <2>4, <3>2, <3>3 DEF Agree
    <2> QED BY <2>2, <2>5 DEF AgreeInv, DecidedAsVerified
  <1>3. ASSUME TrackTarget PROVE AgreeInv'
    <2>1. PICK back : turn' = CatchFiles(turn, back) /\ UNCHANGED <<seen, pending, verdict>>
      BY <1>3 DEF TrackTarget
    <2>2. SameEdits(turn, turn')
      BY <1>0, <2>1, CatchFilesKeeps
    <2> QED BY <2>1, <2>2 DEF AgreeInv, Agree, SameEdits, DecidedAsVerified
  <1>4. ASSUME Stop PROVE AgreeInv'
    <2>1. PICK v : /\ v.decided = pending /\ v.verification = TurnVerification(turn)
                   /\ verdict' = {v} /\ pending' = {} /\ turn' = NewTurn /\ seen' = seen
      BY <1>4 DEF Stop
    <2>2. Agree'
      <3>1. turn' \in TurnOf({}) /\ Len((turn').edits) = 0
        BY <2>1 DEF NewTurn, TurnOf
      <3>2. IsFiniteSet(pending') /\ Cardinality(pending') = 0 /\ pending' \subseteq seen'
        BY <2>1, FS_EmptySet
      <3> QED BY <3>1, <3>2 DEF Agree
    <2>3. {e.editsAccepted : e \in v.verification} = {Cardinality(v.decided)} \ {0}
      <3>1. {e.editsAccepted : e \in TurnVerification(turn)} = {Len(turn.edits)} \ {0}
        BY <1>0, VerificationCounts
      <3>2. Cardinality(pending) = Len(turn.edits)
        BY DEF AgreeInv, Agree
      <3> QED BY <2>1, <3>1, <3>2
    <2> QED BY <2>1, <2>2, <2>3 DEF AgreeInv, DecidedAsVerified
  <1>5. CASE UNCHANGED vars
    BY <1>1, <1>5 DEF vars, session
  <1>6. CASE \E edit \in scenario.edits, fate \in scenario.fates : DoEdit(edit.file, edit.content, fate)
    BY <1>1, <1>6 DEF DoEdit, session
  <1>7. CASE \E command \in scenario.commands, plain \in BOOLEAN : \E pass \in Passes(command) :
                DoCommand(command, pass, plain)
    BY <1>1, <1>7 DEF DoCommand, session
  <1>8. CASE \E edit \in scenario.edits : Developer(edit.file, edit.content)
    BY <1>1, <1>8 DEF Developer, session
  <1>9. CASE \E c \in DOMAIN calls : Killed(c) \/ Again(c) \/ SkipSeen(c)
    BY <1>1, <1>9 DEF Killed, Again, SkipSeen, session
  <1>10. CASE TrackCommit
    BY <1>1, <1>10 DEF TrackCommit
  <1> QED BY <1>2, <1>3, <1>4, <1>5, <1>6, <1>7, <1>8, <1>9, <1>10 DEF Next

\* The event of a turn counts as many accepted edits as decisions go out with
\* it, and there is none without a decision (settle_edits and settle_turn of
\* hooks.rs with turn_verification), in whatever order hooks come, and if they
\* are killed or told twice.
THEOREM TurnAgrees == Spec => []DecidedAsVerified
  <1>1. AgreeInv => DecidedAsVerified
    BY DEF AgreeInv
  <1> QED BY <1>1, AgreeInit, AgreeStep, PTL DEF Spec
-----------------------------------------------------------------------------
(* The longest streak of failing runs, for any list of runs.               *)

\* f[n] is the streak that ends with the n-th run.
StreakOf(f, runs) ==
    /\ f[0] = 0 /\ Streak(runs) = Max({f[n] : n \in 0 .. Len(runs)})
    /\ \A n \in 1 .. Len(runs) :
          f[n] = IF ~Failing(runs[n]) THEN 0
                 ELSE IF n > 1 /\ runs[n].command = runs[n - 1].command THEN f[n - 1] + 1 ELSE 1

LEMMA StreakByRun ==
  ASSUME NEW S, NEW runs \in Seq(S)
  PROVE  \E f : StreakOf(f, runs)
  <1> DEFINE n == Len(runs)
             Next1(p) == IF ~Failing(runs[p[1]]) THEN 0
                         ELSE IF p[1] > 1 /\ runs[p[1]].command = runs[p[1] - 1].command THEN p[2] + 1 ELSE 1
             step == [p \in (1 .. n) \X Nat |-> Next1(p)]
             Is(f) == f = [i \in 0 .. n |->
                             IF i = 0 THEN 0
                             ELSE IF ~Failing(runs[i]) THEN 0
                             ELSE IF i > 1 /\ runs[i].command = runs[i - 1].command THEN f[i - 1] + 1 ELSE 1]
  <1>1. n \in Nat
    OBVIOUS
  <1>2. PICK f \in [0 .. n -> Nat] : f[0] = 0 /\ \A i \in 1 .. n : f[i] = step[<<i, f[i - 1]>>]
    <2> DEFINE first == 0
    <2>1. first \in Nat /\ step \in [(1 .. n) \X Nat -> Nat]
      <3>1. ASSUME NEW p \in (1 .. n) \X Nat PROVE Next1(p) \in Nat
        <4>1. p[2] + 1 \in Nat
          OBVIOUS
        <4> QED BY <4>1
      <3> HIDE DEF Next1
      <3> QED BY <3>1
    <2> HIDE DEF step, n, first
    <2>2. \E f \in [0 .. n -> Nat] : Computes(f, n, first, step)
      BY <1>1, <2>1, Recursion
    <2> QED BY <2>2, Zenon DEF first, Computes
  <1>3. \A i \in 1 .. n : f[i] = Next1(<<i, f[i - 1]>>)
    <2>1. ASSUME NEW i \in 1 .. n PROVE <<i, f[i - 1]>> \in (1 .. n) \X Nat
      BY <1>1
    <2> HIDE DEF Next1, n
    <2> QED BY <1>2, <2>1
  <1>4. Is(f)
    <2>1. \A i \in 0 .. n : i = 0 \/ i \in 1 .. n
      BY <1>1
    <2>2. \A i \in 0 .. n : f[i] = IF i = 0 THEN 0
                                   ELSE IF ~Failing(runs[i]) THEN 0
                                   ELSE IF i > 1 /\ runs[i].command = runs[i - 1].command THEN f[i - 1] + 1 ELSE 1
      BY <1>2, <1>3, <2>1
    <2> QED BY <2>2, Zenon
  <1> DEFINE g == CHOOSE h : Is(h)
  <1>5. Is(g)
    BY <1>4
  <1>6. Streak(runs) = Max({g[i] : i \in 0 .. n})
    BY Zenon DEF Streak
  <1> HIDE DEF g
  <1>7. StreakOf(g, runs)
    <2>1. \A i \in 0 .. n : g[i] = IF i = 0 THEN 0
                                   ELSE IF ~Failing(runs[i]) THEN 0
                                   ELSE IF i > 1 /\ runs[i].command = runs[i - 1].command THEN g[i - 1] + 1 ELSE 1
      BY <1>5, Zenon
    <2>2. 0 \in 0 .. n /\ \A i \in 1 .. n : i \in 0 .. n /\ i # 0
      BY <1>1
    <2> QED BY <1>6, <2>1, <2>2 DEF StreakOf
  <1> QED BY <1>7

\* The runs from the i-th to the n-th fail, and are of one command.
Block(runs, i, n) == \A k \in i .. n : Failing(runs[k]) /\ runs[k].command = runs[i].command

\* The streak that ends with a run is the longest block that does.
LEMMA StreakEndsBlock ==
  ASSUME NEW S, NEW runs \in Seq(S), NEW f, StreakOf(f, runs), NEW n \in 0 .. Len(runs)
  PROVE  /\ f[n] \in 0 .. n
         /\ \A i \in 1 .. n : Block(runs, i, n) <=> n - i + 1 <= f[n]
  <1> DEFINE Ends(k) == f[k] \in 0 .. k /\ \A i \in 1 .. k : Block(runs, i, k) <=> k - i + 1 <= f[k]
             T == {k \in Nat : Ends(k)}
  <1>1. 0 \in T
    BY DEF StreakOf
  <1>2. ASSUME NEW k \in 1 .. n, k - 1 \in T PROVE k \in T
    <2>1. k \in Nat /\ k >= 1 /\ k - 1 \in Nat /\ k \in 1 .. Len(runs)
      OBVIOUS
    <2>2. f[k - 1] \in 0 .. k - 1
          /\ \A i \in 1 .. k - 1 : Block(runs, i, k - 1) <=> k - 1 - i + 1 <= f[k - 1]
      BY <1>2
    <2>3. f[k] = IF ~Failing(runs[k]) THEN 0
                 ELSE IF k > 1 /\ runs[k].command = runs[k - 1].command THEN f[k - 1] + 1 ELSE 1
      BY <2>1 DEF StreakOf
    <2>4. \A i \in 1 .. k : k \in i .. k /\ (i # k => k - 1 \in i .. k /\ k > 1 /\ i \in 1 .. k - 1)
      BY <2>1
    <2>5. CASE ~Failing(runs[k])
      <3>1. \A i \in 1 .. k : ~Block(runs, i, k)
        BY <2>4, <2>5 DEF Block
      <3>2. f[k] = 0 /\ \A i \in 1 .. k : ~(k - i + 1 <= 0)
        BY <2>1, <2>3, <2>5
      <3> QED BY <2>1, <3>1, <3>2
    <2>6. ASSUME Failing(runs[k]) PROVE Block(runs, k, k)
      <3>1. \A j \in k .. k : j = k
        BY <2>1
      <3> QED BY <2>6, <3>1 DEF Block
    <2>7. CASE Failing(runs[k]) /\ ~(k > 1 /\ runs[k].command = runs[k - 1].command)
      <3>1. f[k] = 1
        BY <2>3, <2>7
      <3>2. \A i \in 1 .. k : i # k => ~Block(runs, i, k)
        BY <2>4, <2>7 DEF Block
      <3>3. \A i \in 1 .. k : k - i + 1 <= 1 <=> i = k
        BY <2>1
      <3> QED BY <2>1, <2>6, <2>7, <3>1, <3>2, <3>3
    <2>8. CASE Failing(runs[k]) /\ k > 1 /\ runs[k].command = runs[k - 1].command
      <3>1. f[k] = f[k - 1] + 1 /\ f[k] \in 0 .. k
        BY <2>1, <2>2, <2>3, <2>8
      <3>2. ASSUME NEW i \in 1 .. k - 1 PROVE Block(runs, i, k) <=> Block(runs, i, k - 1)
        <4>1. \A j : j \in i .. k <=> j \in i .. k - 1 \/ j = k
          BY <2>1
        <4>2. k - 1 \in i .. k - 1
          BY <2>1
        <4> QED BY <2>8, <4>1, <4>2 DEF Block
      <3>3. ASSUME NEW i \in 1 .. k PROVE Block(runs, i, k) <=> k - i + 1 <= f[k]
        <4>1. CASE i = k
          <5>1. Block(runs, i, k)
            BY <2>6, <2>8, <4>1
          <5>2. k - i + 1 <= f[k]
            BY <2>1, <2>2, <3>1, <4>1
          <5> QED BY <5>1, <5>2
        <4>2. CASE i \in 1 .. k - 1
          <5>1. Block(runs, i, k) <=> k - 1 - i + 1 <= f[k - 1]
            BY <2>2, <3>2, <4>2
          <5>2. k - 1 - i + 1 <= f[k - 1] <=> k - i + 1 <= f[k]
            BY <2>1, <2>2, <3>1, <4>2
          <5> QED BY <5>1, <5>2
        <4> QED BY <2>4, <4>1, <4>2
      <3> QED BY <2>1, <3>1, <3>3
    <2> QED BY <2>5, <2>7, <2>8
  <1>3. n \in Nat
    OBVIOUS
  <1>4. n \in T
    <2> HIDE DEF T
    <2> QED BY <1>1, <1>2, <1>3, Induction
  <1> QED BY <1>4

LEMMA LongestBlock ==
  ASSUME NEW S, NEW runs \in Seq(S)
  PROVE  LET blocks == {b \in (DOMAIN runs) \X (DOMAIN runs) : b[1] <= b[2] /\ Block(runs, b[1], b[2])}
         IN Streak(runs) = Max({0} \cup {b[2] - b[1] + 1 : b \in blocks})
  <1> DEFINE n == Len(runs)
             blocks == {b \in (DOMAIN runs) \X (DOMAIN runs) : b[1] <= b[2] /\ Block(runs, b[1], b[2])}
             lengths == {0} \cup {b[2] - b[1] + 1 : b \in blocks}
  <1>1. n \in Nat /\ DOMAIN runs = 1 .. n
    OBVIOUS
  <1>2. PICK f : StreakOf(f, runs)
    BY StreakByRun
  <1> DEFINE streaks == {f[i] : i \in 0 .. n}
  <1>3. \A i \in 0 .. n : f[i] \in 0 .. i /\ \A j \in 1 .. i : Block(runs, j, i) <=> i - j + 1 <= f[i]
    BY <1>2, StreakEndsBlock
  <1>4. streaks \in SUBSET Nat /\ streaks # {} /\ \A x \in streaks : x <= n
    <2>1. \A i \in 0 .. n : f[i] \in Nat /\ f[i] <= n
      BY <1>1, <1>3
    <2>2. f[0] \in streaks
      BY <1>1
    <2> QED BY <2>1, <2>2
  <1>5. PICK m \in streaks : \A x \in streaks : x <= m
    <2> HIDE DEF streaks
    <2> QED BY <1>1, <1>4, GreatestNumber
  <1>6. Streak(runs) = m
    <2>1. Streak(runs) = Max(streaks)
      BY <1>2 DEF StreakOf
    <2> HIDE DEF streaks
    <2> QED BY <1>4, <1>5, <2>1, MaxIs
  <1>7. m \in lengths
    <2>1. PICK i \in 0 .. n : m = f[i]
      OBVIOUS
    <2>2. CASE m = 0
      BY <2>2
    <2>3. CASE m # 0
      <3> DEFINE j == i - m + 1
      <3>1. m \in 1 .. i /\ i \in 1 .. n
        BY <1>1, <1>3, <2>1, <2>3
      <3>2. j \in 1 .. i /\ i - j + 1 = m
        BY <1>1, <3>1
      <3> HIDE DEF j
      <3>3. Block(runs, j, i)
        BY <1>1, <1>3, <2>1, <3>1, <3>2
      <3>4. <<j, i>> \in blocks
        BY <1>1, <3>1, <3>2, <3>3
      <3> QED BY <3>2, <3>4
    <2> QED BY <2>2, <2>3
  <1>8. ASSUME NEW x \in lengths PROVE x \in Nat /\ x <= m
    <2>1. CASE x = 0
      BY <1>4, <1>5, <2>1
    <2>2. CASE x # 0
      <3>1. PICK b \in blocks : x = b[2] - b[1] + 1
        BY <2>2
      <3>2. PICK i \in 0 .. n, j \in Nat : j \in 1 .. i /\ x = i - j + 1 /\ Block(runs, j, i)
        <4>1. b[2] \in 0 .. n /\ b[1] \in 1 .. b[2] /\ Block(runs, b[1], b[2])
          BY <1>1
        <4> HIDE DEF blocks
        <4> QED BY <3>1, <4>1
      <3>3. f[i] \in streaks /\ f[i] \in Nat /\ m \in Nat
        BY <1>4, <1>5
      <3>4. x <= f[i] /\ x \in Nat
        BY <1>1, <1>3, <3>2
      <3>5. f[i] <= m
        BY <1>5, <3>3
      <3> QED BY <3>3, <3>4, <3>5
    <2> QED BY <2>1, <2>2
  <1>9. Max(lengths) = m
    <2>1. lengths \in SUBSET Nat
      BY <1>8
    <2> HIDE DEF lengths
    <2> QED BY <1>7, <1>8, <2>1, MaxIs
  <1> QED BY <1>6, <1>9

\* What is reported as the longest streak of a turn is its longest block of
\* failing runs of one command (the loop of turn_verification), for any runs.
THEOREM StreakReported == Spec => []StreakIsLongest
  <1>1. AgreeInv => StreakIsLongest
    <2> SUFFICES ASSUME AgreeInv PROVE StreakIsLongest
      OBVIOUS
    <2>1. PICK noted : turn.runs \in Seq(noted)
      BY DEF AgreeInv, Agree, TurnOf
    <2> QED BY <2>1, LongestBlock, Zenon DEF StreakIsLongest, Block
  <1> QED BY <1>1, AgreeInit, AgreeStep, PTL DEF Spec
-----------------------------------------------------------------------------
(* A turn ends green.  Every step of a turn is the call of which it was     *)
(* noted down, and steps follow the batches.                                *)

\* What a hook adds to a turn: steps, an edit and a run of the new steps.
Step(before, after) == before.step + 1 .. after.step
KeepsLists(before, after) ==
    /\ \E noted : after \in TurnOf(noted)
    /\ after.step >= before.step /\ after.edits = before.edits /\ after.runs = before.runs

LEMMA NoStepLost ==
  ASSUME NEW noted, NEW t \in TurnOf(noted), NEW file, NEW flags, NEW caught, NEW fs
  PROVE  KeepsLists(t, RecordFlags(t, file, flags, caught)) /\ KeepsLists(t, CatchFiles(t, fs))
  <1>1. t.step \in Nat /\ t.step + 1 >= t.step
    BY DEF TurnOf
  <1>2. KeepsLists(t, RecordFlags(t, file, flags, caught))
    <2>1. SameEdits(t, RecordFlags(t, file, flags, caught))
      BY RecordFlagsKeeps
    <2>2. RecordFlags(t, file, flags, caught).runs = t.runs /\ RecordFlags(t, file, flags, caught).step >= t.step
      BY <1>1 DEF RecordFlags, TurnOf
    <2> QED BY <2>1, <2>2 DEF SameEdits, KeepsLists
  <1>3. KeepsLists(t, CatchFiles(t, fs))
    <2>1. SameEdits(t, CatchFiles(t, fs))
      BY CatchFilesKeeps
    <2>2. CatchFiles(t, fs).runs = t.runs /\ CatchFiles(t, fs).step = t.step
      BY DEF CatchFiles, TurnOf
    <2> QED BY <1>1, <2>1, <2>2 DEF SameEdits, KeepsLists
  <1> QED BY <1>2, <1>3

LEMMA EditStep ==
  ASSUME NEW noted, NEW t \in TurnOf(noted), NEW file, NEW test, NEW sensitive
  PROVE  LET after == RecordEdit(t, file, test, sensitive)
         IN /\ \E more : after \in TurnOf(more)
            /\ after.step = t.step + 1 /\ after.runs = t.runs
            /\ \E e : e.step = t.step + 1 /\ after.edits = Append(t.edits, e)
  <1> DEFINE e == [step |-> t.step + 1, file |-> file, test |-> test, sensitive |-> sensitive]
  <1>1. \E more : RecordEdit(t, file, test, sensitive) \in TurnOf(more)
    BY RecordEditAdds DEF OneMore
  <1>2. e.step = t.step + 1
    OBVIOUS
  <1>3. /\ RecordEdit(t, file, test, sensitive).step = t.step + 1
        /\ RecordEdit(t, file, test, sensitive).runs = t.runs
        /\ RecordEdit(t, file, test, sensitive).edits = Append(t.edits, e)
    BY DEF RecordEdit, TurnOf
  <1> HIDE DEF e
  <1> QED BY <1>1, <1>2, <1>3

LEMMA RunStepIs ==
  ASSUME NEW noted, NEW t \in TurnOf(noted), NEW outcome, NEW command
  PROVE  LET after == RecordRun(t, outcome, command)
         IN /\ \E more : after \in TurnOf(more)
            /\ after.step = t.step + 1 /\ after.edits = t.edits
            /\ \E r : r.step = t.step + 1 /\ r.outcome = outcome /\ after.runs = Append(t.runs, r)
  <1> DEFINE r == [step |-> t.step + 1, outcome |-> outcome, command |-> command]
  <1>1. \E more : RecordRun(t, outcome, command) \in TurnOf(more)
    BY RecordRunKeeps DEF SameEdits
  <1>2. r.step = t.step + 1 /\ r.outcome = outcome
    OBVIOUS
  <1>3. /\ RecordRun(t, outcome, command).step = t.step + 1
        /\ RecordRun(t, outcome, command).edits = t.edits
        /\ RecordRun(t, outcome, command).runs = Append(t.runs, r)
    BY DEF RecordRun, TurnOf
  <1> HIDE DEF r
  <1> QED BY <1>1, <1>2, <1>3

\* What follows one turn from another: an edit where there is to be one, a run
\* where there is to be one, both of steps that are new.
AddsEdit(before, after) == \E e : e.step \in Step(before, after) /\ after.edits = Append(before.edits, e)
AddsRun(before, after, outcome) ==
    \E r : r.step \in Step(before, after) /\ r.outcome = outcome /\ after.runs = Append(before.runs, r)

LEMMA NotedSteps ==
  ASSUME NEW noted, turn \in TurnOf(noted),
         NEW signal, NEW facts, NEW isAccepted, NEW isDeclined, NEW back
  PROVE  LET after == Noted(signal, facts, isAccepted, isDeclined, back)
         IN /\ \E more : after \in TurnOf(more)
            /\ after.step >= turn.step
            /\ IF isAccepted THEN AddsEdit(turn, after) ELSE after.edits = turn.edits
            /\ IF signal.testRun = {} THEN after.runs = turn.runs
               ELSE AddsRun(turn, after, (CHOOSE run \in signal.testRun : TRUE).outcome)
  <1> DEFINE edit == RecordEdit(turn, signal.file, signal.isTestFile, facts.pathClass \cap Sensitive # {})
             edited == IF isAccepted THEN RecordFlags(edit, signal.file, signal.editFlags, FALSE)
                       ELSE IF facts.isEdit /\ isDeclined THEN RecordFlags(turn, signal.file, signal.editFlags, TRUE)
                       ELSE turn
             caught == IF back THEN CatchFiles(edited, {signal.file}) ELSE edited
             run == CHOOSE run \in signal.testRun : TRUE
             ran == IF signal.testRun = {} THEN caught ELSE RecordRun(caught, run.outcome, run.key)
             after == IF signal.commandSucceeded THEN RecordFlags(ran, NoFile, signal.commandFlags, FALSE) ELSE ran
  <1>0. Noted(signal, facts, isAccepted, isDeclined, back) = after
    BY DEF Noted
  <1>1. turn.step \in Nat
    BY DEF TurnOf
  <1>2. /\ \E more : edited \in TurnOf(more)
        /\ edited.step >= turn.step /\ edited.runs = turn.runs
        /\ IF isAccepted THEN \E e : e.step = turn.step + 1 /\ edited.step >= turn.step + 1 /\ edited.edits = Append(turn.edits, e)
           ELSE edited.edits = turn.edits
    <2>1. CASE isAccepted
      <3>1. /\ \E more : edit \in TurnOf(more)
            /\ edit.step = turn.step + 1 /\ edit.runs = turn.runs
            /\ \E e : e.step = turn.step + 1 /\ edit.edits = Append(turn.edits, e)
        BY EditStep
      <3> HIDE DEF edit
      <3>2. KeepsLists(edit, RecordFlags(edit, signal.file, signal.editFlags, FALSE))
        BY <3>1, NoStepLost
      <3>3. edited = RecordFlags(edit, signal.file, signal.editFlags, FALSE)
        BY <2>1
      <3> HIDE DEF edited
      <3>4. (\E more : edited \in TurnOf(more)) /\ edited.step >= edit.step /\ edited.edits = edit.edits /\ edited.runs = edit.runs
        BY <3>2, <3>3 DEF KeepsLists
      <3>5. PICK e : e.step = turn.step + 1 /\ edit.edits = Append(turn.edits, e)
        BY <3>1
      <3>6. edited.step \in Nat
        BY <3>4 DEF TurnOf
      <3>7. edited.step >= turn.step /\ edited.runs = turn.runs /\ edited.step >= turn.step + 1
        BY <1>1, <3>1, <3>4, <3>6
      <3>8. e.step = turn.step + 1 /\ edited.step >= turn.step + 1 /\ edited.edits = Append(turn.edits, e)
        BY <3>4, <3>5, <3>7
      <3> QED BY <2>1, <3>4, <3>7, <3>8
    <2>2. CASE ~isAccepted
      <3>1. KeepsLists(turn, RecordFlags(turn, signal.file, signal.editFlags, TRUE))
        BY NoStepLost
      <3>2. edited \in {turn, RecordFlags(turn, signal.file, signal.editFlags, TRUE)}
        BY <2>2
      <3>3. KeepsLists(turn, turn)
        BY <1>1 DEF KeepsLists
      <3> HIDE DEF edited
      <3>4. KeepsLists(turn, edited)
        BY <3>1, <3>2, <3>3
      <3> QED BY <2>2, <3>4 DEF KeepsLists
    <2> QED BY <2>1, <2>2
  <1> HIDE DEF edited
  <1>3. KeepsLists(edited, caught)
    <2>1. PICK more : edited \in TurnOf(more)
      BY <1>2
    <2>2. KeepsLists(edited, CatchFiles(edited, {signal.file}))
      BY <2>1, NoStepLost
    <2>3. edited.step \in Nat
      BY <2>1 DEF TurnOf
    <2> QED BY <2>1, <2>2, <2>3 DEF KeepsLists
  <1> HIDE DEF caught, run
  <1>4. /\ \E more : ran \in TurnOf(more)
        /\ ran.step >= caught.step /\ ran.edits = caught.edits
        /\ IF signal.testRun = {} THEN ran.runs = caught.runs
           ELSE /\ ran.step = caught.step + 1
                /\ \E r : r.step = caught.step + 1 /\ r.outcome = run.outcome /\ ran.runs = Append(caught.runs, r)
    <2>1. PICK more : caught \in TurnOf(more)
      BY <1>3 DEF KeepsLists
    <2>2. caught.step \in Nat
      BY <2>1 DEF TurnOf
    <2>3. CASE signal.testRun = {}
      BY <2>1, <2>2, <2>3
    <2>4. CASE signal.testRun # {}
      <3>1. ran = RecordRun(caught, run.outcome, run.key)
        BY <2>4
      <3> HIDE DEF ran
      <3>2. /\ \E more2 : ran \in TurnOf(more2)
            /\ ran.step = caught.step + 1 /\ ran.edits = caught.edits
            /\ \E r : r.step = caught.step + 1 /\ r.outcome = run.outcome /\ ran.runs = Append(caught.runs, r)
        BY <2>1, <3>1, RunStepIs
      <3> QED BY <2>2, <2>4, <3>2
    <2> QED BY <2>3, <2>4
  <1> HIDE DEF ran
  <1>5. KeepsLists(ran, after)
    <2>1. PICK more : ran \in TurnOf(more)
      BY <1>4
    <2>2. KeepsLists(ran, RecordFlags(ran, NoFile, signal.commandFlags, FALSE))
      BY <2>1, NoStepLost
    <2>3. KeepsLists(ran, ran)
      <3>1. ran.step \in Nat
        BY <2>1 DEF TurnOf
      <3> QED BY <2>1, <3>1 DEF KeepsLists
    <2>4. after \in {ran, RecordFlags(ran, NoFile, signal.commandFlags, FALSE)}
      OBVIOUS
    <2> HIDE DEF after
    <2> QED BY <2>2, <2>3, <2>4
  <1> HIDE DEF after
  <1>6. edited.step \in Nat /\ caught.step \in Nat /\ ran.step \in Nat /\ after.step \in Nat
    BY <1>2, <1>3, <1>4, <1>5 DEF KeepsLists, TurnOf
  <1>7. after.step >= turn.step
    BY <1>1, <1>2, <1>3, <1>4, <1>5, <1>6 DEF KeepsLists
  <1>8. IF isAccepted THEN AddsEdit(turn, after) ELSE after.edits = turn.edits
    <2>1. CASE isAccepted
      <3>1. PICK e : e.step = turn.step + 1 /\ edited.step >= turn.step + 1 /\ edited.edits = Append(turn.edits, e)
        BY <1>2, <2>1
      <3>2. e.step \in turn.step + 1 .. after.step /\ after.edits = Append(turn.edits, e)
        BY <1>1, <1>3, <1>4, <1>5, <1>6, <3>1 DEF KeepsLists
      <3> QED BY <2>1, <3>2 DEF AddsEdit, Step
    <2>2. CASE ~isAccepted
      BY <1>2, <1>3, <1>4, <1>5, <2>2 DEF KeepsLists
    <2> QED BY <2>1, <2>2
  <1>9. IF signal.testRun = {} THEN after.runs = turn.runs ELSE AddsRun(turn, after, run.outcome)
    <2>1. CASE signal.testRun # {}
      <3>1. PICK r : r.step = caught.step + 1 /\ r.outcome = run.outcome /\ ran.runs = Append(caught.runs, r)
        BY <1>4, <2>1
      <3>2. r.step \in turn.step + 1 .. after.step /\ after.runs = Append(turn.runs, r)
        BY <1>1, <1>2, <1>3, <1>4, <1>5, <1>6, <2>1, <3>1 DEF KeepsLists
      <3> QED BY <2>1, <3>1, <3>2 DEF AddsRun, Step
    <2>2. CASE signal.testRun = {}
      BY <1>2, <1>3, <1>4, <1>5, <2>2 DEF KeepsLists
    <2> QED BY <2>1, <2>2
  <1>10. \E more : after \in TurnOf(more)
    BY <1>5 DEF KeepsLists
  <1> QED BY <1>0, <1>7, <1>8, <1>9, <1>10 DEF run

\* Whether a turn ended green, by the steps of its edits and of its runs.
StepsIn(t) ==
    /\ \A i \in 1 .. Len(t.edits) : t.edits[i].step \in 1 .. t.step
    /\ \A j \in 1 .. Len(t.runs) : t.runs[j].step \in 1 .. t.step

GreenAfterAll(t) ==
    \E j \in 1 .. Len(t.runs) :
       t.runs[j].outcome = "passed" /\ \A i \in 1 .. Len(t.edits) : t.runs[j].step > t.edits[i].step

LEMMA GreenByStep ==
  ASSUME NEW noted, NEW t \in TurnOf(noted), StepsIn(t), NEW event \in TurnVerification(t)
  PROVE  event.endedGreen = GreenAfterAll(t)
  <1> DEFINE edits == ToSet(t.edits)
             last == {e.step : e \in edits}
             greens == {r.step : r \in {r \in ToSet(t.runs) : r.outcome = "passed"}}
             green == greens # {} /\ Max(greens) > Max(last)
  <1>0. edits # {} /\ event.endedGreen = green
    <2>1. edits # {}
      BY DEF TurnVerification
    <2> QED BY <2>1 DEF TurnVerification
  <1>1. t.step \in Nat /\ t.edits \in Seq(noted) /\ t.runs \in Seq(noted)
    BY DEF TurnOf
  <1>2. /\ \A e \in edits : \E i \in 1 .. Len(t.edits) : t.edits[i] = e
        /\ \A i \in 1 .. Len(t.edits) : t.edits[i] \in edits
        /\ \A r \in ToSet(t.runs) : \E j \in 1 .. Len(t.runs) : t.runs[j] = r
        /\ \A j \in 1 .. Len(t.runs) : t.runs[j] \in ToSet(t.runs)
    BY <1>1, Elements
  <1> HIDE DEF edits
  <1>3. /\ \A x \in last : x \in 1 .. t.step /\ \E i \in 1 .. Len(t.edits) : t.edits[i].step = x
        /\ \A i \in 1 .. Len(t.edits) : t.edits[i].step \in last
        /\ last # {}
    <2>1. \A x \in last : \E i \in 1 .. Len(t.edits) : t.edits[i].step = x
      BY <1>2
    <2>2. \A i \in 1 .. Len(t.edits) : t.edits[i].step \in last
      BY <1>2
    <2>3. last # {}
      BY <1>0
    <2> QED BY <2>1, <2>2, <2>3 DEF StepsIn
  <1>4. /\ \A x \in greens : x \in 1 .. t.step
        /\ \A x \in greens : \E j \in 1 .. Len(t.runs) : t.runs[j].outcome = "passed" /\ t.runs[j].step = x
        /\ \A j \in 1 .. Len(t.runs) : t.runs[j].outcome = "passed" => t.runs[j].step \in greens
    <2>1. \A x \in greens : \E j \in 1 .. Len(t.runs) : t.runs[j].outcome = "passed" /\ t.runs[j].step = x
      BY <1>2
    <2>2. \A j \in 1 .. Len(t.runs) : t.runs[j].outcome = "passed" => t.runs[j].step \in greens
      BY <1>2
    <2> QED BY <2>1, <2>2 DEF StepsIn
  <1> HIDE DEF last, greens
  <1>5. PICK m \in last : (\A x \in last : x <= m) /\ Max(last) = m
    <2>1. last \in SUBSET Nat /\ last # {} /\ \A x \in last : x <= t.step
      BY <1>1, <1>3
    <2>2. PICK m \in last : \A x \in last : x <= m
      BY <1>1, <2>1, GreatestNumber
    <2> QED BY <2>1, <2>2, MaxIs
  <1>6. CASE greens = {}
    BY <1>0, <1>4, <1>6 DEF GreenAfterAll
  <1>7. CASE greens # {}
    <2>1. greens \in SUBSET Nat /\ \A x \in greens : x <= t.step
      BY <1>1, <1>4
    <2>2. PICK g \in greens : (\A x \in greens : x <= g) /\ Max(greens) = g
      <3>1. PICK g \in greens : \A x \in greens : x <= g
        BY <1>1, <1>7, <2>1, GreatestNumber
      <3> QED BY <2>1, <3>1, MaxIs
    <2>3. event.endedGreen = (g > m)
      BY <1>0, <1>5, <1>7, <2>2
    <2>4. m \in Nat /\ g \in Nat
      BY <1>3, <1>4
    <2>5. ASSUME g > m PROVE GreenAfterAll(t)
      <3>1. PICK j \in 1 .. Len(t.runs) : t.runs[j].outcome = "passed" /\ t.runs[j].step = g
        BY <1>4
      <3>2. \A i \in 1 .. Len(t.edits) : g > t.edits[i].step
        <4> SUFFICES ASSUME NEW i \in 1 .. Len(t.edits) PROVE g > t.edits[i].step
          OBVIOUS
        <4>1. t.edits[i].step \in Nat /\ t.edits[i].step <= m
          BY <1>3, <1>5, <1>1
        <4> QED BY <2>4, <2>5, <4>1
      <3> QED BY <3>1, <3>2 DEF GreenAfterAll
    <2>6. ASSUME GreenAfterAll(t) PROVE g > m
      <3>1. PICK j \in 1 .. Len(t.runs) :
                   t.runs[j].outcome = "passed" /\ \A i \in 1 .. Len(t.edits) : t.runs[j].step > t.edits[i].step
        BY <2>6 DEF GreenAfterAll
      <3>2. t.runs[j].step > m
        BY <1>3, <1>5, <3>1
      <3>3. t.runs[j].step <= g /\ t.runs[j].step \in Nat
        BY <1>4, <2>1, <2>2, <3>1
      <3> QED BY <2>4, <3>2, <3>3
    <2>7. GreenAfterAll(t) \in BOOLEAN
      BY DEF GreenAfterAll
    <2>8. (g > m) \in BOOLEAN
      OBVIOUS
    <2> QED BY <2>3, <2>5, <2>6, <2>7, <2>8
  <1> QED BY <1>6, <1>7
-----------------------------------------------------------------------------
\* The repository while a command runs.
Trees == [File -> DOMAIN Lines]
Subs == Restoring \cup {"commit", "revert", "tests"}
Commits == Seq(Trees) \ {<<>>}
Repo == [tree : Trees, commits : Commits, ok : BOOLEAN, done : Seq(Subs)]

LEMMA GitTypes ==
  ASSUME NEW w \in Repo, NEW call
  PROVE  Git(w, call) \in Repo /\ Git(w, call).done = w.done
  <1> DEFINE head == Last(w.commits)
             tracked == {f \in File : head[f] # Absent}
             fs == IF call.sub \in {"restore", "checkout"} THEN Named(Positionals(call.args)) ELSE File
             previous == w.commits[Len(w.commits) - 1]
             restored == [f \in File |-> IF f \in fs \cap tracked THEN head[f] ELSE w.tree[f]]
             refused == [w EXCEPT !.ok = FALSE]
             put == [w EXCEPT !.tree = restored]
             committed == [w EXCEPT !.commits = Append(w.commits, w.tree)]
             reverted == [w EXCEPT !.tree = previous, !.commits = Append(w.commits, previous)]
  <1>1. /\ w.tree \in Trees /\ w.commits \in Seq(Trees) /\ Len(w.commits) \in Nat /\ Len(w.commits) # 0
        /\ \A i \in 1 .. Len(w.commits) : w.commits[i] \in Trees
    BY DEF Repo, Commits
  <1>2. head \in Trees
    BY <1>1 DEF Last
  <1>3. restored \in Trees
    BY <1>1, <1>2 DEF Trees
  <1>4. ASSUME NEW t \in Trees PROVE Append(w.commits, t) \in Commits
    <2>1. Append(w.commits, t) \in Seq(Trees) /\ Len(Append(w.commits, t)) = Len(w.commits) + 1
      BY <1>1
    <2>2. Append(w.commits, t) # <<>>
      BY <1>1, <2>1
    <2> QED BY <2>1, <2>2 DEF Commits
  <1>5. Len(w.commits) # 1 => previous \in Trees
    <2> HIDE DEF previous
    <2>1. \A n \in Nat : n # 0 /\ n # 1 => n - 1 \in 1 .. n
      OBVIOUS
    <2>2. Len(w.commits) # 1 => Len(w.commits) - 1 \in 1 .. Len(w.commits)
      BY <1>1, <2>1
    <2> QED BY <1>1, <2>2 DEF previous
  <1>6. refused \in Repo /\ refused.done = w.done
    BY DEF Repo
  <1> HIDE DEF restored
  <1>7. put \in Repo /\ put.done = w.done
    BY <1>3 DEF Repo
  <1>8. committed \in Repo /\ committed.done = w.done
    BY <1>1, <1>4 DEF Repo
  <1> HIDE DEF previous
  <1>9. Len(w.commits) # 1 => reverted \in Repo /\ reverted.done = w.done
    <2> SUFFICES ASSUME Len(w.commits) # 1 PROVE reverted \in Repo /\ reverted.done = w.done
      OBVIOUS
    <2>1. previous \in Trees /\ Append(w.commits, previous) \in Commits
      BY <1>4, <1>5
    <2> QED BY <2>1 DEF Repo
  <1>10. Git(w, call) \in {refused, put, committed} \/ (Len(w.commits) # 1 /\ Git(w, call) = reverted)
    BY Zenon DEF Git, restored, previous
  <1> HIDE DEF refused, put, committed, reverted
  <1> QED BY <1>6, <1>7, <1>8, <1>9, <1>10

\* What a step does: it is done or, if it fails, nothing is any more.
LEMMA StepDoes ==
  ASSUME NEW w \in Repo, NEW step, step.sub \in Subs, NEW pass \in BOOLEAN
  PROVE  LET next == RunStep(w, step, pass)
         IN /\ next \in Repo
            /\ IF w.ok /\ next.ok THEN next.done = Append(w.done, step.sub)
               ELSE ~next.ok /\ next.done = w.done
  <1> DEFINE tried == IF step.sub = "tests" THEN [w EXCEPT !.ok = pass] ELSE Git(w, step)
             added == [tried EXCEPT !.done = Append(tried.done, step.sub)]
  <1>1. tried \in Repo /\ tried.done = w.done
    <2>1. [w EXCEPT !.ok = pass] \in Repo /\ [w EXCEPT !.ok = pass].done = w.done
      BY DEF Repo
    <2> QED BY <2>1, GitTypes
  <1>2. RunStep(w, step, pass) = IF ~w.ok THEN w ELSE IF tried.ok THEN added ELSE tried
    BY DEF RunStep
  <1> HIDE DEF tried
  <1>3. Append(tried.done, step.sub) \in Seq(Subs)
    BY <1>1 DEF Repo
  <1>4. added \in Repo /\ added.ok = tried.ok /\ added.done = Append(w.done, step.sub)
    BY <1>1, <1>3 DEF Repo
  <1> HIDE DEF added
  <1>5. w.ok \in BOOLEAN /\ tried.ok \in BOOLEAN
    BY <1>1 DEF Repo
  <1> QED BY <1>1, <1>2, <1>4, <1>5

\* The end of a run of a command whose tests, if any, come last.
LastTests(steps) == \A i \in 1 .. Len(steps) : steps[i].sub = "tests" => i + 1 \notin 1 .. Len(steps)

\* What is known when n steps were taken.
Upto(steps, n, w) ==
    /\ w \in Repo
    /\ w.ok => \A i \in 1 .. n : steps[i].sub \in ToSet(w.done)
    /\ "tests" \in ToSet(w.done) => w.ok /\ \E i \in 1 .. n : steps[i].sub = "tests"

LEMMA OneStepOn ==
  ASSUME NEW steps, Len(steps) \in Nat, LastTests(steps), \A i \in 1 .. Len(steps) : steps[i].sub \in Subs,
         NEW n \in 1 .. Len(steps), NEW w, Upto(steps, n - 1, w), NEW pass \in BOOLEAN
  PROVE  Upto(steps, n, RunStep(w, steps[n], pass))
  <1> DEFINE next == RunStep(w, steps[n], pass)
  <1>1. /\ w \in Repo /\ next \in Repo
        /\ IF w.ok /\ next.ok THEN next.done = Append(w.done, steps[n].sub) ELSE ~next.ok /\ next.done = w.done
    BY StepDoes DEF Upto
  <1> HIDE DEF next
  <1>2. w.done \in Seq(Subs) /\ steps[n].sub \in Subs
    BY <1>1 DEF Repo
  <1>3. \A i \in 1 .. n : i = n \/ i \in 1 .. n - 1
    OBVIOUS
  <1>4. ASSUME w.ok /\ next.ok PROVE Upto(steps, n, next)
    <2>1. ToSet(next.done) = ToSet(w.done) \cup {steps[n].sub}
      <3>1. ToSet(Append(w.done, steps[n].sub)) = ToSet(w.done) \cup {steps[n].sub}
        BY <1>2, ElementsOfAppend
      <3> QED BY <1>1, <1>4, <3>1
    <2>2. \A i \in 1 .. n : steps[i].sub \in ToSet(next.done)
      BY <1>3, <1>4, <2>1 DEF Upto
    <2>3. "tests" \in ToSet(next.done) => \E i \in 1 .. n : steps[i].sub = "tests"
      <3>1. ASSUME "tests" \in ToSet(w.done) PROVE \E i \in 1 .. n : steps[i].sub = "tests"
        BY <3>1 DEF Upto
      <3>2. ASSUME steps[n].sub = "tests" PROVE \E i \in 1 .. n : steps[i].sub = "tests"
        BY <3>2
      <3> QED BY <2>1, <3>1, <3>2
    <2> QED BY <1>1, <1>4, <2>2, <2>3 DEF Upto
  <1>5. ASSUME ~(w.ok /\ next.ok) PROVE Upto(steps, n, next)
    <2>1. ~next.ok /\ next.done = w.done
      BY <1>1, <1>5
    <2>2. "tests" \notin ToSet(next.done)
      <3> SUFFICES ASSUME "tests" \in ToSet(w.done) PROVE FALSE
        BY <2>1
      <3>1. PICK i \in 1 .. n - 1 : steps[i].sub = "tests"
        BY DEF Upto
      <3>2. i \in 1 .. Len(steps) /\ i + 1 \in 1 .. Len(steps)
        OBVIOUS
      <3> QED BY <3>1, <3>2 DEF LastTests
    <2> QED BY <1>1, <2>1, <2>2 DEF Upto
  <1> QED BY <1>4, <1>5 DEF next

\* The repository after each step of a command.
Stages(w, command, pass) ==
    w = [n \in 0 .. Len(Steps[command]) |->
           IF n = 0 THEN [tree |-> tree, commits |-> commits, ok |-> TRUE, done |-> <<>>]
           ELSE RunStep(w[n - 1], Steps[command][n], pass)]

LEMMA RunByStep ==
  ASSUME tree \in Trees, commits \in Commits, NEW command, NEW pass \in BOOLEAN,
         Len(Steps[command]) \in Nat, \A i \in 1 .. Len(Steps[command]) : Steps[command][i].sub \in Subs
  PROVE  \E w : Stages(w, command, pass) /\ Run(command, pass) = w[Len(Steps[command])]
  <1> DEFINE steps == Steps[command]
             n == Len(steps)
             base == [tree |-> tree, commits |-> commits, ok |-> TRUE, done |-> <<>>]
             On(p) == RunStep(p[2], steps[p[1]], pass)
             step == [p \in (1 .. n) \X Repo |-> On(p)]
  <1>1. base \in Repo
    <2>1. <<>> \in Seq(Subs)
      OBVIOUS
    <2> QED BY <2>1 DEF Repo
  <1>2. \A p \in (1 .. n) \X Repo : On(p) \in Repo
    <2> SUFFICES ASSUME NEW p \in (1 .. n) \X Repo PROVE On(p) \in Repo
      OBVIOUS
    <2>1. p[1] \in 1 .. n /\ p[2] \in Repo
      OBVIOUS
    <2> QED BY <2>1, StepDoes
  <1>3. PICK f \in [0 .. n -> Repo] : f[0] = base /\ \A i \in 1 .. n : f[i] = step[<<i, f[i - 1]>>]
    <2>1. step \in [(1 .. n) \X Repo -> Repo] /\ n \in Nat
      <3> HIDE DEF On
      <3> QED BY <1>2
    <2> HIDE DEF step, n, base
    <2>2. \E f \in [0 .. n -> Repo] : Computes(f, n, base, step)
      BY <1>1, <2>1, Recursion
    <2> QED BY <2>2, Zenon DEF Computes
  <1>4. \A i \in 1 .. n : f[i] = RunStep(f[i - 1], steps[i], pass)
    <2> SUFFICES ASSUME NEW i \in 1 .. n PROVE f[i] = RunStep(f[i - 1], steps[i], pass)
      OBVIOUS
    <2>1. i - 1 \in 0 .. n
      OBVIOUS
    <2>2. f[i - 1] \in Repo
      BY <2>1
    <2>3. <<i, f[i - 1]>> \in (1 .. n) \X Repo /\ f[i] = step[<<i, f[i - 1]>>]
      BY <1>3, <2>2
    <2>4. step[<<i, f[i - 1]>>] = On(<<i, f[i - 1]>>)
      <3> HIDE DEF On, n
      <3> QED BY <2>3
    <2> QED BY <2>3, <2>4
  <1>5. Stages(f, command, pass)
    <2>1. \A i \in 0 .. n : i = 0 \/ i \in 1 .. n
      OBVIOUS
    <2>2. \A i \in 0 .. n : f[i] = IF i = 0 THEN base ELSE RunStep(f[i - 1], steps[i], pass)
      <3> HIDE DEF n, base
      <3> QED BY <1>3, <1>4, <2>1
    <2> QED BY <2>2, Zenon DEF Stages
  <1> DEFINE g == CHOOSE w : Stages(w, command, pass)
  <1>6. Stages(g, command, pass)
    BY <1>5
  <1>7. Run(command, pass) = g[n]
    BY Zenon DEF Run, Stages
  <1> HIDE DEF g
  <1> QED BY <1>6, <1>7

LEMMA RunEnds ==
  ASSUME tree \in Trees, commits \in Commits, NEW command, NEW pass \in BOOLEAN,
         DOMAIN Steps[command] = 1 .. Len(Steps[command]), Len(Steps[command]) \in Nat,
         LastTests(Steps[command]), \A i \in 1 .. Len(Steps[command]) : Steps[command][i].sub \in Subs
  PROVE  /\ Run(command, pass) \in Repo
         /\ ("tests" \in ToSet(Run(command, pass).done)) = (Run(command, pass).ok /\ HasTests(command))
  <1> DEFINE n == Len(Steps[command])
  <1>1. PICK w : Stages(w, command, pass) /\ Run(command, pass) = w[n]
    BY RunByStep
  <1>2. w[0] = [tree |-> tree, commits |-> commits, ok |-> TRUE, done |-> <<>>]
        /\ \A i \in 1 .. n : w[i] = RunStep(w[i - 1], Steps[command][i], pass)
    <2>1. 0 \in 0 .. n /\ \A i \in 1 .. n : i \in 0 .. n /\ i # 0
      OBVIOUS
    <2>2. \A i \in 0 .. n : w[i] = IF i = 0 THEN [tree |-> tree, commits |-> commits, ok |-> TRUE, done |-> <<>>]
                                   ELSE RunStep(w[i - 1], Steps[command][i], pass)
      BY <1>1, Zenon DEF Stages
    <2> QED BY <2>1, <2>2
  <1> DEFINE T == {i \in 0 .. n : Upto(Steps[command], i, w[i])}
  <1>3. 0 \in T
    <2>1. <<>> \in Seq(Subs) /\ ToSet(<<>>) = {}
      <3>1. <<>> \in Seq(Subs)
        OBVIOUS
      <3> QED BY <3>1, Elements
    <2>2. w[0] \in Repo /\ w[0].done = <<>>
      BY <1>2, <2>1 DEF Repo
    <2> QED BY <2>1, <2>2 DEF Upto
  <1>4. \A i \in 1 .. n : i - 1 \in T => i \in T
    <2> SUFFICES ASSUME NEW i \in 1 .. n, Upto(Steps[command], i - 1, w[i - 1]) PROVE Upto(Steps[command], i, w[i])
      OBVIOUS
    <2>1. Upto(Steps[command], i, RunStep(w[i - 1], Steps[command][i], pass))
      BY OneStepOn
    <2> QED BY <1>2, <2>1
  <1>5. n \in T
    <2> HIDE DEF T
    <2> QED BY <1>3, <1>4, Induction
  <1>6. Upto(Steps[command], n, Run(command, pass))
    BY <1>1, <1>5
  <1>7. /\ Run(command, pass) \in Repo
        /\ HasTests(command) /\ Run(command, pass).ok => "tests" \in ToSet(Run(command, pass).done)
        /\ "tests" \in ToSet(Run(command, pass).done) => Run(command, pass).ok /\ HasTests(command)
    BY <1>6 DEF Upto, HasTests
  <1>8. Run(command, pass).ok \in BOOLEAN /\ HasTests(command) \in BOOLEAN
    BY <1>7 DEF Repo, HasTests
  <1> QED BY <1>7, <1>8
-----------------------------------------------------------------------------
\* The calls, whatever their arguments are.
CallStates == {"told", "recorded", "killed"}
Call(any) == [state : CallStates, batch : Nat, tool : any, file : any, input : any, result : any, replaced : any,
              done : any, before : any, head : any, after : any, commits : any]

ToldOf(call) == [k \in {"tool", "file", "input", "result", "replaced"} |-> call[k]]

EditDone(call) == call.done = <<"edit">>
TestsDone(call) == "tests" \in ToSet(call.done)

\* A call is one its hook can read, and did what the hook will read of it.
CallIs(call, s) ==
    /\ ToldOf(call) \in CallsOf(s)
    /\ EditDone(call) = (call.tool = "write" /\ call.result = "applied")
    /\ TestsDone(call) = (call.tool = "bash" /\ call.result = "ok" /\ HasTests(call.input))

WorldInv ==
    /\ scenario \in Scenario /\ tree \in Trees /\ commits \in Commits
    /\ \E any : calls \in Seq(Call(any))
    /\ \A c \in 1 .. Len(calls) : CallIs(calls[c], scenario)

\* What happens to the calls: there are more, and what they did stays.
SameCall(one, other) ==
    /\ ToldOf(other) = ToldOf(one) /\ other.tool = one.tool /\ other.result = one.result /\ other.input = one.input
    /\ other.done = one.done /\ other.batch = one.batch

CallsKept ==
    /\ Len(calls) \in Nat /\ Len(calls') \in Nat /\ Len(calls') >= Len(calls)
    /\ \A c \in 1 .. Len(calls) : SameCall(calls[c], calls'[c])

LEMMA MoreCalls ==
  ASSUME NEW any, NEW more, any \subseteq more, NEW call \in Call(any)
  PROVE  call \in Call(more)
  BY DEF Call

\* A call of which only the state changes.
LEMMA StateChanges ==
  ASSUME NEW any, calls \in Seq(Call(any)), NEW c \in DOMAIN calls, NEW state \in CallStates
  PROVE  LET after == [calls EXCEPT ![c].state = state]
         IN /\ after \in Seq(Call(any)) /\ Len(after) = Len(calls) /\ Len(calls) \in Nat
            /\ \A d \in 1 .. Len(calls) : /\ SameCall(calls[d], after[d])
                                          /\ after[d].state = IF d = c THEN state ELSE calls[d].state
  <1> DEFINE one == [calls[c] EXCEPT !.state = state]
             after == [calls EXCEPT ![c] = one]
  <1>1. Len(calls) \in Nat /\ DOMAIN calls = 1 .. Len(calls) /\ \A d \in 1 .. Len(calls) : calls[d] \in Call(any)
    OBVIOUS
  <1>2. one \in Call(any) /\ one.state = state /\ SameCall(calls[c], one)
    <2>1. calls[c] \in Call(any)
      BY <1>1
    <2>2. one \in Call(any) /\ one.state = state
      BY <2>1 DEF Call
    <2>3. \A k \in {"tool", "file", "input", "result", "replaced"} : one[k] = calls[c][k]
      BY <2>1 DEF Call
    <2>4. one.done = calls[c].done /\ one.batch = calls[c].batch
      BY <2>1 DEF Call
    <2> HIDE DEF one
    <2>5. ToldOf(one) = ToldOf(calls[c])
      BY <2>3 DEF ToldOf
    <2> QED BY <2>2, <2>3, <2>4, <2>5 DEF SameCall
  <1> HIDE DEF one
  <1>3. after \in Seq(Call(any)) /\ Len(after) = Len(calls)
    BY <1>1, <1>2
  <1>4. \A d \in 1 .. Len(calls) : after[d] = IF d = c THEN one ELSE calls[d]
    BY <1>1
  <1> HIDE DEF after
  <1>5. \A d \in 1 .. Len(calls) : /\ SameCall(calls[d], after[d])
                                   /\ after[d].state = IF d = c THEN state ELSE calls[d].state
    BY <1>2, <1>4 DEF SameCall
  <1>6. [calls EXCEPT ![c].state = state] = after
    BY DEF after, one
  <1> QED BY <1>1, <1>3, <1>5, <1>6

\* A call more.
LEMMA CallAppends ==
  ASSUME NEW any, calls \in Seq(Call(any)), NEW more, NEW call \in Call(more)
  PROVE  LET after == Append(calls, call)
         IN /\ \E all : after \in Seq(Call(all))
            /\ Len(after) = Len(calls) + 1 /\ Len(calls) \in Nat /\ after[Len(calls) + 1] = call
            /\ \A d \in 1 .. Len(calls) : after[d] = calls[d]
  <1> DEFINE all == any \cup more
  <1>1. call \in Call(all) /\ \A d \in Call(any) : d \in Call(all)
    BY MoreCalls
  <1> HIDE DEF all
  <1>2. calls \in Seq(Call(all))
    BY <1>1
  <1>3. Append(calls, call) \in Seq(Call(all)) /\ Len(Append(calls, call)) = Len(calls) + 1
        /\ Append(calls, call)[Len(calls) + 1] = call /\ \A d \in 1 .. Len(calls) : Append(calls, call)[d] = calls[d]
    BY <1>1, <1>2, AppendProperties
  <1> QED BY <1>2, <1>3

LEMMA SameCallIs ==
  ASSUME NEW one, NEW other, NEW s, CallIs(one, s), SameCall(one, other)
  PROVE  CallIs(other, s)
  BY DEF CallIs, SameCall, EditDone, TestsDone

LEMMA SameIsSame == \A call : SameCall(call, call)
  BY DEF SameCall

LEMMA WorldInit == Init => WorldInv
  <1> SUFFICES ASSUME Init PROVE WorldInv
    OBVIOUS
  <1>1. AtStart \in Trees
    BY ScenarioAssumption DEF Trees
  <1>2. <<AtStart>> \in Commits
    <2>1. <<AtStart>> \in Seq(Trees) /\ <<AtStart>> # <<>>
      BY <1>1
    <2> QED BY <2>1 DEF Commits
  <1>3. calls \in Seq(Call({})) /\ Len(calls) = 0
    BY DEF Init
  <1> QED BY <1>1, <1>2, <1>3 DEF Init, WorldInv

\* What a call makes is a call.
LEMMA BatchIs ==
  ASSUME WorldInv
  PROVE  Batch \in Nat /\ \A c \in 1 .. Len(calls) : calls[Len(calls)].batch <= Batch /\ (Open # {} => Batch = calls[Len(calls)].batch)
  <1>1. PICK any : calls \in Seq(Call(any))
    BY DEF WorldInv
  <1>2. CASE calls = <<>>
    <2>1. Batch \in {0, 1} /\ Len(calls) = 0
      BY <1>2 DEF Batch
    <2> QED BY <2>1
  <1>3. CASE calls # <<>>
    <2>1. Len(calls) \in Nat /\ Len(calls) \in 1 .. Len(calls)
      BY <1>1, <1>3
    <2>2. calls[Len(calls)].batch \in Nat /\ Last(calls) = calls[Len(calls)]
      <3>1. calls[Len(calls)] \in Call(any)
        BY <1>1, <2>1
      <3>2. calls[Len(calls)].batch \in Nat
        BY <3>1 DEF Call
      <3> QED BY <3>2 DEF Last
    <2>3. Batch = IF Open = {} /\ tracking = Idle THEN calls[Len(calls)].batch + 1 ELSE calls[Len(calls)].batch
      BY <1>3, <2>2 DEF Batch
    <2> QED BY <2>2, <2>3
  <1> QED BY <1>2, <1>3

\* What is kept if there is a call more.
LEMMA WorldGrows ==
  ASSUME WorldInv, NEW more, NEW call \in Call(more), CallIs(call, scenario), scenario' = scenario,
         calls' = Append(calls, call), tree' \in Trees, commits' \in Commits
  PROVE  WorldInv' /\ CallsKept
  <1>1. PICK any : calls \in Seq(Call(any))
    BY DEF WorldInv
  <1>2. /\ \E all : calls' \in Seq(Call(all))
        /\ Len(calls') = Len(calls) + 1 /\ Len(calls) \in Nat /\ calls'[Len(calls) + 1] = call
        /\ \A d \in 1 .. Len(calls) : calls'[d] = calls[d]
    BY <1>1, CallAppends
  <1>3. \A c \in 1 .. Len(calls') : CallIs(calls'[c], scenario)
    <2> SUFFICES ASSUME NEW c \in 1 .. Len(calls') PROVE CallIs(calls'[c], scenario)
      OBVIOUS
    <2>1. c \in 1 .. Len(calls) \/ c = Len(calls) + 1
      BY <1>2
    <2> QED BY <1>2, <2>1 DEF WorldInv
  <1>4. WorldInv'
    BY <1>2, <1>3 DEF WorldInv
  <1>5. CallsKept
    BY <1>2, SameIsSame DEF CallsKept
  <1> QED BY <1>4, <1>5

LEMMA WorldChanges ==
  ASSUME WorldInv, NEW c \in DOMAIN calls, NEW state \in CallStates,
         calls' = [calls EXCEPT ![c].state = state], UNCHANGED <<scenario, tree, commits>>
  PROVE  WorldInv' /\ CallsKept
  <1>1. PICK any : calls \in Seq(Call(any))
    BY DEF WorldInv
  <1>2. /\ calls' \in Seq(Call(any)) /\ Len(calls') = Len(calls) /\ Len(calls) \in Nat
        /\ \A d \in 1 .. Len(calls) : SameCall(calls[d], calls'[d])
    BY <1>1, StateChanges
  <1>3. \A d \in 1 .. Len(calls) : CallIs(calls'[d], scenario)
    BY <1>2, SameCallIs DEF WorldInv
  <1>4. WorldInv'
    BY <1>2, <1>3 DEF WorldInv
  <1>5. CallsKept
    BY <1>2 DEF CallsKept
  <1> QED BY <1>4, <1>5

LEMMA WorldStays ==
  ASSUME WorldInv, UNCHANGED <<scenario, calls>>, tree' \in Trees, commits' \in Commits
  PROVE  WorldInv' /\ CallsKept
  <1>1. PICK any : calls \in Seq(Call(any))
    BY DEF WorldInv
  <1>2. Len(calls) \in Nat
    BY <1>1
  <1> QED BY <1>2, SameIsSame DEF WorldInv, CallsKept

LEMMA MadeIs ==
  ASSUME WorldInv, NEW w, NEW tool, NEW file, NEW input, NEW result
  PROVE  /\ \E any : Made(w, tool, file, input, result) \in Call(any)
         /\ LET call == Made(w, tool, file, input, result)
            IN /\ call.state = "told" /\ call.batch = Batch /\ call.tool = tool /\ call.input = input
               /\ call.result = result /\ call.done = w.done
               /\ ToldOf(call) = [tool |-> tool, file |-> file, input |-> input, result |-> result,
                                  replaced |-> IF file = NoFile THEN Absent ELSE tree[file]]
  <1> DEFINE call == Made(w, tool, file, input, result)
             replaced == IF file = NoFile THEN Absent ELSE tree[file]
             any == {tool, file, input, result, replaced, w.done, tree, HeadTree, w.tree, Len(w.commits)}
  <1>1. call \in Call(any)
    BY BatchIs DEF Made, Call, CallStates
  <1>2. call.state = "told" /\ call.batch = Batch /\ call.tool = tool /\ call.input = input
        /\ call.result = result /\ call.done = w.done /\ call.file = file /\ call.replaced = replaced
    BY DEF Made
  <1>3. ToldOf(call) = [tool |-> tool, file |-> file, input |-> input, result |-> result, replaced |-> replaced]
    <2> HIDE DEF call, replaced
    <2> QED BY <1>2 DEF ToldOf
  <1> QED BY <1>1, <1>2, <1>3

LEMMA EditIs ==
  ASSUME WorldInv, NEW edit \in scenario.edits, NEW fate \in scenario.fates, DoEdit(edit.file, edit.content, fate)
  PROVE  /\ WorldInv' /\ CallsKept
         /\ \E call : call.state = "told" /\ call.batch = Batch /\ calls' = Append(calls, call)
  <1> DEFINE f == edit.file
             content == edit.content
             w == [tree |-> IF fate = "applied" THEN [tree EXCEPT ![f] = content] ELSE tree,
                   commits |-> commits, done |-> IF fate = "applied" THEN <<"edit">> ELSE <<>>]
             call == Made(w, "write", f, content, fate)
  <1>1. tree' = w.tree /\ calls' = Append(calls, call) /\ commits' = commits /\ scenario' = scenario
    BY DEF DoEdit
  <1>2. /\ scenario \in Scenario /\ f \in File /\ content \in DOMAIN Lines /\ f # NoFile
        /\ tree \in Trees /\ fate \in {"applied", "declined", "failed"}
    BY ScenarioAssumption DEF WorldInv
  <1>3. tree' \in Trees
    BY <1>1, <1>2 DEF Trees
  <1>4. w.done = IF fate = "applied" THEN <<"edit">> ELSE <<>>
    OBVIOUS
  <1> HIDE DEF w, call, f, content
  <1>5. PICK any : call \in Call(any)
    BY MadeIs DEF call
  <1>6. /\ call.state = "told" /\ call.batch = Batch /\ call.tool = "write" /\ call.result = fate
        /\ call.done = w.done
        /\ ToldOf(call) = [tool |-> "write", file |-> f, input |-> content, result |-> fate, replaced |-> tree[f]]
    BY <1>2, MadeIs DEF call
  <1>7. CallIs(call, scenario)
    <2>1. ToldOf(call) \in CallsOf(scenario)
      <3>1. tree[f] \in DOMAIN Lines
        BY <1>2 DEF Trees
      <3>2. content \in {e.content : e \in scenario.edits}
        BY DEF content
      <3> QED BY <1>2, <1>6, <3>1, <3>2 DEF CallsOf
    <2>2. EditDone(call) = (fate = "applied")
      BY <1>4, <1>6 DEF EditDone
    <2>3. TestsDone(call) = FALSE
      <3>1. ToSet(<<"edit">>) = {"edit"} /\ ToSet(<<>>) = {}
        BY DEF ToSet
      <3> QED BY <1>4, <1>6, <3>1 DEF TestsDone
    <2> QED BY <1>6, <2>1, <2>2, <2>3 DEF CallIs
  <1>8. commits' \in Commits
    BY <1>1 DEF WorldInv
  <1>9. WorldInv' /\ CallsKept
    BY <1>1, <1>3, <1>5, <1>7, <1>8, WorldGrows
  <1> QED BY <1>1, <1>6, <1>9

LEMMA CommandIs ==
  ASSUME WorldInv, NEW command \in scenario.commands, NEW plain \in BOOLEAN, NEW pass \in Passes(command),
         DoCommand(command, pass, plain)
  PROVE  /\ WorldInv' /\ CallsKept
         /\ \E call : call.state = "told" /\ call.batch = Batch /\ calls' = Append(calls, call)
  <1> DEFINE w == Run(command, pass)
             result == IF w.ok THEN "ok" ELSE IF plain THEN "plain" ELSE "failed"
             call == Made(w, "bash", NoFile, command, result)
  <1>1. tree' = w.tree /\ commits' = w.commits /\ calls' = Append(calls, call) /\ scenario' = scenario
    BY DEF DoCommand
  <1>2. pass \in BOOLEAN
    BY DEF Passes
  <1>3. w \in Repo /\ ("tests" \in ToSet(w.done)) = (w.ok /\ HasTests(command))
    <2>1. PICK n \in 0 .. Len(command) : DOMAIN Steps[command] = 1 .. n
      BY ScenarioAssumption DEF WorldInv
    <2>2. n \in Nat
      OBVIOUS
    <2>3. Len(Steps[command]) = n
      BY <2>1, <2>2
    <2>4. /\ \A i \in 1 .. n : Steps[command][i].sub \in Subs
          /\ \A i \in 1 .. n : Steps[command][i].sub = "tests" => i + 1 \notin 1 .. n
      BY <2>1, ScenarioAssumption DEF WorldInv, Subs
    <2>5. LastTests(Steps[command])
      BY <2>3, <2>4 DEF LastTests
    <2>6. tree \in Trees /\ commits \in Commits
      BY DEF WorldInv
    <2> QED BY <1>2, <2>1, <2>2, <2>3, <2>4, <2>5, <2>6, RunEnds
  <1> HIDE DEF w
  <1>4. w.ok \in BOOLEAN /\ w.done \in Seq(Subs) /\ w.tree \in Trees /\ w.commits \in Commits
    BY <1>3 DEF Repo
  <1>5. result \in {"ok", "plain", "failed"} /\ (result = "ok") = w.ok
    BY <1>4
  <1> HIDE DEF result, call
  <1>6. PICK any : call \in Call(any)
    BY MadeIs DEF call
  <1>7. /\ call.state = "told" /\ call.batch = Batch /\ call.tool = "bash" /\ call.result = result
        /\ call.done = w.done /\ call.input = command
        /\ ToldOf(call) = [tool |-> "bash", file |-> NoFile, input |-> command, result |-> result, replaced |-> Absent]
    BY MadeIs DEF call
  <1>8. CallIs(call, scenario)
    <2>1. ToldOf(call) \in CallsOf(scenario)
      BY <1>5, <1>7 DEF CallsOf
    <2>2. EditDone(call) = FALSE
      <3>1. \A s \in Seq(Subs) : s # <<"edit">>
        <4> SUFFICES ASSUME <<"edit">> \in Seq(Subs) PROVE FALSE
          OBVIOUS
        <4>1. "edit" \in Subs
          OBVIOUS
        <4> QED BY <4>1 DEF Subs, Restoring
      <3> QED BY <1>4, <1>7, <3>1 DEF EditDone
    <2>3. TestsDone(call) = (result = "ok" /\ HasTests(command))
      BY <1>3, <1>5, <1>7 DEF TestsDone
    <2> QED BY <1>7, <2>1, <2>2, <2>3 DEF CallIs
  <1>9. WorldInv' /\ CallsKept
    BY <1>1, <1>4, <1>6, <1>8, WorldGrows
  <1> QED BY <1>1, <1>7, <1>9

LEMMA WorldStep == WorldInv /\ [Next]_vars => WorldInv' /\ CallsKept /\ unseen \subseteq unseen'
  <1> SUFFICES ASSUME WorldInv, [Next]_vars PROVE WorldInv' /\ CallsKept /\ unseen \subseteq unseen'
    OBVIOUS
  <1>0. tree \in Trees /\ commits \in Commits /\ scenario \in Scenario
    BY DEF WorldInv
  <1>1. ASSUME UNCHANGED world PROVE WorldInv' /\ CallsKept /\ unseen \subseteq unseen'
    BY <1>0, <1>1, WorldStays DEF world
  <1>2. CASE UNCHANGED vars
    BY <1>1, <1>2 DEF vars
  <1>3. ASSUME NEW edit \in scenario.edits, NEW fate \in scenario.fates, DoEdit(edit.file, edit.content, fate)
        PROVE  WorldInv' /\ CallsKept /\ unseen \subseteq unseen'
    BY <1>3, EditIs DEF DoEdit
  <1>4. ASSUME NEW command \in scenario.commands, NEW plain \in BOOLEAN, NEW pass \in Passes(command),
               DoCommand(command, pass, plain)
        PROVE  WorldInv' /\ CallsKept /\ unseen \subseteq unseen'
    <2>1. WorldInv' /\ CallsKept
      BY <1>4, CommandIs
    <2>2. unseen \subseteq unseen'
      BY <1>4 DEF DoCommand
    <2> QED BY <2>1, <2>2
  <1>5. ASSUME NEW edit \in scenario.edits, Developer(edit.file, edit.content)
        PROVE  WorldInv' /\ CallsKept /\ unseen \subseteq unseen'
    <2>1. edit.file \in File /\ edit.content \in DOMAIN Lines
      BY <1>0, ScenarioAssumption
    <2>2. tree' \in Trees
      BY <1>0, <1>5, <2>1 DEF Developer, Trees
    <2>3. HeadTree \in Trees
      <3>1. Len(commits) \in Nat /\ Len(commits) # 0 /\ commits \in Seq(Trees)
        BY <1>0 DEF Commits
      <3>2. commits[Len(commits)] \in Trees
        BY <3>1
      <3> QED BY <3>2 DEF HeadTree, Last
    <2>4. commits' \in Commits
      <3> DEFINE t == [HeadTree EXCEPT ![edit.file] = edit.content]
      <3>1. t \in Trees /\ commits' = Append(commits, t)
        BY <1>5, <2>1, <2>3 DEF Developer, Trees
      <3> HIDE DEF t
      <3>2. Append(commits, t) \in Seq(Trees) /\ Len(Append(commits, t)) = Len(commits) + 1 /\ Len(commits) \in Nat
        BY <1>0, <3>1 DEF Commits
      <3>3. Append(commits, t) # <<>>
        BY <3>2
      <3> QED BY <3>1, <3>2, <3>3 DEF Commits
    <2>5. UNCHANGED <<scenario, calls>> /\ unseen \subseteq unseen'
      BY <1>5 DEF Developer
    <2> QED BY <2>2, <2>4, <2>5, WorldStays
  <1>6. ASSUME NEW c \in DOMAIN calls, Killed(c) \/ Again(c) \/ Record(c) \/ SkipSeen(c)
        PROVE  WorldInv' /\ CallsKept /\ unseen \subseteq unseen'
    <2>1. /\ \E state \in CallStates : calls' = [calls EXCEPT ![c].state = state]
          /\ UNCHANGED <<scenario, tree, commits>> /\ unseen \subseteq unseen'
      BY <1>6 DEF Killed, Again, Record, SkipSeen, CallStates
    <2> QED BY <2>1, WorldChanges
  <1>7. CASE TrackTarget \/ TrackCommit \/ Stop
    <2>1. UNCHANGED world
      BY <1>7 DEF TrackTarget, TrackCommit, Stop
    <2> QED BY <1>1, <2>1
  <1> QED BY <1>2, <1>3, <1>4, <1>5, <1>6, <1>7 DEF Next
-----------------------------------------------------------------------------
\* Batches come one after the other: a call whose hook is still to come is of
\* the last batch, and of the turn.
OrderInv ==
    /\ \A c, d \in 1 .. Len(calls) : c <= d => calls[c].batch <= calls[d].batch
    /\ settled \in 0 .. Len(calls)
    /\ seen \subseteq 1 .. Len(calls)
    /\ \A c \in 1 .. Len(calls) :
         /\ calls[c].state = "recorded" => c \in seen
         /\ calls[c].state = "killed" => "killed" \in unseen
         /\ c \notin seen /\ calls[c].state = "told" => c > settled /\ calls[c].batch = calls[Len(calls)].batch

LEMMA OrderInit == Init => OrderInv
  <1> SUFFICES ASSUME Init PROVE OrderInv
    OBVIOUS
  <1>1. Len(calls) = 0 /\ settled = 0 /\ seen = {}
    BY DEF Init
  <1> QED BY <1>1 DEF OrderInv

LEMMA OrderGrows ==
  ASSUME WorldInv, OrderInv, NEW call, call.state = "told", call.batch = Batch, calls' = Append(calls, call),
         UNCHANGED <<seen, settled>>, unseen \subseteq unseen'
  PROVE  OrderInv'
  <1>1. PICK any : calls \in Seq(Call(any))
    BY DEF WorldInv
  <1> DEFINE n == Len(calls)
  <1>2. /\ Len(calls') = n + 1 /\ n \in Nat /\ calls'[n + 1] = call
        /\ \A d \in 1 .. n : calls'[d] = calls[d] /\ calls[d] \in Call(any)
    BY <1>1, AppendProperties
  <1>3. /\ \A d \in 1 .. n : calls[d].batch \in Nat /\ calls[d].batch <= calls[n].batch
        /\ Batch \in Nat /\ (n # 0 => calls[n].batch <= Batch)
    <2>1. \A d \in 1 .. n : calls[d].batch \in Nat
      BY <1>2 DEF Call
    <2>2. \A d \in 1 .. n : calls[d].batch <= calls[n].batch
      BY <1>2 DEF OrderInv
    <2>3. n # 0 => 1 \in 1 .. n
      BY <1>2
    <2> QED BY <2>1, <2>2, <2>3, BatchIs
  <1>4. \A c \in 1 .. n + 1 : c \in 1 .. n \/ c = n + 1
    BY <1>2
  <1>5. \A d \in 1 .. n : calls[d].state = "told" => Batch = calls[n].batch
    <2> SUFFICES ASSUME NEW d \in 1 .. n, calls[d].state = "told" PROVE Batch = calls[n].batch
      OBVIOUS
    <2>1. d \in Open
      BY <1>1 DEF Open
    <2> QED BY <2>1, BatchIs
  <1> HIDE DEF n
  <1>6. \A c, d \in 1 .. n + 1 : c <= d => calls'[c].batch <= calls'[d].batch
    <2> SUFFICES ASSUME NEW c \in 1 .. n + 1, NEW d \in 1 .. n + 1, c <= d PROVE calls'[c].batch <= calls'[d].batch
      OBVIOUS
    <2>1. CASE d \in 1 .. n
      <3>1. c \in 1 .. n
        BY <1>2, <2>1
      <3> QED BY <1>2, <2>1, <3>1 DEF OrderInv, n
    <2>2. CASE d = n + 1 /\ c \in 1 .. n
      <3>1. n # 0
        BY <1>2, <2>2
      <3>2. calls[c].batch \in Nat /\ calls[n].batch \in Nat /\ calls[c].batch <= calls[n].batch /\ calls[n].batch <= Batch
        BY <1>2, <1>3, <2>2, <3>1
      <3> QED BY <1>2, <1>3, <2>2, <3>2
    <2>3. CASE d = n + 1 /\ c = n + 1
      BY <1>2, <1>3, <2>3
    <2> QED BY <1>4, <2>1, <2>2, <2>3
  <1>7. settled \in 0 .. n + 1 /\ seen \subseteq 1 .. n + 1 /\ settled \in 0 .. n
    BY <1>2 DEF OrderInv, n
  <1>8. ASSUME NEW c \in 1 .. n + 1
        PROVE  /\ calls'[c].state = "recorded" => c \in seen'
               /\ calls'[c].state = "killed" => "killed" \in unseen'
               /\ c \notin seen' /\ calls'[c].state = "told" => c > settled' /\ calls'[c].batch = calls'[n + 1].batch
    <2>1. CASE c \in 1 .. n
      BY <1>2, <1>5, <2>1 DEF OrderInv, n
    <2>2. CASE c = n + 1
      BY <1>2, <1>7, <2>2
    <2> QED BY <1>4, <2>1, <2>2
  <1>9. Len(calls') = n + 1
    BY <1>2
  <1> QED BY <1>6, <1>7, <1>8, <1>9 DEF OrderInv

LEMMA OrderChanges ==
  ASSUME WorldInv, OrderInv, NEW c \in DOMAIN calls, NEW state \in CallStates,
         calls' = [calls EXCEPT ![c].state = state], settled' = settled,
         seen \subseteq seen', seen' \subseteq 1 .. Len(calls), unseen \subseteq unseen',
         state \in {"told", "recorded"} => c \in seen', state = "killed" => "killed" \in unseen'
  PROVE  OrderInv'
  <1>1. PICK any : calls \in Seq(Call(any))
    BY DEF WorldInv
  <1>2. /\ Len(calls') = Len(calls) /\ Len(calls) \in Nat
        /\ \A d \in 1 .. Len(calls) : /\ SameCall(calls[d], calls'[d])
                                      /\ calls'[d].state = IF d = c THEN state ELSE calls[d].state
    BY <1>1, StateChanges
  <1>3. \A d \in 1 .. Len(calls) : calls'[d].batch = calls[d].batch
    BY <1>2 DEF SameCall
  <1>4. ASSUME NEW d \in 1 .. Len(calls)
        PROVE  /\ calls'[d].state = "recorded" => d \in seen'
               /\ calls'[d].state = "killed" => "killed" \in unseen'
               /\ d \notin seen' /\ calls'[d].state = "told" =>
                    d > settled' /\ calls'[d].batch = calls'[Len(calls)].batch
    <2>1. CASE d = c
      BY <1>2, <2>1
    <2>2. CASE d # c
      <3>1. calls'[d].state = calls[d].state
        BY <1>2, <2>2
      <3>2. Len(calls) \in 1 .. Len(calls)
        BY <1>2
      <3> QED BY <1>3, <3>1, <3>2 DEF OrderInv
    <2> QED BY <2>1, <2>2
  <1> QED BY <1>2, <1>3, <1>4 DEF OrderInv

LEMMA OrderStep == WorldInv /\ OrderInv /\ [Next]_vars => OrderInv'
  <1> SUFFICES ASSUME WorldInv, OrderInv, [Next]_vars PROVE OrderInv'
    OBVIOUS
  <1>0. PICK any : calls \in Seq(Call(any))
    BY DEF WorldInv
  <1>1. unseen \subseteq unseen'
    BY WorldStep
  <1>2. ASSUME UNCHANGED <<calls, seen, settled>> PROVE OrderInv'
    BY <1>1, <1>2 DEF OrderInv
  <1>3. CASE UNCHANGED vars
    BY <1>2, <1>3 DEF vars, world, session
  <1>4. ASSUME NEW edit \in scenario.edits, NEW fate \in scenario.fates, DoEdit(edit.file, edit.content, fate)
        PROVE  OrderInv'
    <2>1. UNCHANGED <<seen, settled>>
      BY <1>4 DEF DoEdit, session
    <2> QED BY <1>1, <1>4, <2>1, EditIs, OrderGrows
  <1>5. ASSUME NEW command \in scenario.commands, NEW plain \in BOOLEAN, NEW pass \in Passes(command),
               DoCommand(command, pass, plain)
        PROVE  OrderInv'
    <2>1. UNCHANGED <<seen, settled>>
      BY <1>5 DEF DoCommand, session
    <2> QED BY <1>1, <1>5, <2>1, CommandIs, OrderGrows
  <1>6. ASSUME NEW edit \in scenario.edits, Developer(edit.file, edit.content)
        PROVE  OrderInv'
    BY <1>2, <1>6 DEF Developer, session
  <1>7. ASSUME NEW c \in DOMAIN calls, Killed(c) PROVE OrderInv'
    <2>1. /\ calls' = [calls EXCEPT ![c].state = "killed"] /\ settled' = settled
          /\ seen' = seen /\ "killed" \in unseen' /\ "killed" \in CallStates
      BY <1>7 DEF Killed, session, CallStates
    <2> QED BY <1>1, <2>1, OrderChanges DEF OrderInv
  <1>8. ASSUME NEW c \in DOMAIN calls, Again(c) PROVE OrderInv'
    <2>1. /\ calls' = [calls EXCEPT ![c].state = "told"] /\ settled' = settled
          /\ seen' = seen /\ calls[c].state = "recorded" /\ "told" \in CallStates
      BY <1>8 DEF Again, session, CallStates
    <2>2. c \in seen
      BY <1>0, <2>1 DEF OrderInv
    <2> QED BY <1>1, <2>1, <2>2, OrderChanges DEF OrderInv
  <1>9. ASSUME NEW c \in DOMAIN calls, Record(c) PROVE OrderInv'
    <2>1. /\ calls' = [calls EXCEPT ![c].state = "recorded"] /\ settled' = settled
          /\ seen' = seen \cup {c} /\ "recorded" \in CallStates
      BY <1>9 DEF Record, CallStates
    <2>2. c \in 1 .. Len(calls)
      BY <1>0
    <2> QED BY <1>1, <2>1, <2>2, OrderChanges DEF OrderInv
  <1>10. ASSUME NEW c \in DOMAIN calls, SkipSeen(c) PROVE OrderInv'
    <2>1. /\ calls' = [calls EXCEPT ![c].state = "recorded"] /\ settled' = settled
          /\ seen' = seen /\ c \in seen /\ "recorded" \in CallStates
      BY <1>10 DEF SkipSeen, session, CallStates
    <2> QED BY <1>1, <2>1, OrderChanges DEF OrderInv
  <1>11. CASE TrackTarget \/ TrackCommit
    BY <1>2, <1>11 DEF TrackTarget, TrackCommit, world
  <1>12. ASSUME Stop PROVE OrderInv'
    <2>1. UNCHANGED <<calls, seen, unseen>> /\ settled' = Len(calls) /\ Open = {}
      BY <1>12 DEF Stop, world
    <2>2. \A c \in 1 .. Len(calls) : calls[c].state # "told"
      BY <1>0, <2>1 DEF Open
    <2>3. Len(calls) \in 0 .. Len(calls)
      BY <1>0
    <2> QED BY <2>1, <2>2, <2>3 DEF OrderInv
  <1> QED BY <1>3, <1>4, <1>5, <1>6, <1>7, <1>8, <1>9, <1>10, <1>11, <1>12 DEF Next
-----------------------------------------------------------------------------
\* at[s] is the call of which step s of the turn was noted down.  Steps follow
\* the batches, and each edit and each run that passed has a step, none of
\* which is of a turn before.
Follows(at) ==
    /\ \A s \in 1 .. turn.step : at[s] > settled
    /\ \A s, t \in 1 .. turn.step : s <= t => calls[at[s]].batch <= calls[at[t]].batch
    /\ \A i \in 1 .. Len(turn.edits) : EditDone(calls[at[turn.edits[i].step]])
    /\ \A j \in 1 .. Len(turn.runs) : turn.runs[j].outcome = "passed" => TestsDone(calls[at[turn.runs[j].step]])
    /\ \A c \in seen : c > settled =>
         /\ EditDone(calls[c]) => \E i \in 1 .. Len(turn.edits) : at[turn.edits[i].step] = c
         /\ TestsDone(calls[c]) =>
              \E j \in 1 .. Len(turn.runs) : turn.runs[j].outcome = "passed" /\ at[turn.runs[j].step] = c

NotedInv ==
    /\ \E noted : turn \in TurnOf(noted)
    /\ StepsIn(turn)
    /\ \E at \in [1 .. turn.step -> seen] : Follows(at)

LEMMA NotedInit == Init => NotedInv
  <1> SUFFICES ASSUME Init PROVE NotedInv
    OBVIOUS
  <1>1. turn \in TurnOf({}) /\ turn.step = 0 /\ Len(turn.edits) = 0 /\ Len(turn.runs) = 0 /\ seen = {}
    BY DEF Init, NewTurn, TurnOf
  <1> DEFINE at == [s \in 1 .. 0 |-> s]
  <1>2. at \in [1 .. 0 -> seen]
    OBVIOUS
  <1> HIDE DEF at
  <1>3. Follows(at)
    BY <1>1 DEF Follows
  <1>4. StepsIn(turn)
    BY <1>1 DEF StepsIn
  <1> QED BY <1>1, <1>2, <1>3, <1>4 DEF NotedInv

\* A call that stays what it is.
LEMMA DoneStays ==
  ASSUME CallsKept, NEW c \in 1 .. Len(calls)
  PROVE  /\ EditDone(calls'[c]) = EditDone(calls[c]) /\ TestsDone(calls'[c]) = TestsDone(calls[c])
         /\ calls'[c].batch = calls[c].batch
  BY DEF CallsKept, SameCall, EditDone, TestsDone

\* What adds no step, no edit and no run.
LEMMA NotedStays ==
  ASSUME NotedInv, OrderInv, CallsKept, UNCHANGED <<seen, settled>>, \E noted : turn' \in TurnOf(noted),
         (turn').step = turn.step, (turn').edits = turn.edits, (turn').runs = turn.runs
  PROVE  NotedInv'
  <1>1. PICK at \in [1 .. turn.step -> seen] : Follows(at)
    BY DEF NotedInv
  <1>2. StepsIn(turn)
    BY DEF NotedInv
  <1>3. /\ \A s \in 1 .. turn.step : at[s] \in seen
        /\ seen \subseteq 1 .. Len(calls)
    BY <1>1 DEF OrderInv
  <1>4. Follows(at)'
    <2>1. \A s \in 1 .. turn.step : at[s] > settled
      BY <1>1 DEF Follows
    <2>2. \A s, t \in 1 .. turn.step : s <= t => calls'[at[s]].batch <= calls'[at[t]].batch
      BY <1>1, <1>3, DoneStays DEF Follows
    <2>3. \A i \in 1 .. Len(turn.edits) : EditDone(calls'[at[turn.edits[i].step]])
      BY <1>1, <1>2, <1>3, DoneStays DEF Follows, StepsIn
    <2>4. \A j \in 1 .. Len(turn.runs) : turn.runs[j].outcome = "passed" => TestsDone(calls'[at[turn.runs[j].step]])
      BY <1>1, <1>2, <1>3, DoneStays DEF Follows, StepsIn
    <2>5. \A c \in seen : c > settled =>
            /\ EditDone(calls'[c]) => \E i \in 1 .. Len(turn.edits) : at[turn.edits[i].step] = c
            /\ TestsDone(calls'[c]) =>
                 \E j \in 1 .. Len(turn.runs) : turn.runs[j].outcome = "passed" /\ at[turn.runs[j].step] = c
      BY <1>1, <1>3, DoneStays DEF Follows
    <2> QED BY <2>1, <2>2, <2>3, <2>4, <2>5 DEF Follows
  <1>5. StepsIn(turn')
    BY <1>2 DEF StepsIn
  <1> QED BY <1>1, <1>4, <1>5 DEF NotedInv

\* The only key that is there is the first.
LEMMA OneField ==
  ASSUME NEW fields, NEW key, NEW other, key \in DOMAIN fields, other \notin DOMAIN fields
  PROVE  First(fields, <<key, other>>) = {fields[key]}
  <1> DEFINE keys == <<key, other>>
             there == {i \in DOMAIN keys : keys[i] \in DOMAIN fields}
  <1>1. there = {1}
    OBVIOUS
  <1>2. Min({1}) = 1
    <2>1. {1} \in SUBSET Nat /\ 1 \in {1} /\ \A x \in {1} : 1 <= x
      OBVIOUS
    <2> QED BY <2>1, LeastOf
  <1>3. First(fields, keys) = IF there = {} THEN {} ELSE {fields[keys[Min(there)]]}
    BY Zenon DEF First
  <1>4. keys[1] = key
    OBVIOUS
  <1> HIDE DEF there
  <1>5. First(fields, keys) = {fields[keys[1]]}
    BY <1>1, <1>2, <1>3
  <1> QED BY <1>4, <1>5

\* What a hook reads of an edit: whether it was accepted, and the text that it
\* replaced.
LEMMA ReadsEdit ==
  ASSUME NEW s \in Scenario, NEW call \in CallsOf(s), call.tool = "write"
  PROVE  LET read == ReadCall(call)
         IN /\ read.accepted = (call.result = "applied")
            /\ read.signal.testRun = {} /\ read.commands = {}
            /\ read.signal.original \subseteq Texts
  <1> DEFINE payload == Payload(call)
             facts == Facts(payload, {Root})
             signal == LocalSignal(payload, facts, "claude", {Root})
  <1>1. call.result \in {"applied", "declined", "failed"} /\ call.replaced \in DOMAIN Lines
    BY ScenarioAssumption DEF CallsOf
  <1>2. /\ payload.tool = "write"
        /\ payload.event = IF call.result = "failed" THEN "PostToolUseFailure" ELSE "PostToolUse"
        /\ payload.error.text = <<>>
        /\ call.result = "applied" =>
             payload.response = [kind |-> "object", text |-> <<>>,
                                 object |-> [originalFile |-> Lines[call.replaced], output |-> <<>>]]
        /\ call.result = "declined" =>
             payload.response = [kind |-> "text", text |-> <<[form |-> "decline"]>>, object |-> <<>>]
        /\ call.result = "failed" => payload.response = [kind |-> "text", text |-> <<>>, object |-> <<>>]
    BY <1>1 DEF Payload, Object, Text
  <1> HIDE DEF payload
  <1>3. facts.category # "bash" /\ facts.isEdit = TRUE /\ facts.declined = LooksDeclined(payload.response)
    <2>1. ToolCategory("write") = "edit" /\ "write" \in EditTools
      BY Zenon DEF ToolCategory, EditTools
    <2> QED BY <1>2, <2>1 DEF Facts
  <1> HIDE DEF facts
  <1>4. signal.testRun = {} /\ signal.commandSucceeded = FALSE /\ signal.original = OriginalContent(payload)
    BY <1>3 DEF LocalSignal
  <1> HIDE DEF signal
  <1>5. ReadCall(call) = Take(payload, facts, signal)
    BY DEF ReadCall, payload, facts, signal
  <1>6. /\ ReadCall(call).accepted = (~Declined(payload, facts) /\ payload.event = "PostToolUse")
        /\ ReadCall(call).signal = signal /\ ReadCall(call).commands = {}
    BY <1>3, <1>4, <1>5 DEF Take
  <1>7. Declines(<<>>) = FALSE /\ Declines(<<[form |-> "decline"]>>) = TRUE
    <2>1. ScanLimit >= 1
      BY ScanAssumption
    <2> QED BY <2>1 DEF Declines
  <1>8. LooksDeclined(payload.response) = (call.result = "declined")
    BY <1>1, <1>2, <1>7 DEF LooksDeclined, Output
  <1>9. ReadCall(call).accepted = (call.result = "applied")
    BY <1>1, <1>2, <1>3, <1>6, <1>7, <1>8 DEF Declined
  <1>10. OriginalContent(payload) \subseteq Texts
    <2>1. CASE call.result = "applied"
      <3> DEFINE fields == [originalFile |-> Lines[call.replaced], output |-> <<>>]
                 keys == <<"originalFile", "original_file">>
      <3>1. payload.response.kind = "object" /\ payload.response.object = fields
        BY <1>2, <2>1
      <3>2. First(fields, keys) \subseteq {Lines[call.replaced]}
        <4>1. "originalFile" \in DOMAIN fields /\ "original_file" \notin DOMAIN fields
              /\ fields["originalFile"] = Lines[call.replaced]
          OBVIOUS
        <4> HIDE DEF fields
        <4> QED BY <4>1, OneField
      <3> QED BY <1>1, <3>1, <3>2 DEF OriginalContent, Texts
    <2>2. CASE call.result # "applied"
      <3>1. payload.response.kind # "object"
        BY <1>1, <1>2, <2>2
      <3> QED BY <3>1 DEF OriginalContent
    <2> QED BY <2>1, <2>2
  <1> QED BY <1>4, <1>6, <1>9, <1>10

\* What a hook reads of a command: a run that passed if there was one, and the
\* command itself if it succeeded.
LEMMA ReadsCommand ==
  ASSUME NEW s \in Scenario, NEW call \in CallsOf(s), call.tool = "bash"
  PROVE  LET read == ReadCall(call)
         IN /\ read.accepted = FALSE
            /\ \A run \in read.signal.testRun : read.signal.testRun = {run}
            /\ (\E run \in read.signal.testRun : run.outcome = "passed") = (call.result = "ok" /\ HasTests(call.input))
            /\ \A r \in read.commands : read.commands = {r}
  <1> DEFINE payload == Payload(call)
             facts == Facts(payload, {Root})
             signal == LocalSignal(payload, facts, "claude", {Root})
             command == call.input
  <1>1. call.result \in {"ok", "plain", "failed"} /\ command \in s.commands
    BY DEF CallsOf
  <1>2. /\ payload.tool = "bash"
        /\ payload.event = IF call.result = "failed" THEN "PostToolUseFailure" ELSE "PostToolUse"
        /\ payload.error.text = <<>> /\ payload.error.code = {1} /\ payload.interrupt = FALSE
        /\ payload.input = [command |-> command]
        /\ call.result = "ok" =>
             payload.response = [kind |-> "object", text |-> <<>>, object |-> [stdout |-> TRUE, output |-> <<>>]]
        /\ call.result # "ok" => payload.response = [kind |-> "text", text |-> <<>>, object |-> <<>>]
    BY <1>1 DEF Payload, Object, Text
  <1> HIDE DEF payload
  <1>3. facts.category = "bash" /\ facts.isEdit = FALSE
    <2>1. "bash" \notin EditTools
      BY DEF EditTools
    <2>2. ToolCategory("bash") = "bash"
      BY <2>1, Zenon DEF ToolCategory
    <2>3. facts.category = ToolCategory(payload.tool) /\ facts.isEdit = (payload.tool \in EditTools)
      BY DEF Facts
    <2>4. (payload.tool \in EditTools) = FALSE
      BY <1>2, <2>1
    <2> HIDE DEF facts
    <2>5. facts.isEdit = FALSE
      BY <2>3, <2>4
    <2>6. ToolCategory(payload.tool) = "bash"
      BY <1>2, <2>2
    <2> QED BY <2>3, <2>5, <2>6
  <1> HIDE DEF facts
  <1>4. CommandIn(payload.input) = {command}
    <2> DEFINE fields == [command |-> command]
    <2>1. "command" \in DOMAIN fields /\ "cmd" \notin DOMAIN fields /\ fields["command"] = command
      OBVIOUS
    <2>2. payload.input = fields
      BY <1>2
    <2> HIDE DEF fields
    <2> QED BY <2>1, <2>2, OneField DEF CommandIn
  <1>5. signal.testRun = TestRunOf(payload, "claude") /\ signal.command = {command}
    BY <1>3, <1>4 DEF LocalSignal
  <1>6. ReadCall(call) = Take(payload, facts, signal)
    BY DEF ReadCall, payload, facts, signal
  <1> HIDE DEF signal
  <1>7. /\ ReadCall(call).accepted = FALSE /\ ReadCall(call).signal = signal
        /\ \A r \in ReadCall(call).commands : ReadCall(call).commands = {r}
    <2>1. ReadCall(call).accepted = FALSE /\ ReadCall(call).signal = signal
      <3>1. /\ Take(payload, facts, signal).signal = signal
            /\ Take(payload, facts, signal).accepted
                 = (facts.isEdit /\ ~Declined(payload, facts) /\ payload.event = "PostToolUse")
        BY DEF Take
      <3> QED BY <1>3, <1>6, <3>1
    <2>2. \A r \in ReadCall(call).commands : ReadCall(call).commands = {r}
      <3> DEFINE one == [todo |-> RevertTargets(command), commit |-> IsGitCommit(command)]
                 taken == {[todo |-> RevertTargets(c), commit |-> IsGitCommit(c)] : c \in signal.command}
      <3>1. taken = {one}
        BY <1>5
      <3>2. ReadCall(call).commands = IF signal.commandSucceeded THEN taken ELSE {}
        BY <1>6 DEF Take
      <3> HIDE DEF taken, one
      <3>3. ReadCall(call).commands \in {{one}, {}}
        BY <3>1, <3>2
      <3> QED BY <3>3
    <2> QED BY <2>1, <2>2
  <1> DEFINE result == BashResult(payload, "claude")
  <1>8. /\ result.background = FALSE /\ result.interrupted = FALSE /\ result.output = <<>>
        /\ result.exit = IF call.result = "ok" THEN {0} ELSE IF call.result = "failed" THEN {1} ELSE {}
    <2>1. CASE call.result = "failed"
      BY <1>2, <2>1, Zenon DEF BashResult, FailureResult
    <2>2. CASE call.result = "plain"
      <3>1. payload.event # "PostToolUseFailure" /\ payload.response.kind = "text" /\ payload.response.text = <<>>
        BY <1>2, <2>2
      <3>2. result = [NoResult EXCEPT !.output = payload.response.text]
        BY <3>1, Zenon DEF BashResult
      <3> HIDE DEF result
      <3> QED BY <2>2, <3>1, <3>2 DEF NoResult
    <2>3. CASE call.result = "ok"
      <3> DEFINE fields == [stdout |-> TRUE, output |-> <<>>]
      <3>1. payload.event # "PostToolUseFailure" /\ payload.response.kind = "object" /\ payload.response.object = fields
        <4>1. payload.event = "PostToolUse" /\ payload.response = [kind |-> "object", text |-> <<>>, object |-> fields]
          BY <1>2, <2>3
        <4> HIDE DEF fields
        <4> QED BY <4>1
      <3>2. ASSUME NEW keys, \A i \in DOMAIN keys : keys[i] \notin DOMAIN fields PROVE First(fields, keys) = {}
        <4>1. {i \in DOMAIN keys : keys[i] \in DOMAIN fields} = {}
          BY <3>2
        <4> QED BY <4>1 DEF First
      <3>3. "stdout" \in DOMAIN fields /\ fields.output = <<>>
        OBVIOUS
      <3>4. /\ First(fields, <<"exit_code", "exitCode", "returnCode", "return_code", "code">>) = {}
            /\ First(fields, <<"interrupted">>) = {}
            /\ First(fields, <<"backgroundTaskId", "background_task_id", "backgroundTaskID">>) = {}
        <4>1. DOMAIN fields = {"stdout", "output"}
          OBVIOUS
        <4> HIDE DEF fields
        <4>2. \A i \in DOMAIN <<"exit_code", "exitCode", "returnCode", "return_code", "code">> :
                <<"exit_code", "exitCode", "returnCode", "return_code", "code">>[i] \notin DOMAIN fields
          BY <4>1
        <4>3. \A i \in DOMAIN <<"interrupted">> : <<"interrupted">>[i] \notin DOMAIN fields
          BY <4>1
        <4>4. \A i \in DOMAIN <<"backgroundTaskId", "background_task_id", "backgroundTaskID">> :
                <<"backgroundTaskId", "background_task_id", "backgroundTaskID">>[i] \notin DOMAIN fields
          BY <4>1
        <4> QED BY <3>2, <4>2, <4>3, <4>4
      <3> HIDE DEF fields
      <3>5. result = [exit |-> {0}, interrupted |-> FALSE, background |-> FALSE, output |-> <<>>]
        <4> HIDE DEF fields
        <4>1. /\ (TRUE \in First(payload.response.object, <<"interrupted">>)) = FALSE
              /\ (First(payload.response.object, <<"backgroundTaskId", "background_task_id", "backgroundTaskID">>) # {}) = FALSE
              /\ First(payload.response.object, <<"exit_code", "exitCode", "returnCode", "return_code", "code">>) = {}
              /\ "stdout" \in DOMAIN payload.response.object /\ payload.response.object.output = <<>>
          <5>1. payload.response.object = fields
            BY <3>1
          <5>2. (TRUE \in First(fields, <<"interrupted">>)) = FALSE
            <6>1. \A x : (x \in {}) = FALSE
              OBVIOUS
            <6>2. (TRUE \in {}) = FALSE
              BY <6>1
            <6> QED BY <3>4, <6>2, Zenon
          <5>3. (First(fields, <<"backgroundTaskId", "background_task_id", "backgroundTaskID">>) # {}) = FALSE
            BY <3>4
          <5> QED BY <3>3, <3>4, <5>1, <5>2, <5>3
        <4> QED BY <3>1, <4>1, Zenon DEF BashResult
      <3> HIDE DEF result
      <3> QED BY <2>3, <3>5
    <2> QED BY <1>1, <2>1, <2>2, <2>3
  <1> HIDE DEF result
  <1> DEFINE invocation == Detect(command)
             outcome == Outcome(result.exit, invocation.trust, {}, FALSE)
  <1>9. /\ \A run \in TestRunOf(payload, "claude") : TestRunOf(payload, "claude") = {run} /\ run.outcome = outcome
        /\ TestRunOf(payload, "claude") = {} <=> invocation = NotATest
    <2>1. TestRunOf(payload, "claude") = RunFrom(result, command, invocation, ParseSummary(invocation.runner, result.output))
      BY <1>2 DEF TestRunOf, result
    <2>2. ParseSummary(invocation.runner, result.output) = {}
      BY <1>8, Zenon DEF ParseSummary
    <2>3. TestRunOf(payload, "claude") = RunFrom(result, command, invocation, {})
      BY <2>1, <2>2
    <2>4. {c.counts : c \in {}} = {}
      OBVIOUS
    <2> HIDE DEF invocation
    <2>5. invocation = NotATest => RunFrom(result, command, invocation, {}) = {}
      BY DEF RunFrom
    <2>6. invocation # NotATest =>
            \E run : run.outcome = outcome /\ RunFrom(result, command, invocation, {}) = {run}
      <3> DEFINE runner == IF {} # {} THEN (CHOOSE c \in {} : TRUE).runner
                           ELSE IF invocation.runner = "unnamed" THEN "other" ELSE invocation.runner
                 run == [outcome |-> Outcome(result.exit, invocation.trust, {c.counts : c \in {}}, result.interrupted),
                         runner |-> runner, trust |-> invocation.trust, counts |-> {c.counts : c \in {}},
                         key |-> CommandKey(command)]
      <3>1. invocation # NotATest => RunFrom(result, command, invocation, {}) = {run}
        BY <1>8, Zenon DEF RunFrom
      <3>2. run.outcome = outcome
        <4>1. run.outcome = Outcome(result.exit, invocation.trust, {c.counts : c \in {}}, result.interrupted)
          OBVIOUS
        <4> QED BY <1>8, <2>4, <4>1
      <3> HIDE DEF run
      <3> QED BY <3>1, <3>2
    <2> HIDE DEF outcome
    <2> QED BY <2>3, <2>5, <2>6
  <1>10. outcome = "passed" <=> call.result = "ok" /\ invocation.trust \in {"full", "zeroOnly"}
    <2> HIDE DEF invocation
    <2>1. outcome = IF 0 \in result.exit /\ invocation.trust \in {"full", "zeroOnly"} THEN "passed"
                    ELSE IF result.exit # {} /\ invocation.trust = "full" THEN "error" ELSE "unknown"
      BY Zenon DEF Outcome
    <2>2. 0 \in result.exit <=> call.result = "ok"
      BY <1>8
    <2> HIDE DEF outcome
    <2> QED BY <2>1, <2>2
  <1>11. HasTests(command) <=> invocation.trust \in {"full", "zeroOnly"}
    <2>1. invocation.trust \in IF HasTests(command) THEN {"full", "zeroOnly"} ELSE {None}
      BY <1>1, DetectAssumption
    <2>2. HasTests(command) \in BOOLEAN
      BY DEF HasTests
    <2> HIDE DEF invocation
    <2> QED BY <2>1, <2>2 DEF None
  <1>12. invocation = NotATest => invocation.trust \notin {"full", "zeroOnly"}
    BY DEF NotATest, None
  <1> HIDE DEF invocation, outcome
  <1>13. (\E run \in TestRunOf(payload, "claude") : run.outcome = "passed") = (call.result = "ok" /\ HasTests(command))
    BY <1>9, <1>10, <1>11, <1>12
  <1> QED BY <1>5, <1>7, <1>9, <1>13

\* What a hook reads of its call is what the call did.
LEMMA ReadOfCall ==
  ASSUME WorldInv, NEW c \in 1 .. Len(calls)
  PROVE  LET read == Reads[ToldOf(calls[c])]
         IN /\ read.accepted = EditDone(calls[c])
            /\ \A run \in read.signal.testRun : read.signal.testRun = {run}
            /\ (\E run \in read.signal.testRun : run.outcome = "passed") = TestsDone(calls[c])
            /\ \A r \in read.commands : read.commands = {r}
            /\ read.accepted => read.signal.original \subseteq Texts
  <1> DEFINE told == ToldOf(calls[c])
             read == ReadCall(told)
  <1>1. /\ told \in CallsOf(scenario) /\ scenario \in Scenario
        /\ EditDone(calls[c]) = (calls[c].tool = "write" /\ calls[c].result = "applied")
        /\ TestsDone(calls[c]) = (calls[c].tool = "bash" /\ calls[c].result = "ok" /\ HasTests(calls[c].input))
    BY DEF WorldInv, CallIs
  <1>2. told.tool = calls[c].tool /\ told.result = calls[c].result /\ told.input = calls[c].input
    BY DEF ToldOf
  <1> HIDE DEF told
  <1>3. Reads[told] = read
    BY <1>1 DEF Reads
  <1>4. told.tool \in {"write", "bash"}
    BY <1>1 DEF CallsOf
  <1> HIDE DEF read
  <1>5. CASE told.tool = "write"
    <2>1. /\ read.accepted = (told.result = "applied") /\ read.signal.testRun = {} /\ read.commands = {}
          /\ read.signal.original \subseteq Texts
      BY <1>1, <1>5, ReadsEdit DEF read
    <2>2. EditDone(calls[c]) = (told.result = "applied") /\ TestsDone(calls[c]) = FALSE
      BY <1>1, <1>2, <1>5
    <2> QED BY <1>3, <2>1, <2>2 DEF told
  <1>6. CASE told.tool = "bash"
    <2>1. /\ read.accepted = FALSE
          /\ \A run \in read.signal.testRun : read.signal.testRun = {run}
          /\ (\E run \in read.signal.testRun : run.outcome = "passed") = (told.result = "ok" /\ HasTests(told.input))
          /\ \A r \in read.commands : read.commands = {r}
      BY <1>1, <1>6, ReadsCommand DEF read
    <2>2. EditDone(calls[c]) = FALSE /\ TestsDone(calls[c]) = (told.result = "ok" /\ HasTests(told.input))
      BY <1>1, <1>2, <1>6
    <2> QED BY <1>3, <2>1, <2>2 DEF told
  <1> QED BY <1>4, <1>5, <1>6

\* What a hook notes down of a call that was not seen before.
LEMMA RecordNotes ==
  ASSUME WorldInv, OrderInv, NotedInv, NEW c \in DOMAIN calls, Record(c)
  PROVE  /\ c \in 1 .. Len(calls) /\ c \notin seen /\ seen' = seen \cup {c} /\ settled' = settled
         /\ c > settled /\ \A d \in seen : calls[d].batch <= calls[c].batch
         /\ \E noted : turn' \in TurnOf(noted)
         /\ (turn').step >= turn.step
         /\ IF EditDone(calls[c]) THEN AddsEdit(turn, turn') ELSE (turn').edits = turn.edits
         /\ \/ ~TestsDone(calls[c]) /\ (turn').runs = turn.runs
            \/ \E outcome : (outcome = "passed") = TestsDone(calls[c]) /\ AddsRun(turn, turn', outcome)
  <1>0. PICK any : calls \in Seq(Call(any))
    BY DEF WorldInv
  <1>1. /\ c \in 1 .. Len(calls) /\ c \notin seen /\ seen' = seen \cup {c} /\ settled' = settled
        /\ calls[c].state = "told"
    BY <1>0 DEF Record, Open
  <1>2. c > settled /\ \A d \in seen : calls[d].batch <= calls[c].batch
    <2>1. c > settled /\ calls[c].batch = calls[Len(calls)].batch
      BY <1>1 DEF OrderInv
    <2>2. Len(calls) \in 1 .. Len(calls)
      BY <1>0, <1>1
    <2>3. \A d \in 1 .. Len(calls) : calls[d].batch <= calls[Len(calls)].batch
      BY <2>2 DEF OrderInv
    <2> QED BY <2>1, <2>3 DEF OrderInv
  <1> DEFINE read == Reads[ToldOf(calls[c])]
  <1>3. /\ read.accepted = EditDone(calls[c])
        /\ \A run \in read.signal.testRun : read.signal.testRun = {run}
        /\ (\E run \in read.signal.testRun : run.outcome = "passed") = TestsDone(calls[c])
    BY <1>1, ReadOfCall
  <1>4. Write(c, read)
    BY DEF Record, ToldOf
  <1> HIDE DEF read
  <1>5. PICK back : turn' = Noted(read.signal, read.facts, read.accepted, read.declined, back)
    BY <1>4 DEF Write
  <1>6. PICK noted : turn \in TurnOf(noted)
    BY DEF NotedInv
  <1> DEFINE o == (CHOOSE run \in read.signal.testRun : TRUE).outcome
  <1>7. /\ \E more : turn' \in TurnOf(more)
        /\ (turn').step >= turn.step
        /\ IF read.accepted THEN AddsEdit(turn, turn') ELSE (turn').edits = turn.edits
        /\ IF read.signal.testRun = {} THEN (turn').runs = turn.runs ELSE AddsRun(turn, turn', o)
    <2> DEFINE after == Noted(read.signal, read.facts, read.accepted, read.declined, back)
    <2>1. /\ \E more : after \in TurnOf(more)
          /\ after.step >= turn.step
          /\ IF read.accepted THEN AddsEdit(turn, after) ELSE after.edits = turn.edits
          /\ IF read.signal.testRun = {} THEN after.runs = turn.runs ELSE AddsRun(turn, after, o)
      BY <1>6, NotedSteps
    <2> QED BY <1>5, <2>1
  <1>8. \/ ~TestsDone(calls[c]) /\ (turn').runs = turn.runs
        \/ \E outcome : (outcome = "passed") = TestsDone(calls[c]) /\ AddsRun(turn, turn', outcome)
    <2>1. CASE read.signal.testRun = {}
      BY <1>3, <1>7, <2>1
    <2>2. CASE read.signal.testRun # {}
      <3>1. PICK run : read.signal.testRun = {run}
        BY <1>3, <2>2
      <3>2. o = run.outcome
        BY <3>1
      <3>3. (run.outcome = "passed") = TestsDone(calls[c])
        BY <1>3, <3>1
      <3> HIDE DEF o
      <3> QED BY <1>7, <2>2, <3>2, <3>3
    <2> QED BY <2>1, <2>2
  <1> HIDE DEF o
  <1>9. IF EditDone(calls[c]) THEN AddsEdit(turn, turn') ELSE (turn').edits = turn.edits
    BY <1>3, <1>7
  <1> QED BY <1>1, <1>2, <1>7, <1>8, <1>9

\* One more of any kind at the end of a list.
LEMMA OneMoreEntry ==
  ASSUME NEW S, NEW s \in Seq(S), NEW e
  PROVE  /\ Len(s) \in Nat /\ Len(Append(s, e)) = Len(s) + 1 /\ Append(s, e)[Len(s) + 1] = e
         /\ \A i \in 1 .. Len(s) : Append(s, e)[i] = s[i]
         /\ \A i \in 1 .. Len(s) + 1 : i \in 1 .. Len(s) \/ i = Len(s) + 1
  <1> DEFINE more == S \cup {e}
  <1>1. s \in Seq(more) /\ e \in more
    OBVIOUS
  <1> HIDE DEF more
  <1>2. /\ Len(Append(s, e)) = Len(s) + 1 /\ Append(s, e)[Len(s) + 1] = e
        /\ \A i \in 1 .. Len(s) : Append(s, e)[i] = s[i]
    BY <1>1, AppendProperties
  <1>3. Len(s) \in Nat
    OBVIOUS
  <1> QED BY <1>2, <1>3

LEMMA NotedGrows ==
  ASSUME WorldInv, OrderInv, NotedInv, CallsKept, NEW c \in DOMAIN calls, Record(c)
  PROVE  NotedInv'
  <1>1. PICK at \in [1 .. turn.step -> seen] : Follows(at)
    BY DEF NotedInv
  <1>2. /\ c \in 1 .. Len(calls) /\ c \notin seen /\ seen' = seen \cup {c} /\ settled' = settled
        /\ c > settled /\ \A d \in seen : calls[d].batch <= calls[c].batch
        /\ \E noted : turn' \in TurnOf(noted)
        /\ (turn').step >= turn.step
    BY RecordNotes
  <1>3. IF EditDone(calls[c]) THEN AddsEdit(turn, turn') ELSE (turn').edits = turn.edits
    BY RecordNotes
  <1>4. \/ ~TestsDone(calls[c]) /\ (turn').runs = turn.runs
        \/ \E outcome : (outcome = "passed") = TestsDone(calls[c]) /\ AddsRun(turn, turn', outcome)
    BY RecordNotes
  <1>5. PICK n \in Nat, m \in Nat : turn.step = n /\ (turn').step = m /\ n <= m
    BY <1>2 DEF NotedInv, TurnOf
  <1>6. PICK noted : turn.edits \in Seq(noted) /\ turn.runs \in Seq(noted)
    BY DEF NotedInv, TurnOf
  <1> DEFINE new == n + 1 .. m
             edits == (turn').edits
             runs == (turn').runs
             Old(s) == s \in 1 .. n
             then == [s \in 1 .. m |-> IF Old(s) THEN at[s] ELSE c]
  <1>7. /\ \A i \in 1 .. Len(edits) : \/ i \in 1 .. Len(turn.edits) /\ edits[i] = turn.edits[i]
                                      \/ edits[i].step \in new /\ EditDone(calls[c])
        /\ \A i \in 1 .. Len(turn.edits) : i \in 1 .. Len(edits) /\ edits[i] = turn.edits[i]
        /\ EditDone(calls[c]) => \E i \in 1 .. Len(edits) : edits[i].step \in new
    <2>1. CASE EditDone(calls[c])
      <3>1. PICK e : e.step \in new /\ edits = Append(turn.edits, e)
        BY <1>3, <1>5, <2>1 DEF AddsEdit, Step
      <3> HIDE DEF edits, new
      <3>2. /\ Len(turn.edits) \in Nat /\ Len(edits) = Len(turn.edits) + 1 /\ edits[Len(turn.edits) + 1] = e
            /\ \A i \in 1 .. Len(turn.edits) : edits[i] = turn.edits[i]
            /\ \A i \in 1 .. Len(turn.edits) + 1 : i \in 1 .. Len(turn.edits) \/ i = Len(turn.edits) + 1
        BY <1>6, <3>1, OneMoreEntry
      <3> QED BY <2>1, <3>1, <3>2
    <2>2. CASE ~EditDone(calls[c])
      BY <1>3, <2>2
    <2> QED BY <2>1, <2>2
  <1>8. /\ \A j \in 1 .. Len(runs) : \/ j \in 1 .. Len(turn.runs) /\ runs[j] = turn.runs[j]
                                     \/ runs[j].step \in new /\ (runs[j].outcome = "passed" => TestsDone(calls[c]))
        /\ \A j \in 1 .. Len(turn.runs) : j \in 1 .. Len(runs) /\ runs[j] = turn.runs[j]
        /\ TestsDone(calls[c]) => \E j \in 1 .. Len(runs) : runs[j].step \in new /\ runs[j].outcome = "passed"
    <2>1. CASE ~TestsDone(calls[c]) /\ (turn').runs = turn.runs
      BY <2>1
    <2>2. ASSUME NEW outcome, (outcome = "passed") = TestsDone(calls[c]), AddsRun(turn, turn', outcome)
          PROVE  /\ \A j \in 1 .. Len(runs) :
                      \/ j \in 1 .. Len(turn.runs) /\ runs[j] = turn.runs[j]
                      \/ runs[j].step \in new /\ (runs[j].outcome = "passed" => TestsDone(calls[c]))
                 /\ \A j \in 1 .. Len(turn.runs) : j \in 1 .. Len(runs) /\ runs[j] = turn.runs[j]
                 /\ TestsDone(calls[c]) => \E j \in 1 .. Len(runs) : runs[j].step \in new /\ runs[j].outcome = "passed"
      <3>1. PICK r : r.step \in new /\ r.outcome = outcome /\ runs = Append(turn.runs, r)
        BY <1>5, <2>2 DEF AddsRun, Step
      <3> HIDE DEF runs, new
      <3>2. /\ Len(turn.runs) \in Nat /\ Len(runs) = Len(turn.runs) + 1 /\ runs[Len(turn.runs) + 1] = r
            /\ \A j \in 1 .. Len(turn.runs) : runs[j] = turn.runs[j]
            /\ \A j \in 1 .. Len(turn.runs) + 1 : j \in 1 .. Len(turn.runs) \/ j = Len(turn.runs) + 1
        BY <1>6, <3>1, OneMoreEntry
      <3>3. runs[Len(turn.runs) + 1].step \in new /\ (runs[Len(turn.runs) + 1].outcome = "passed") = TestsDone(calls[c])
        BY <2>2, <3>1, <3>2
      <3>4. Len(turn.runs) + 1 \in 1 .. Len(runs)
        BY <3>2
      <3>5. TestsDone(calls[c]) => \E j \in 1 .. Len(runs) : runs[j].step \in new /\ runs[j].outcome = "passed"
        BY <3>3, <3>4
      <3>6. \A j \in 1 .. Len(runs) : \/ j \in 1 .. Len(turn.runs) /\ runs[j] = turn.runs[j]
                                      \/ runs[j].step \in new /\ (runs[j].outcome = "passed" => TestsDone(calls[c]))
        BY <3>2, <3>3
      <3>7. \A j \in 1 .. Len(turn.runs) : j \in 1 .. Len(runs) /\ runs[j] = turn.runs[j]
        BY <3>2
      <3> QED BY <3>5, <3>6, <3>7
    <2> QED BY <1>4, <2>1, <2>2
  <1> HIDE DEF edits, runs
  <1>9. /\ \A s \in 1 .. n : then[s] = at[s] /\ at[s] \in seen /\ s \in 1 .. m
        /\ \A s \in new : then[s] = c /\ s \in 1 .. m
        /\ \A s \in 1 .. m : s \in 1 .. n \/ s \in new
    BY <1>1, <1>5
  <1>10. then \in [1 .. m -> seen']
    <2>1. \A s \in 1 .. m : then[s] \in seen'
      BY <1>2, <1>9
    <2> QED BY <2>1
  <1>11. \A s, t : s \in 1 .. n /\ t \in new => s <= t
    BY <1>5
  <1>12. \A s, t : s \in new /\ t \in 1 .. n => ~(s <= t)
    BY <1>5
  <1> HIDE DEF then, new
  <1>13. \A s \in 1 .. m : then[s] \in seen' /\ then[s] \in 1 .. Len(calls)
    BY <1>2, <1>10 DEF OrderInv
  <1>14. /\ \A i \in 1 .. Len(turn.edits) : turn.edits[i].step \in 1 .. n /\ EditDone(calls[at[turn.edits[i].step]])
         /\ \A j \in 1 .. Len(turn.runs) :
              turn.runs[j].step \in 1 .. n /\ (turn.runs[j].outcome = "passed" => TestsDone(calls[at[turn.runs[j].step]]))
    BY <1>1, <1>5 DEF NotedInv, StepsIn, Follows
  <1>15. \A i \in 1 .. Len(edits) : edits[i].step \in 1 .. m /\ EditDone(calls[then[edits[i].step]])
    BY <1>7, <1>9, <1>14
  <1>16. \A j \in 1 .. Len(runs) :
           runs[j].step \in 1 .. m /\ (runs[j].outcome = "passed" => TestsDone(calls[then[runs[j].step]]))
    BY <1>8, <1>9, <1>14
  <1>17. Follows(then)'
    <2>1. \A s \in 1 .. m : then[s] > settled
      BY <1>1, <1>2, <1>5, <1>9 DEF Follows
    <2>2. \A s, t \in 1 .. m : s <= t => calls'[then[s]].batch <= calls'[then[t]].batch
      <3>1. ASSUME NEW s \in 1 .. m, NEW t \in 1 .. m, s <= t PROVE calls[then[s]].batch <= calls[then[t]].batch
        <4>1. CASE s \in 1 .. n /\ t \in 1 .. n
          BY <1>1, <1>5, <1>9, <3>1, <4>1 DEF Follows
        <4>2. CASE s \in 1 .. n /\ t \in new
          BY <1>2, <1>9, <4>2
        <4>3. CASE s \in new /\ t \in new
          <5>1. then[s] = c /\ then[t] = c
            BY <1>9, <4>3
          <5>2. calls[c].batch \in Nat
            <6>1. PICK any : calls \in Seq(Call(any))
              BY DEF WorldInv
            <6>2. calls[c] \in Call(any)
              BY <1>2, <6>1
            <6> QED BY <6>2 DEF Call
          <5> QED BY <5>1, <5>2
        <4> QED BY <1>9, <1>12, <3>1, <4>1, <4>2, <4>3
      <3> QED BY <1>13, <3>1, DoneStays
    <2>3. \A i \in 1 .. Len(edits) : EditDone(calls'[then[edits[i].step]])
      BY <1>13, <1>15, DoneStays
    <2>4. \A j \in 1 .. Len(runs) : runs[j].outcome = "passed" => TestsDone(calls'[then[runs[j].step]])
      BY <1>13, <1>16, DoneStays
    <2>5. ASSUME NEW d \in seen', d > settled
          PROVE  /\ EditDone(calls'[d]) => \E i \in 1 .. Len(edits) : then[edits[i].step] = d
                 /\ TestsDone(calls'[d]) => \E j \in 1 .. Len(runs) : runs[j].outcome = "passed" /\ then[runs[j].step] = d
      <3>1. d \in 1 .. Len(calls) /\ EditDone(calls'[d]) = EditDone(calls[d]) /\ TestsDone(calls'[d]) = TestsDone(calls[d])
        BY <1>2, DoneStays DEF OrderInv
      <3>2. CASE d \in seen
        <4>1. /\ EditDone(calls[d]) => \E i \in 1 .. Len(turn.edits) : at[turn.edits[i].step] = d
              /\ TestsDone(calls[d]) =>
                   \E j \in 1 .. Len(turn.runs) : turn.runs[j].outcome = "passed" /\ at[turn.runs[j].step] = d
          BY <1>1, <2>5, <3>2 DEF Follows
        <4>2. ASSUME EditDone(calls[d]) PROVE \E i \in 1 .. Len(edits) : then[edits[i].step] = d
          <5>1. PICK i \in 1 .. Len(turn.edits) : at[turn.edits[i].step] = d
            BY <4>1, <4>2
          <5> QED BY <1>7, <1>9, <1>14, <5>1
        <4>3. ASSUME TestsDone(calls[d])
              PROVE  \E j \in 1 .. Len(runs) : runs[j].outcome = "passed" /\ then[runs[j].step] = d
          <5>1. PICK j \in 1 .. Len(turn.runs) : turn.runs[j].outcome = "passed" /\ at[turn.runs[j].step] = d
            BY <4>1, <4>3
          <5> QED BY <1>8, <1>9, <1>14, <5>1
        <4> QED BY <3>1, <4>2, <4>3
      <3>3. CASE d = c
        BY <1>7, <1>8, <1>9, <3>1, <3>3
      <3> QED BY <1>2, <3>2, <3>3
    <2> QED BY <1>2, <1>5, <2>1, <2>2, <2>3, <2>4, <2>5 DEF Follows, edits, runs
  <1>18. StepsIn(turn')
    BY <1>5, <1>15, <1>16 DEF StepsIn, edits, runs
  <1> QED BY <1>2, <1>5, <1>10, <1>17, <1>18 DEF NotedInv
-----------------------------------------------------------------------------
\* What EndedGreenAsHappened says of the event of a turn of these calls.
AsHappened(cs, event) ==
    LET edits == {c \in cs : EditDone(calls[c])}
        greens == {c \in cs : TestsDone(calls[c])}
        After(c, d) == calls[c].batch > calls[d].batch
    IN "killed" \in unseen
       \/ /\ event.endedGreen => \E g \in greens : \A e \in edits : ~After(e, g)
          /\ (\E g \in greens : \A e \in edits : After(g, e)) => event.endedGreen

VerdictInv ==
    \A v \in verdict : v.calls \subseteq 1 .. Len(calls) /\ \A event \in v.verification : AsHappened(v.calls, event)

LEMMA TurnJudged ==
  ASSUME WorldInv, OrderInv, NotedInv, Open = {}, NEW event \in TurnVerification(turn)
  PROVE  AsHappened(settled + 1 .. Len(calls), event)
  <1> DEFINE cs == settled + 1 .. Len(calls)
             edits == {c \in cs : EditDone(calls[c])}
             greens == {c \in cs : TestsDone(calls[c])}
  <1>0. PICK any : calls \in Seq(Call(any))
    BY DEF WorldInv
  <1>1. PICK at \in [1 .. turn.step -> seen] : Follows(at)
    BY DEF NotedInv
  <1>2. StepsIn(turn) /\ turn.step \in Nat /\ settled \in Nat /\ Len(calls) \in Nat
    BY <1>0 DEF NotedInv, TurnOf, OrderInv
  <1>3. event.endedGreen = GreenAfterAll(turn)
    BY <1>2, GreenByStep DEF NotedInv
  <1>4. \A c \in 1 .. Len(calls) : calls[c].batch \in Nat /\ calls[c].state \in CallStates /\ calls[c].state # "told"
    <2>1. \A c \in 1 .. Len(calls) : calls[c] \in Call(any)
      BY <1>0
    <2>2. \A c \in 1 .. Len(calls) : c \notin Open
      OBVIOUS
    <2>3. \A c \in 1 .. Len(calls) : calls[c].batch \in Nat /\ calls[c].state \in CallStates
      BY <2>1 DEF Call
    <2> QED BY <1>0, <2>2, <2>3 DEF Open
  <1>5. SUFFICES ASSUME "killed" \notin unseen
                 PROVE  /\ GreenAfterAll(turn) => \E g \in greens : \A e \in edits : ~(calls[e].batch > calls[g].batch)
                        /\ (\E g \in greens : \A e \in edits : calls[g].batch > calls[e].batch) => GreenAfterAll(turn)
    BY <1>3 DEF AsHappened
  <1>6. \A c \in cs : c \in 1 .. Len(calls) /\ c \in seen /\ c > settled
    <2> SUFFICES ASSUME NEW c \in cs PROVE c \in 1 .. Len(calls) /\ c \in seen /\ c > settled
      OBVIOUS
    <2>1. c \in 1 .. Len(calls) /\ c > settled
      BY <1>2
    <2>2. calls[c].state = "recorded"
      BY <1>4, <1>5, <2>1 DEF OrderInv, CallStates
    <2> QED BY <2>1, <2>2 DEF OrderInv
  <1>7. \A s \in 1 .. turn.step : at[s] \in cs /\ at[s] \in 1 .. Len(calls)
    <2> SUFFICES ASSUME NEW s \in 1 .. turn.step PROVE at[s] \in cs /\ at[s] \in 1 .. Len(calls)
      OBVIOUS
    <2>1. at[s] \in 1 .. Len(calls) /\ at[s] > settled
      BY <1>1 DEF Follows, OrderInv
    <2> QED BY <1>2, <2>1
  <1> HIDE DEF cs
  <1>8. ASSUME GreenAfterAll(turn) PROVE \E g \in greens : \A e \in edits : ~(calls[e].batch > calls[g].batch)
    <2>1. PICK j \in 1 .. Len(turn.runs) :
                 turn.runs[j].outcome = "passed" /\ \A i \in 1 .. Len(turn.edits) : turn.runs[j].step > turn.edits[i].step
      BY <1>8 DEF GreenAfterAll
    <2> DEFINE s == turn.runs[j].step
               g == at[s]
    <2>2. s \in 1 .. turn.step
      BY <1>2 DEF StepsIn
    <2>3. g \in greens
      BY <1>1, <1>7, <2>1, <2>2 DEF Follows
    <2>4. ASSUME NEW e \in edits PROVE ~(calls[e].batch > calls[g].batch)
      <3>1. PICK i \in 1 .. Len(turn.edits) : at[turn.edits[i].step] = e
        BY <1>1, <1>6 DEF Follows
      <3>2. turn.edits[i].step \in 1 .. turn.step /\ turn.edits[i].step <= s
        BY <1>2, <2>1, <2>2 DEF StepsIn
      <3>3. calls[e].batch <= calls[g].batch
        BY <1>1, <2>2, <3>1, <3>2 DEF Follows
      <3>4. calls[e].batch \in Nat /\ calls[g].batch \in Nat
        BY <1>4, <1>6, <2>3
      <3> QED BY <3>3, <3>4
    <2> QED BY <2>3, <2>4
  <1>9. ASSUME NEW g \in greens, \A e \in edits : calls[g].batch > calls[e].batch PROVE GreenAfterAll(turn)
    <2>1. PICK j \in 1 .. Len(turn.runs) : turn.runs[j].outcome = "passed" /\ at[turn.runs[j].step] = g
      BY <1>1, <1>6 DEF Follows
    <2>2. turn.runs[j].step \in 1 .. turn.step
      BY <1>2 DEF StepsIn
    <2>3. ASSUME NEW i \in 1 .. Len(turn.edits) PROVE turn.runs[j].step > turn.edits[i].step
      <3> DEFINE e == at[turn.edits[i].step]
      <3>1. turn.edits[i].step \in 1 .. turn.step
        BY <1>2 DEF StepsIn
      <3>2. e \in edits
        BY <1>1, <1>7, <3>1 DEF Follows
      <3>3. calls[g].batch > calls[e].batch
        BY <1>9, <3>2
      <3>4. turn.runs[j].step <= turn.edits[i].step => calls[g].batch <= calls[e].batch
        BY <1>1, <2>1, <2>2, <3>1 DEF Follows
      <3>5. calls[e].batch \in Nat /\ calls[g].batch \in Nat
        BY <1>4, <1>6, <3>2
      <3>6. ~(turn.runs[j].step <= turn.edits[i].step)
        <4> HIDE DEF e
        <4> QED BY <3>3, <3>4, <3>5
      <3> QED BY <2>2, <3>1, <3>6
    <2> QED BY <2>1, <2>3 DEF GreenAfterAll
  <1> QED BY <1>8, <1>9

LEMMA VerdictKept ==
  ASSUME VerdictInv, CallsKept, verdict' = verdict, unseen \subseteq unseen'
  PROVE  VerdictInv'
  <1> SUFFICES ASSUME NEW v \in verdict
               PROVE  v.calls \subseteq 1 .. Len(calls') /\ \A event \in v.verification : AsHappened(v.calls, event)'
    BY DEF VerdictInv
  <1>1. v.calls \subseteq 1 .. Len(calls) /\ \A event \in v.verification : AsHappened(v.calls, event)
    BY DEF VerdictInv
  <1>2. v.calls \subseteq 1 .. Len(calls')
    BY <1>1 DEF CallsKept
  <1>3. \A c \in v.calls : /\ EditDone(calls'[c]) = EditDone(calls[c]) /\ TestsDone(calls'[c]) = TestsDone(calls[c])
                           /\ calls'[c].batch = calls[c].batch
    BY <1>1, DoneStays
  <1>4. ASSUME NEW event \in v.verification PROVE AsHappened(v.calls, event)'
    <2>1. AsHappened(v.calls, event)
      BY <1>1
    <2>2. /\ {c \in v.calls : EditDone(calls'[c])} = {c \in v.calls : EditDone(calls[c])}
          /\ {c \in v.calls : TestsDone(calls'[c])} = {c \in v.calls : TestsDone(calls[c])}
      BY <1>3
    <2> QED BY <1>3, <2>1, <2>2 DEF AsHappened
  <1> QED BY <1>2, <1>4

GreenInv == WorldInv /\ OrderInv /\ NotedInv /\ VerdictInv

LEMMA GreenInit == Init => GreenInv
  <1>1. Init => VerdictInv
    BY DEF Init, VerdictInv
  <1> QED BY <1>1, WorldInit, OrderInit, NotedInit DEF GreenInv

LEMMA GreenStep == GreenInv /\ [Next]_vars => GreenInv'
  <1> SUFFICES ASSUME GreenInv, [Next]_vars PROVE GreenInv'
    OBVIOUS
  <1>0. WorldInv /\ OrderInv /\ NotedInv /\ VerdictInv
    BY DEF GreenInv
  <1>1. WorldInv' /\ OrderInv' /\ CallsKept /\ unseen \subseteq unseen'
    BY <1>0, WorldStep, OrderStep
  <1>2. ASSUME UNCHANGED <<seen, settled, turn, verdict>> PROVE GreenInv'
    <2>1. \E noted : turn' \in TurnOf(noted)
      BY <1>0, <1>2 DEF NotedInv
    <2>2. NotedInv' /\ VerdictInv'
      BY <1>0, <1>1, <1>2, <2>1, NotedStays, VerdictKept
    <2> QED BY <1>1, <2>2 DEF GreenInv
  <1>3. CASE UNCHANGED vars
    BY <1>2, <1>3 DEF vars, session
  <1>4. CASE \E edit \in scenario.edits, fate \in scenario.fates : DoEdit(edit.file, edit.content, fate)
    BY <1>2, <1>4 DEF DoEdit, session
  <1>5. CASE \E command \in scenario.commands, plain \in BOOLEAN : \E pass \in Passes(command) :
                DoCommand(command, pass, plain)
    BY <1>2, <1>5 DEF DoCommand, session
  <1>6. CASE \E edit \in scenario.edits : Developer(edit.file, edit.content)
    BY <1>2, <1>6 DEF Developer, session
  <1>7. CASE \E c \in DOMAIN calls : Killed(c) \/ Again(c) \/ SkipSeen(c)
    BY <1>2, <1>7 DEF Killed, Again, SkipSeen, session
  <1>8. ASSUME NEW c \in DOMAIN calls, Record(c) PROVE GreenInv'
    <2>1. verdict' = verdict
      BY <1>8 DEF Record
    <2>2. NotedInv' /\ VerdictInv'
      BY <1>0, <1>1, <1>8, <2>1, NotedGrows, VerdictKept
    <2> QED BY <1>1, <2>2 DEF GreenInv
  <1>9. CASE TrackTarget
    <2>1. PICK back : turn' = CatchFiles(turn, back) /\ UNCHANGED <<seen, settled, verdict>>
      BY <1>9 DEF TrackTarget
    <2>2. PICK noted : turn \in TurnOf(noted)
      BY <1>0 DEF NotedInv
    <2>3. KeepsLists(turn, turn')
      BY <2>1, <2>2, NoStepLost
    <2>4. (turn').step = turn.step
      BY <2>1, <2>2 DEF CatchFiles, TurnOf
    <2>5. NotedInv' /\ VerdictInv'
      BY <1>0, <1>1, <2>1, <2>3, <2>4, NotedStays, VerdictKept DEF KeepsLists
    <2> QED BY <1>1, <2>5 DEF GreenInv
  <1>10. CASE TrackCommit
    BY <1>2, <1>10 DEF TrackCommit
  <1>11. CASE Stop
    <2>1. PICK v : /\ v.calls = settled + 1 .. Len(calls) /\ v.verification = TurnVerification(turn)
                   /\ verdict' = {v}
      BY <1>11 DEF Stop
    <2>2. Open = {} /\ turn' = NewTurn /\ settled' = Len(calls) /\ UNCHANGED <<calls, seen, unseen>>
      BY <1>11 DEF Stop, world
    <2>3. NotedInv'
      <3>1. turn' \in TurnOf({}) /\ (turn').step = 0 /\ Len((turn').edits) = 0 /\ Len((turn').runs) = 0
        BY <2>2 DEF NewTurn, TurnOf
      <3>2. \A c \in seen : ~(c > Len(calls))
        BY <1>0, <1>1 DEF OrderInv, CallsKept
      <3> DEFINE at == [s \in 1 .. 0 |-> s]
      <3>3. at \in [1 .. 0 -> seen']
        OBVIOUS
      <3> HIDE DEF at
      <3>4. Follows(at)'
        BY <2>2, <3>1, <3>2 DEF Follows
      <3>5. StepsIn(turn')
        BY <3>1 DEF StepsIn
      <3> QED BY <3>1, <3>3, <3>4, <3>5 DEF NotedInv
    <2>4. VerdictInv'
      <3>1. \A event \in v.verification : AsHappened(v.calls, event)
        BY <1>0, <2>1, <2>2, TurnJudged
      <3>2. \A event \in v.verification : AsHappened(v.calls, event)'
        BY <2>2, <3>1 DEF AsHappened
      <3>3. v.calls \subseteq 1 .. Len(calls')
        BY <1>0, <2>1, <2>2 DEF OrderInv
      <3> QED BY <2>1, <3>2, <3>3 DEF VerdictInv
    <2> QED BY <1>1, <2>3, <2>4 DEF GreenInv
  <1> QED BY <1>2, <1>3, <1>4, <1>5, <1>6, <1>7, <1>8, <1>9, <1>10, <1>11 DEF Next

\* A turn ends green if its tests passed in a batch after all of its edits, and
\* does not if each run that passed has an edit in a batch after it, in whatever
\* order the hooks of a batch come, reported twice or not, over any number of
\* calls and turns (TurnState of verify.rs, filled by on_post_tool_use and
\* settled by settle_turn of hooks.rs): the steps of a turn follow the batches.
THEOREM GreenFollowsBatches == Spec => []EndedGreenAsHappened
  <1>1. VerdictInv => EndedGreenAsHappened
    BY DEF VerdictInv, AsHappened, EditDone, TestsDone, EndedGreenAsHappened
  <1>2. GreenInv => EndedGreenAsHappened
    BY <1>1 DEF GreenInv
  <1> QED BY <1>2, GreenInit, GreenStep, PTL DEF Spec
-----------------------------------------------------------------------------
(* The types.                                                              *)

\* Every step of a turn is that of an edit, a run or a flagged change.
Counted(t) ==
    /\ \E noted : t \in TurnOf(noted)
    /\ t.step = Len(t.edits) + Len(t.runs) + Len(t.flagged)

LEMMA RecordsCount ==
  ASSUME NEW t, Counted(t), NEW file, NEW test, NEW sensitive, NEW outcome, NEW command, NEW flags, NEW caught, NEW fs
  PROVE  /\ Counted(RecordEdit(t, file, test, sensitive))
         /\ Counted(RecordRun(t, outcome, command))
         /\ Counted(RecordFlags(t, file, flags, caught))
         /\ Counted(CatchFiles(t, fs))
  <1>1. PICK noted : t \in TurnOf(noted)
    BY DEF Counted
  <1>2. /\ t.edits \in Seq(noted) /\ t.runs \in Seq(noted) /\ t.flagged \in Seq(noted)
        /\ Len(t.edits) \in Nat /\ Len(t.runs) \in Nat /\ Len(t.flagged) \in Nat
        /\ t.step = Len(t.edits) + Len(t.runs) + Len(t.flagged)
    BY <1>1 DEF TurnOf, Counted
  <1> PICK k, l, m \in Nat : Len(t.edits) = k /\ Len(t.runs) = l /\ Len(t.flagged) = m /\ t.step = k + l + m
    BY <1>2
  <1>3. Counted(RecordEdit(t, file, test, sensitive))
    <2> DEFINE e == [step |-> t.step + 1, file |-> file, test |-> test, sensitive |-> sensitive]
               after == RecordEdit(t, file, test, sensitive)
    <2>1. \E more : after \in TurnOf(more)
      BY <1>1, RecordEditAdds DEF OneMore
    <2>2. after.step = t.step + 1 /\ after.edits = Append(t.edits, e) /\ after.runs = t.runs /\ after.flagged = t.flagged
      BY <1>1 DEF RecordEdit, TurnOf
    <2> HIDE DEF e, after
    <2>3. Len(Append(t.edits, e)) = Len(t.edits) + 1
      BY <1>2, OneMoreEntry
    <2>4. after.step = Len(after.edits) + Len(after.runs) + Len(after.flagged)
      <3>1. Len(after.edits) = k + 1 /\ Len(after.runs) = l /\ Len(after.flagged) = m
        BY <2>2, <2>3
      <3>2. after.step = k + l + m + 1
        BY <2>2
      <3> QED BY <3>1, <3>2
    <2>5. Counted(after)
      BY <2>1, <2>4 DEF Counted
    <2> QED BY <2>5 DEF after
  <1>4. Counted(RecordRun(t, outcome, command))
    <2> DEFINE r == [step |-> t.step + 1, outcome |-> outcome, command |-> command]
               after == RecordRun(t, outcome, command)
    <2>1. \E more : after \in TurnOf(more)
      BY <1>1, RecordRunKeeps DEF SameEdits
    <2>2. after.step = t.step + 1 /\ after.edits = t.edits /\ after.runs = Append(t.runs, r) /\ after.flagged = t.flagged
      BY <1>1 DEF RecordRun, TurnOf
    <2> HIDE DEF r, after
    <2>3. Len(Append(t.runs, r)) = Len(t.runs) + 1
      BY <1>2, OneMoreEntry
    <2>4. after.step = Len(after.edits) + Len(after.runs) + Len(after.flagged)
      <3>1. Len(after.edits) = k /\ Len(after.runs) = l + 1 /\ Len(after.flagged) = m
        BY <2>2, <2>3
      <3>2. after.step = k + l + m + 1
        BY <2>2
      <3> QED BY <3>1, <3>2
    <2>5. Counted(after)
      BY <2>1, <2>4 DEF Counted
    <2> QED BY <2>5 DEF after
  <1>5. Counted(RecordFlags(t, file, flags, caught))
    <2> DEFINE c == [step |-> t.step + 1, file |-> file, flags |-> flags, caught |-> caught]
               after == RecordFlags(t, file, flags, caught)
    <2>1. CASE flags = {}
      BY <2>1 DEF RecordFlags
    <2>2. CASE flags # {}
      <3>1. \E more : after \in TurnOf(more)
        BY <1>1, RecordFlagsKeeps DEF SameEdits
      <3>2. after.step = t.step + 1 /\ after.edits = t.edits /\ after.runs = t.runs /\ after.flagged = Append(t.flagged, c)
        BY <1>1, <2>2 DEF RecordFlags, TurnOf
      <3> HIDE DEF c, after
      <3>3. Len(Append(t.flagged, c)) = Len(t.flagged) + 1
        BY <1>2, OneMoreEntry
      <3>4. after.step = Len(after.edits) + Len(after.runs) + Len(after.flagged)
        <4>1. Len(after.edits) = k /\ Len(after.runs) = l /\ Len(after.flagged) = m + 1
          BY <3>2, <3>3
        <4>2. after.step = k + l + m + 1
          BY <3>2
        <4> QED BY <4>1, <4>2
      <3>5. Counted(after)
        BY <3>1, <3>4 DEF Counted
      <3> QED BY <3>5 DEF after
    <2> QED BY <2>1, <2>2
  <1>6. Counted(CatchFiles(t, fs))
    <2> DEFINE Caught(c) == IF c.file \in fs \ {NoFile} THEN [c EXCEPT !.caught = TRUE] ELSE c
               flagged == [i \in DOMAIN t.flagged |-> Caught(t.flagged[i])]
               after == CatchFiles(t, fs)
    <2>1. \E more : after \in TurnOf(more)
      BY <1>1, CatchFilesKeeps DEF SameEdits
    <2>2. after.step = t.step /\ after.edits = t.edits /\ after.runs = t.runs /\ after.flagged = flagged
      BY <1>1 DEF CatchFiles, TurnOf
    <2>3. DOMAIN flagged = 1 .. Len(t.flagged)
      BY <1>2
    <2> HIDE DEF after, flagged
    <2>4. Len(after.flagged) = Len(t.flagged)
      <3>1. PICK more : after \in TurnOf(more)
        BY <2>1
      <3>2. after.flagged \in Seq(more)
        BY <3>1 DEF TurnOf
      <3> QED BY <1>2, <2>2, <2>3, <3>2
    <2>5. Counted(after)
      BY <1>2, <2>1, <2>2, <2>4 DEF Counted
    <2> QED BY <2>5 DEF after
  <1> QED BY <1>3, <1>4, <1>5, <1>6

LEMMA NotedCounts ==
  ASSUME Counted(turn), NEW signal, NEW facts, NEW isAccepted, NEW isDeclined, NEW back
  PROVE  Counted(Noted(signal, facts, isAccepted, isDeclined, back))
  <1> DEFINE edit == RecordEdit(turn, signal.file, signal.isTestFile, facts.pathClass \cap Sensitive # {})
             edited == IF isAccepted THEN RecordFlags(edit, signal.file, signal.editFlags, FALSE)
                       ELSE IF facts.isEdit /\ isDeclined THEN RecordFlags(turn, signal.file, signal.editFlags, TRUE)
                       ELSE turn
             caught == IF back THEN CatchFiles(edited, {signal.file}) ELSE edited
             run == CHOOSE run \in signal.testRun : TRUE
             ran == IF signal.testRun = {} THEN caught ELSE RecordRun(caught, run.outcome, run.key)
             after == IF signal.commandSucceeded THEN RecordFlags(ran, NoFile, signal.commandFlags, FALSE) ELSE ran
  <1>1. Counted(edit)
    BY RecordsCount
  <1> HIDE DEF edit
  <1>2. Counted(RecordFlags(edit, signal.file, signal.editFlags, FALSE))
        /\ Counted(RecordFlags(turn, signal.file, signal.editFlags, TRUE))
    BY <1>1, RecordsCount
  <1>3. edited \in {RecordFlags(edit, signal.file, signal.editFlags, FALSE),
                    RecordFlags(turn, signal.file, signal.editFlags, TRUE), turn}
    OBVIOUS
  <1> HIDE DEF edited
  <1>4. Counted(edited)
    BY <1>2, <1>3
  <1>5. Counted(CatchFiles(edited, {signal.file})) /\ caught \in {CatchFiles(edited, {signal.file}), edited}
    BY <1>4, RecordsCount
  <1> HIDE DEF caught, run
  <1>6. Counted(caught)
    BY <1>4, <1>5
  <1>7. Counted(RecordRun(caught, run.outcome, run.key)) /\ ran \in {caught, RecordRun(caught, run.outcome, run.key)}
    BY <1>6, RecordsCount
  <1> HIDE DEF ran
  <1>8. Counted(ran)
    BY <1>6, <1>7
  <1>9. Counted(RecordFlags(ran, NoFile, signal.commandFlags, FALSE))
        /\ after \in {ran, RecordFlags(ran, NoFile, signal.commandFlags, FALSE)}
    BY <1>8, RecordsCount
  <1>10. Noted(signal, facts, isAccepted, isDeclined, back) = after
    BY DEF Noted, edited, edit, caught, ran, run
  <1> HIDE DEF after
  <1> QED BY <1>8, <1>9, <1>10

\* A file stays known: what has uncommitted edits, or edits in the last commit,
\* was edited.
LEMMA StaysKnown ==
  ASSUME NEW texts, NEW track \in Track(texts), NEW original, NEW onDisk
  PROVE  /\ MarkReverted(track).known = track.known
         /\ TrackEdit(track, original, onDisk).known = TRUE
  <1>1. MarkReverted(track).known = track.known
    BY DEF MarkReverted, Track
  <1>2. TrackEdit(track, original, onDisk).known = TRUE
    <2>1. track.known \in BOOLEAN
      BY DEF Track
    <2>2. CASE ~track.known
      BY <2>2 DEF TrackEdit
    <2>3. CASE track.known /\ PutsBack(track, onDisk)
      <3>1. TrackEdit(track, original, onDisk) = MarkReverted(track)
        BY <2>3 DEF TrackEdit
      <3> QED BY <1>1, <2>1, <2>3, <3>1
    <2>4. CASE track.known /\ ~PutsBack(track, onDisk)
      <3>1. TrackEdit(track, original, onDisk) = [track EXCEPT !.dirty = TRUE]
        BY <2>4 DEF TrackEdit
      <3>2. [track EXCEPT !.dirty = TRUE].known = track.known
        BY DEF Track
      <3> QED BY <2>1, <2>4, <3>1, <3>2
    <2> QED BY <2>1, <2>2, <2>3, <2>4
  <1> QED BY <1>1, <1>2

KnownTrack == {track \in Track(Texts) : track.dirty => track.known}

TypeInv ==
    /\ Counted(turn)
    /\ files \in [File -> KnownTrack]
    /\ lastCommit \subseteq {f \in File : files[f].known}
    /\ tracking = Idle \/ \E t : tracking = {t}

LEMMA TypeInit == Init => TypeInv
  <1> SUFFICES ASSUME Init PROVE TypeInv
    OBVIOUS
  <1>1. turn \in TurnOf({}) /\ turn.step = 0 /\ Len(turn.edits) = 0 /\ Len(turn.runs) = 0 /\ Len(turn.flagged) = 0
    BY DEF Init, NewTurn, TurnOf
  <1>2. Counted(turn)
    BY <1>1 DEF Counted
  <1>3. Track0 \in KnownTrack
    BY DEF Track0, KnownTrack, Track
  <1> QED BY <1>2, <1>3 DEF Init, TypeInv

LEMMA TypeStep == WorldInv /\ TypeInv /\ [Next]_vars => TypeInv'
  <1> SUFFICES ASSUME WorldInv, TypeInv, [Next]_vars PROVE TypeInv'
    OBVIOUS
  <1>0. /\ Counted(turn) /\ files \in [File -> KnownTrack]
        /\ lastCommit \subseteq {f \in File : files[f].known}
        /\ tracking = Idle \/ \E t : tracking = {t}
    BY DEF TypeInv
  <1>1. ASSUME UNCHANGED <<session, tracking>> PROVE TypeInv'
    BY <1>0, <1>1 DEF TypeInv, session
  <1>2. CASE UNCHANGED vars
    BY <1>1, <1>2 DEF vars
  <1>3. CASE \E edit \in scenario.edits, fate \in scenario.fates : DoEdit(edit.file, edit.content, fate)
    BY <1>1, <1>3 DEF DoEdit
  <1>4. CASE \E command \in scenario.commands, plain \in BOOLEAN : \E pass \in Passes(command) :
                DoCommand(command, pass, plain)
    BY <1>1, <1>4 DEF DoCommand
  <1>5. CASE \E edit \in scenario.edits : Developer(edit.file, edit.content)
    BY <1>1, <1>5 DEF Developer
  <1>6. CASE \E c \in DOMAIN calls : Killed(c) \/ Again(c) \/ SkipSeen(c)
    BY <1>1, <1>6 DEF Killed, Again, SkipSeen
  <1>7. ASSUME NEW c \in DOMAIN calls, Record(c) PROVE TypeInv'
    <2> DEFINE read == Reads[ToldOf(calls[c])]
    <2>1. c \in 1 .. Len(calls)
      <3>1. PICK any : calls \in Seq(Call(any))
        BY DEF WorldInv
      <3> QED BY <3>1
    <2>2. /\ \A r \in read.commands : read.commands = {r}
          /\ read.accepted => read.signal.original \subseteq Texts
      BY <2>1, ReadOfCall
    <2>3. Write(c, read) /\ lastCommit' = lastCommit
      BY <1>7 DEF Record, ToldOf
    <2> HIDE DEF read
    <2>4. PICK back : turn' = Noted(read.signal, read.facts, read.accepted, read.declined, back)
      BY <2>3 DEF Write
    <2>5. Counted(turn')
      BY <1>0, <2>4, NotedCounts
    <2>6. files' = [f \in File |-> IF read.accepted /\ f = read.signal.file
                                   THEN TrackEdit(files[f], read.signal.original, Lines[tree[f]]) ELSE files[f]]
      BY <2>3 DEF Write
    <2>7. ASSUME NEW f \in File
          PROVE  files'[f] \in KnownTrack /\ (files[f].known => files'[f].known)
      <3>1. files[f] \in Track(Texts) /\ files[f] \in KnownTrack
        BY <1>0 DEF KnownTrack
      <3>2. CASE read.accepted /\ f = read.signal.file
        <4> DEFINE after == TrackEdit(files[f], read.signal.original, Lines[tree[f]])
        <4>1. files'[f] = after
          BY <2>6, <3>2
        <4>2. after \in Track(Texts)
          BY <2>2, <3>1, <3>2, EditSpends
        <4>3. after.known = TRUE
          BY <3>1, StaysKnown
        <4> HIDE DEF after
        <4> QED BY <4>1, <4>2, <4>3 DEF KnownTrack
      <3>3. CASE ~(read.accepted /\ f = read.signal.file)
        BY <2>6, <3>1, <3>3
      <3> QED BY <3>2, <3>3
    <2>8. files' \in [File -> KnownTrack] /\ lastCommit' \subseteq {f \in File : files'[f].known}
      BY <1>0, <2>3, <2>6, <2>7
    <2>9. tracking' = Idle \/ \E t : tracking' = {t}
      <3>1. tracking' = {[todo |-> r.todo, commit |-> r.commit, call |-> c] : r \in read.commands}
        BY <2>3 DEF Write
      <3>2. CASE read.commands = {}
        BY <3>1, <3>2 DEF Idle
      <3>3. CASE read.commands # {}
        <4>1. PICK one : read.commands = {one}
          BY <2>2, <3>3
        <4>2. tracking' = {[todo |-> one.todo, commit |-> one.commit, call |-> c]}
          BY <3>1, <4>1
        <4> QED BY <4>2
      <3> QED BY <3>2, <3>3
    <2> QED BY <2>5, <2>8, <2>9 DEF TypeInv
  <1>8. CASE TrackTarget
    <2>1. PICK back \in SUBSET File :
             /\ files' = [f \in File |-> IF f \in back THEN MarkReverted(files[f]) ELSE files[f]]
             /\ turn' = CatchFiles(turn, back) /\ lastCommit' \in {{}, lastCommit}
             /\ \E t : tracking' = {t}
      <3>1. PICK now \in tracking :
               LET taken == {f \in File : TakesBack(Head(now.todo), f)}
               IN /\ files' = [f \in File |-> IF f \in taken THEN MarkReverted(files[f]) ELSE files[f]]
                  /\ turn' = CatchFiles(turn, taken) /\ lastCommit' \in {{}, lastCommit}
                  /\ tracking' = {[now EXCEPT !.todo = Tail(now.todo)]}
        BY <1>8 DEF TrackTarget
      <3> DEFINE taken == {f \in File : TakesBack(Head(now.todo), f)}
                 next == [now EXCEPT !.todo = Tail(now.todo)]
      <3>2. taken \in SUBSET File
        OBVIOUS
      <3>3. /\ files' = [f \in File |-> IF f \in taken THEN MarkReverted(files[f]) ELSE files[f]]
            /\ turn' = CatchFiles(turn, taken) /\ lastCommit' \in {{}, lastCommit}
            /\ tracking' = {next}
        BY <3>1
      <3> HIDE DEF taken, next
      <3> QED BY <3>2, <3>3
    <2>2. Counted(turn')
      BY <1>0, <2>1, RecordsCount
    <2>3. ASSUME NEW f \in File PROVE files'[f] \in KnownTrack /\ files'[f].known = files[f].known
      <3>1. files[f] \in Track(Texts) /\ files[f] \in KnownTrack
        BY <1>0 DEF KnownTrack
      <3>2. CASE f \in back
        <4>1. files'[f] = MarkReverted(files[f])
          BY <2>1, <3>2
        <4>2. /\ MarkReverted(files[f]) \in Track(Texts) /\ ~MarkReverted(files[f]).dirty
              /\ MarkReverted(files[f]).known = files[f].known
          BY <3>1, RevertSpends, StaysKnown
        <4> QED BY <4>1, <4>2 DEF KnownTrack
      <3>3. CASE f \notin back
        BY <2>1, <3>1, <3>3
      <3> QED BY <3>2, <3>3
    <2>4. files' \in [File -> KnownTrack] /\ lastCommit' \subseteq {f \in File : files'[f].known}
      BY <1>0, <2>1, <2>3
    <2> QED BY <2>1, <2>2, <2>4 DEF TypeInv
  <1>9. CASE TrackCommit
    <2>1. PICK committed \in SUBSET File :
             /\ \A f \in committed : files[f].dirty
             /\ files' = [f \in File |-> IF f \in committed THEN [files[f] EXCEPT !.dirty = FALSE] ELSE files[f]]
             /\ lastCommit' = IF committed # {} THEN committed ELSE lastCommit
             /\ turn' = turn /\ tracking' = Idle
      BY <1>9 DEF TrackCommit
    <2>2. ASSUME NEW f \in File
          PROVE  /\ files'[f] \in KnownTrack /\ files'[f].known = files[f].known
                 /\ f \in committed => files[f].known
      <3>1. files[f] \in Track(Texts) /\ files[f] \in KnownTrack /\ (files[f].dirty => files[f].known)
        BY <1>0 DEF KnownTrack
      <3>2. CASE f \in committed
        <4> DEFINE after == [files[f] EXCEPT !.dirty = FALSE]
        <4>1. after \in Track(Texts) /\ after.dirty = FALSE /\ after.known = files[f].known
          BY <3>1 DEF Track
        <4>2. files'[f] = after
          BY <2>1, <3>2
        <4> HIDE DEF after
        <4> QED BY <2>1, <3>1, <3>2, <4>1, <4>2 DEF KnownTrack
      <3>3. CASE f \notin committed
        BY <2>1, <3>1, <3>3
      <3> QED BY <3>2, <3>3
    <2>3. files' \in [File -> KnownTrack] /\ lastCommit' \subseteq {f \in File : files'[f].known}
      <3>1. files' = [f \in File |-> files'[f]]
        BY <2>1
      <3> QED BY <1>0, <2>1, <2>2, <3>1
    <2> QED BY <1>0, <2>1, <2>3 DEF TypeInv
  <1>10. CASE Stop
    <2>1. turn' = NewTurn /\ UNCHANGED <<files, lastCommit, tracking>>
      BY <1>10 DEF Stop
    <2>2. NewTurn \in TurnOf({}) /\ NewTurn.step = 0 /\ Len(NewTurn.edits) = 0 /\ Len(NewTurn.runs) = 0
          /\ Len(NewTurn.flagged) = 0
      BY DEF NewTurn, TurnOf
    <2>3. Counted(turn')
      BY <2>1, <2>2 DEF Counted
    <2> QED BY <1>0, <2>1, <2>3 DEF TypeInv
  <1> QED BY <1>2, <1>3, <1>4, <1>5, <1>6, <1>7, <1>8, <1>9, <1>10 DEF Next

\* What the hooks write is of the types of SessionState, whatever the host
\* tells: the texts of before a file's first edit are texts it held, what is
\* in the last commit was edited, one hook at a time is in track_command, and
\* a turn has a step for each of its entries and for nothing else.
THEOREM TurnTypes == Spec => []TypeOK
  <1> DEFINE Inv == IInv /\ AgreeInv /\ GreenInv /\ TypeInv
  <1>1. Init => Inv
    BY RevertsInit, AgreeInit, GreenInit, TypeInit
  <1>2. Inv /\ [Next]_vars => Inv'
    <2> SUFFICES ASSUME Inv, [Next]_vars PROVE Inv'
      OBVIOUS
    <2>1. WorldInv
      BY DEF GreenInv
    <2> QED BY <2>1, RevertsStep, AgreeStep, GreenStep, TypeStep
  <1>3. Inv => TypeOK
    <2> SUFFICES ASSUME Inv PROVE TypeOK
      OBVIOUS
    <2>1. commits # <<>>
      BY DEF GreenInv, WorldInv, Commits
    <2>2. files \in [File -> [known : BOOLEAN, dirty : BOOLEAN, pre : SUBSET Texts, reverts : Nat]]
      BY DEF TypeInv, KnownTrack, Track
    <2>3. lastCommit \subseteq {f \in File : files[f].known}
      BY DEF TypeInv
    <2>4. pending \subseteq seen /\ seen \subseteq DOMAIN calls
      <3>1. PICK any : calls \in Seq(Call(any))
        BY DEF GreenInv, WorldInv
      <3>2. seen \subseteq 1 .. Len(calls)
        BY DEF GreenInv, OrderInv
      <3> QED BY <3>1, <3>2 DEF AgreeInv, Agree
    <2>5. Cardinality(tracking) <= 1
      <3>1. CASE tracking = {}
        BY <3>1, FS_EmptySet
      <3>2. CASE \E t : tracking = {t}
        <4>1. PICK t : tracking = {t}
          BY <3>2
        <4>2. Cardinality({t}) = 1
          BY FS_Singleton
        <4> QED BY <4>1, <4>2
      <3> QED BY <3>1, <3>2 DEF TypeInv, Idle
    <2>6. turn.step = Len(turn.edits) + Len(turn.runs) + Len(turn.flagged)
      BY DEF TypeInv, Counted
    <2>7. accepted \in [File -> Nat]
      BY DEF IInv, TrackType
    <2> QED BY <2>1, <2>2, <2>3, <2>4, <2>5, <2>6, <2>7 DEF TypeOK
  <1> QED BY <1>1, <1>2, <1>3, PTL DEF Spec
=============================================================================
