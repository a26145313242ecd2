--------------------------- MODULE ClearanceProofs ---------------------------
(***************************************************************************)
(* Theorems about a referral and its clearance, for any number of          *)
(* revisions, reviews, comments and queue entries, any changes and         *)
(* exemptions, and any deployment of the relay.                            *)
(***************************************************************************)
EXTENDS Clearance, TLAPS

-----------------------------------------------------------------------------
(* A status a review posted is the last verdict of its revision, and nobody *)
(* who commented after it had fewer verdicts to read.                      *)
StatusStands(h) ==
    LET s == referral[h]
    IN  IF s.by = Review
          THEN s.state # "none" =>
                 /\ verdicts[h] # <<>> /\ verdicts[h][Len(verdicts[h])] = s.state
                 /\ ~SameSecond => \A c \in DOMAIN comments :
                      c > s.after => comments[c].read[h] = Len(verdicts[h])
          ELSE s.state = "success"

(* A job is for a revision, and one that clears was told to by somebody who *)
(* may, over a verdict that was pending.                                   *)
Looking == {"resolving head", "reading referral"}
Posting == {"recording", "resolving"}
Relaying == {"submitting", "admitted", "submitting resolution", "resolution admitted", "refused"}
Landed == {"resolving", "submitting resolution", "resolution admitted"}

Clears(c) ==
    LET job == jobs[c]
        cmd == comments[c].cmd
    IN  /\ cmd.verb = "clear" /\ cmd.writer
        /\ job.decided \in 1..Len(verdicts[job.head])
        /\ ~SameSecond => cmd.sha = job.head \/ job.decided <= comments[c].read[job.head]
        /\ job.pc # "refused" =>
             /\ job.looked \in 1..Len(verdicts[job.head])
             /\ verdicts[job.head][job.looked] = "pending"

JobInv(c) ==
    LET job == jobs[c]
    IN  /\ LiveHead > 0
        /\ job.pc # "resolving head" => job.head \in 1..LiveHead
        /\ job.pc \in Looking => job.answer = "none"
        /\ job.pc \in Posting \cup Relaying => job.answer = "clear"
        /\ job.pc \in Posting => ~lists.relayed
        /\ job.pc \in Relaying => lists.relayed
        /\ job.answer = "clear" => Clears(c)
        /\ job.pc \in Landed => clearance[job.head].by # 0

(* What a revision's statuses say of the comments that posted them.         *)
Posted(h) ==
    /\ LET c == clearance[h].by IN
         c # 0 => /\ c \in DOMAIN jobs /\ jobs[c].answer = "clear" /\ jobs[c].head = h
                  /\ jobs[c].print = clearance[h].print
                  /\ clearance[h].app => lists.relayed
    /\ LET c == referral[h].by IN
         c # 0 => /\ c \in DOMAIN jobs /\ jobs[c].answer = "clear" /\ jobs[c].head = h
                  /\ IF lists.relayed THEN jobs[c].pc = "done"
                                      ELSE jobs[c].pc \in {"replying", "done"}
                  /\ clearance[h].by # 0

(* An entry's success is earned when it is composed.                        *)
Earned(e) ==
    LET entry == entries[e]
    IN  /\ entry.batch.paths = {} /\ ~entry.batch.altered
        /\ \E c \in DOMAIN jobs :
             /\ jobs[c].answer = "clear" /\ lists.relayed
             /\ jobs[c].head = entry.of
             /\ jobs[c].print = Fingerprint(QueuedDecision(e))

EntryInv(e) ==
    LET entry == entries[e]
    IN  /\ entry.of \in 1..LiveHead
        /\ entry.pc = "reading clearance" =>
             /\ entry.live = entry.of
             /\ entry.batch.paths = {} /\ ~entry.batch.altered
        /\ entry.outcome = "success" /\ QueuedDecision(e).referred => Earned(e)
        /\ entry.published = "success" => entry.pc = "done" /\ entry.outcome = "success"

IInv ==
    /\ TypeOK
    /\ \A h \in Heads : StatusStands(h) /\ Posted(h)
    /\ \A c \in DOMAIN jobs : JobInv(c)
    /\ \A e \in DOMAIN entries : EntryInv(e)

-----------------------------------------------------------------------------
(***************************************************************************)
(* What the types say of each variable's parts.                             *)
(***************************************************************************)
LEMMA Has ==
  ASSUME TypeOK
  PROVE  /\ LiveHead \in Nat /\ LiveHead <= MaxHead /\ Len(comments) \in Nat
         /\ \A h \in 1..LiveHead : h \in Heads /\ changes[h] \in Carried
         /\ \A h \in Heads : /\ referral[h] \in Status /\ clearance[h] \in Clearing
                             /\ verdicts[h] \in Seq(States) /\ Len(verdicts[h]) \in Nat
         /\ DOMAIN comments = 1..Len(comments) /\ DOMAIN jobs = 1..Len(comments)
         /\ \A c \in DOMAIN comments : comments[c] \in Comment
         /\ \A c \in DOMAIN jobs : jobs[c] \in Job
         /\ DOMAIN entries = 1..Len(entries) /\ Len(entries) \in Nat
         /\ \A e \in DOMAIN entries : entries[e] \in Entry
<1>1. LiveHead \in Nat /\ LiveHead <= MaxHead /\ Len(comments) \in Nat
  BY DEF TypeOK, LiveHead
<1>2. \A h \in 1..LiveHead : h \in Heads /\ changes[h] \in Carried
  <2>1. MaxHead \in Nat
    BY ClearanceAssumption
  <2> QED
    BY <1>1, <2>1 DEF TypeOK, LiveHead, Heads
<1>3. \A h \in Heads : /\ referral[h] \in Status /\ clearance[h] \in Clearing
                       /\ verdicts[h] \in Seq(States) /\ Len(verdicts[h]) \in Nat
  BY DEF TypeOK
<1>4. DOMAIN comments = 1..Len(comments) /\ DOMAIN jobs = 1..Len(comments)
  BY DEF TypeOK
<1>5. \A c \in DOMAIN comments : comments[c] \in Comment
  BY DEF TypeOK
<1>6. \A c \in DOMAIN jobs : jobs[c] \in Job
  BY DEF TypeOK
<1>7. /\ DOMAIN entries = 1..Len(entries) /\ Len(entries) \in Nat
      /\ \A e \in DOMAIN entries : entries[e] \in Entry
  BY DEF TypeOK
<1> QED
  BY <1>1, <1>2, <1>3, <1>4, <1>5, <1>6, <1>7

LEMMA InitInv == Init => IInv
<1> SUFFICES ASSUME Init PROVE IInv
  OBVIOUS
<1>1. TypeOK
  <2>1. NoStatus \in Status /\ NoClearance \in Clearing
    BY DEF NoStatus, NoClearance, Status, Clearing, Review, Prints, NoPrint, States
  <2>2. LiveHead <= MaxHead
    BY ClearanceAssumption DEF Init, LiveHead
  <2> QED
    BY <2>1, <2>2 DEF Init, TypeOK
<1>2. \A h \in Heads : StatusStands(h) /\ Posted(h)
  BY DEF Init, StatusStands, Posted, NoStatus, NoClearance, Review
<1>3. DOMAIN jobs = {} /\ DOMAIN entries = {}
  BY DEF Init
<1> QED
  BY <1>1, <1>2, <1>3 DEF IInv

(***************************************************************************)
(* What a job writes into the clearance is a fingerprint some change has.   *)
(***************************************************************************)
LEMMA PrintType ==
  ASSUME TypeOK, NEW h \in 1..LiveHead, NEW compared \in BOOLEAN
  PROVE  ClearedPrint(h, compared) \in Prints
<1>1. changes[h] \in Carried
  BY Has
<1> QED
  BY <1>1 DEF ClearedPrint, Prints, Carried

-----------------------------------------------------------------------------
(***************************************************************************)
(* What each step of a job does to its own job, when the job is one of the  *)
(* invariant's: the job it becomes, and the rest of the jobs unmoved.       *)
(***************************************************************************)
Moved(c) == /\ jobs' = [jobs EXCEPT ![c] = jobs'[c]] /\ jobs'[c] \in Job
            /\ UNCHANGED <<changes, lists, verdicts, comments, entries>>

LEMMA ClearMeans ==
  ASSUME NEW c, NEW head, NEW status, NEW derived, NEW uncovered,
         DecideComment(c, head, status, derived, uncovered) = "clear"
  PROVE  /\ comments[c].cmd.verb = "clear" /\ comments[c].cmd.writer
         /\ comments[c].cmd.sha = 0 => ~(status.after >= c)
         /\ comments[c].cmd.sha # 0 => comments[c].cmd.sha = head
         /\ status.state = "pending"
  BY DEF DecideComment

LEMMA DecideType ==
  ASSUME NEW c, NEW head, NEW status, NEW derived, NEW uncovered
  PROVE  DecideComment(c, head, status, derived, uncovered) \in Answers
  BY DEF DecideComment, Answers

(***************************************************************************)
(* A referral read as pending is the last verdict a review published there. *)
(***************************************************************************)
LEMMA PendingIsVerdict ==
  ASSUME IInv, NEW h \in Heads, referral[h].state = "pending"
  PROVE  /\ Len(verdicts[h]) \in 1..Len(verdicts[h])
         /\ verdicts[h][Len(verdicts[h])] = "pending"
         /\ ~SameSecond => \A c \in DOMAIN comments :
              c > referral[h].after => comments[c].read[h] = Len(verdicts[h])
<1>1. StatusStands(h) /\ verdicts[h] \in Seq(States)
  BY Has DEF IInv
<1>2. verdicts[h] # <<>> => Len(verdicts[h]) \in 1..Len(verdicts[h])
  BY <1>1
<1> QED
  BY <1>1, <1>2 DEF StatusStands

LEMMA JobResolvesHead ==
  ASSUME IInv, NEW c \in DOMAIN jobs, ResolveHead(c)
  PROVE  Moved(c) /\ JobInv(c)'
<1>1. JobInv(c) /\ jobs[c] \in Job /\ LiveHead \in Nat /\ DOMAIN jobs = DOMAIN comments
  BY Has DEF IInv
<1>2. /\ jobs'[c] = [jobs[c] EXCEPT !.pc = "reading referral", !.head = LiveHead]
      /\ jobs' = [jobs EXCEPT ![c] = jobs'[c]]
      /\ UNCHANGED <<changes, lists, referral, clearance, verdicts, comments, entries>>
  BY DEF ResolveHead, IInv, TypeOK
<1>3. jobs'[c] \in Job
  BY <1>1, <1>2 DEF Job, Pcs
<1>4. jobs'[c].pc = "reading referral" /\ jobs'[c].head = LiveHead /\ jobs'[c].answer = "none"
  <2>1. jobs[c].pc = "resolving head"
    BY DEF ResolveHead
  <2>2. jobs[c].answer = "none"
    BY <1>1, <2>1 DEF JobInv, Looking
  <2> QED
    BY <1>1, <1>2, <2>2 DEF Job
<1>5. LiveHead > 0 /\ LiveHead' = LiveHead
  BY <1>1, <1>2 DEF JobInv, LiveHead
<1>6. jobs'[c].head \in 1..LiveHead'
  <2>1. LiveHead \in 1..LiveHead
    BY <1>1, <1>5
  <2> QED
    BY <1>4, <1>5, <2>1
<1>7. JobInv(c)'
  BY <1>4, <1>5, <1>6 DEF JobInv, Looking, Posting, Relaying, Landed
<1> QED
  BY <1>2, <1>3, <1>7 DEF Moved

LEMMA JobDecides ==
  ASSUME IInv, NEW c \in DOMAIN jobs, NEW derived, NEW rules, NEW print \in Prints,
         ReadReferralAndDecide(c, derived, rules, print)
  PROVE  Moved(c) /\ JobInv(c)'
<1> DEFINE j == jobs[c]
           h == j.head
           status == referral[h]
           answer == DecideComment(c, h, status, derived, UncoveredPaths(h, rules))
           k == jobs'[c]
<1>1. /\ JobInv(c) /\ j \in Job /\ LiveHead \in Nat /\ DOMAIN jobs = DOMAIN comments
      /\ j.pc = "reading referral"
  BY Has DEF IInv, ReadReferralAndDecide
<1>2. h \in 1..LiveHead /\ h \in Heads
  BY <1>1, Has DEF JobInv, IInv
<1>3. answer \in Answers
  BY DecideType
<1>4. UNCHANGED <<changes, lists, referral, clearance, verdicts, comments, entries>>
  BY DEF ReadReferralAndDecide
<1>5. /\ k = IF answer = "clear"
               THEN [Answered(j, answer) EXCEPT !.decided = Len(verdicts[h]),
                                                !.looked = Len(verdicts[h]), !.print = print]
               ELSE Answered(j, answer)
      /\ jobs' = [jobs EXCEPT ![c] = k]
  BY DEF ReadReferralAndDecide, IInv, TypeOK
<1>6. Len(verdicts[h]) \in Nat
  BY <1>2, Has DEF IInv
<1>7. Answered(j, answer) \in Job
  BY <1>1, <1>3 DEF Answered, Job, Pcs
<1> HIDE DEF answer
<1>8. k \in Job
  BY <1>5, <1>6, <1>7 DEF Job
<1>9. /\ k.head = h /\ k.answer = answer
      /\ k.pc = IF answer = "ignore" THEN "done"
                ELSE IF answer = "clear" /\ ~lists.relayed THEN "recording" ELSE "replying"
      /\ answer = "clear" => k.decided = Len(verdicts[h]) /\ k.looked = Len(verdicts[h])
  <2>1. LET a == Answered(j, answer)
        IN  /\ a.head = h /\ a.answer = answer
            /\ a.pc = IF answer = "ignore" THEN "done"
                      ELSE IF answer = "clear" /\ ~lists.relayed THEN "recording" ELSE "replying"
    BY <1>1 DEF Answered, Job
  <2> QED
    BY <1>5, <1>7, <2>1 DEF Job
<1>10. ASSUME answer = "clear" PROVE Clears(c)'
  <2>1. /\ comments[c].cmd.verb = "clear" /\ comments[c].cmd.writer
        /\ comments[c].cmd.sha = 0 => ~(status.after >= c)
        /\ comments[c].cmd.sha # 0 => comments[c].cmd.sha = h
        /\ status.state = "pending"
    BY <1>10, ClearMeans DEF answer
  <2>2. status.after \in Nat /\ c \in Nat
    BY <1>2, Has DEF IInv, Status
  <2>3. /\ Len(verdicts[h]) \in 1..Len(verdicts[h])
        /\ verdicts[h][Len(verdicts[h])] = "pending"
        /\ ~SameSecond => \A d \in DOMAIN comments :
             d > status.after => comments[d].read[h] = Len(verdicts[h])
    BY <1>2, <2>1, PendingIsVerdict
  <2>4. ~SameSecond => comments[c].cmd.sha = h \/ Len(verdicts[h]) <= comments[c].read[h]
    <3>1. SUFFICES ASSUME ~SameSecond, comments[c].cmd.sha = 0
                   PROVE  comments[c].read[h] = Len(verdicts[h])
      BY <1>6, <2>1
    <3>2. c > status.after
      BY <2>1, <2>2, <3>1
    <3> QED
      BY <1>1, <2>3, <3>1, <3>2
  <2> QED
    BY <1>4, <1>9, <1>10, <2>1, <2>3, <2>4 DEF Clears
<1>11. JobInv(c)'
  BY <1>1, <1>2, <1>3, <1>4, <1>9, <1>10
     DEF JobInv, Looking, Posting, Relaying, Landed, LiveHead
<1> QED
  BY <1>4, <1>5, <1>8, <1>11 DEF Moved

(***************************************************************************)
(* The direct route's two posts, and the relay's two writes.                *)
(***************************************************************************)
LEMMA JobRecords ==
  ASSUME IInv, NEW c \in DOMAIN jobs, PostClearance(c) \/ RelayWritesClearance(c)
  PROVE  /\ Moved(c) /\ JobInv(c)'
         /\ jobs[c].answer = "clear" /\ jobs[c].head \in Heads /\ UNCHANGED referral
         /\ clearance' = [clearance EXCEPT ![jobs[c].head] =
               [by |-> c, app |-> lists.relayed, print |-> jobs[c].print]]
         /\ lists.relayed \in BOOLEAN
<1> DEFINE j == jobs[c]
           k == jobs'[c]
<1>1. /\ JobInv(c) /\ j \in Job /\ LiveHead \in Nat /\ DOMAIN jobs = DOMAIN comments
      /\ c \in Nat /\ c # 0
  BY Has DEF IInv
<1>2. /\ UNCHANGED <<changes, lists, referral, verdicts, comments, entries>>
      /\ j.pc = "recording" \/ j.pc = "admitted"
      /\ k = [j EXCEPT !.pc = IF j.pc = "recording" THEN "resolving" ELSE "submitting resolution"]
      /\ jobs' = [jobs EXCEPT ![c] = k]
      /\ clearance' = [clearance EXCEPT ![j.head] =
             [by |-> c, app |-> j.pc = "admitted", print |-> j.print]]
  BY DEF PostClearance, RelayWritesClearance, IInv, TypeOK
<1>3. j.answer = "clear" /\ j.head \in 1..LiveHead /\ (j.pc = "admitted") = lists.relayed
      /\ lists.relayed \in BOOLEAN
  <2>1. lists.relayed \in BOOLEAN
    BY DEF IInv, TypeOK, Deployments
  <2> QED
    BY <1>1, <1>2, <2>1 DEF JobInv, Posting, Relaying, Looking
<1>4. j.head \in Heads
  BY <1>3, Has DEF IInv
<1>5. k \in Job
  BY <1>1, <1>2 DEF Job, Pcs
<1>6. /\ k.head = j.head /\ k.answer = "clear" /\ k.decided = j.decided /\ k.looked = j.looked
      /\ k.pc = IF j.pc = "recording" THEN "resolving" ELSE "submitting resolution"
  BY <1>1, <1>2, <1>3 DEF Job
<1>7. Clears(c)'
  BY <1>1, <1>2, <1>3, <1>6 DEF JobInv, Clears
<1>8. clearance'[k.head].by # 0
  BY <1>1, <1>2, <1>4, <1>6 DEF IInv, TypeOK
<1>9. JobInv(c)'
  BY <1>1, <1>2, <1>3, <1>6, <1>7, <1>8
     DEF JobInv, Looking, Posting, Relaying, Landed, LiveHead
<1> QED
  BY <1>2, <1>3, <1>4, <1>5, <1>9 DEF Moved

LEMMA JobResolves ==
  ASSUME IInv, NEW c \in DOMAIN jobs, PostResolution(c) \/ RelayWritesResolution(c)
  PROVE  /\ Moved(c) /\ JobInv(c)'
         /\ jobs'[c].answer = "clear" /\ jobs[c].head \in Heads /\ UNCHANGED clearance
         /\ jobs'[c].head = jobs[c].head
         /\ referral' = [referral EXCEPT ![jobs[c].head] = Resolved(c)]
         /\ clearance[jobs[c].head].by # 0
         /\ IF lists.relayed THEN jobs'[c].pc = "done" ELSE jobs'[c].pc = "replying"
<1> DEFINE j == jobs[c]
           k == jobs'[c]
<1>1. /\ JobInv(c) /\ j \in Job /\ LiveHead \in Nat /\ DOMAIN jobs = DOMAIN comments
  BY Has DEF IInv
<1>2. /\ UNCHANGED <<changes, lists, clearance, verdicts, comments, entries>>
      /\ j.pc = "resolving" \/ j.pc = "resolution admitted"
      /\ k = [j EXCEPT !.pc = IF j.pc = "resolving" THEN "replying" ELSE "done"]
      /\ jobs' = [jobs EXCEPT ![c] = k]
      /\ referral' = [referral EXCEPT ![j.head] = Resolved(c)]
  BY DEF PostResolution, RelayWritesResolution, IInv, TypeOK
<1>3. /\ j.answer = "clear" /\ j.head \in 1..LiveHead
      /\ lists.relayed => j.pc = "resolution admitted"
      /\ ~lists.relayed => j.pc = "resolving"
      /\ clearance[j.head].by # 0
  BY <1>1, <1>2 DEF JobInv, Posting, Relaying, Looking, Landed
<1>4. j.head \in Heads
  BY <1>3, Has DEF IInv
<1>5. k \in Job
  BY <1>1, <1>2 DEF Job, Pcs
<1>6. /\ k.head = j.head /\ k.answer = "clear" /\ k.decided = j.decided /\ k.looked = j.looked
      /\ k.pc = IF j.pc = "resolving" THEN "replying" ELSE "done"
  BY <1>1, <1>2, <1>3 DEF Job
<1>7. Clears(c)'
  BY <1>1, <1>2, <1>3, <1>6 DEF JobInv, Clears
<1>8. JobInv(c)'
  BY <1>1, <1>2, <1>3, <1>6, <1>7
     DEF JobInv, Looking, Posting, Relaying, Landed, LiveHead
<1> QED
  BY <1>2, <1>3, <1>4, <1>5, <1>6, <1>8 DEF Moved

LEMMA JobReplies ==
  ASSUME IInv, NEW c \in DOMAIN jobs, Reply(c)
  PROVE  Moved(c) /\ JobInv(c)'
<1> DEFINE j == jobs[c]
           k == jobs'[c]
<1>1. /\ JobInv(c) /\ j \in Job /\ LiveHead \in Nat /\ DOMAIN jobs = DOMAIN comments
  BY Has DEF IInv
<1>2. /\ UNCHANGED <<changes, lists, referral, clearance, verdicts, comments, entries>>
      /\ j.pc = "replying"
      /\ k = [j EXCEPT !.pc = IF lists.relayed /\ j.answer = "clear" THEN "submitting" ELSE "done"]
      /\ jobs' = [jobs EXCEPT ![c] = k]
  BY DEF Reply, IInv, TypeOK
<1>3. k \in Job
  BY <1>1, <1>2 DEF Job, Pcs
<1>4. /\ k.head = j.head /\ k.answer = j.answer /\ k.decided = j.decided /\ k.looked = j.looked
      /\ k.pc = IF lists.relayed /\ j.answer = "clear" THEN "submitting" ELSE "done"
  BY <1>1, <1>2 DEF Job
<1>5. j.answer = "clear" => Clears(c)'
  BY <1>1, <1>2, <1>4 DEF JobInv, Clears
<1>6. JobInv(c)'
  BY <1>1, <1>2, <1>4, <1>5
     DEF JobInv, Looking, Posting, Relaying, Landed, LiveHead
<1> QED
  BY <1>2, <1>3, <1>6 DEF Moved

(***************************************************************************)
(* The relay admits a resolution only while the referral on the live head   *)
(* stands at pending.                                                       *)
(***************************************************************************)
LEMMA JobIsRead ==
  ASSUME IInv, NEW c \in DOMAIN jobs, RelayReads(c)
  PROVE  Moved(c) /\ JobInv(c)'
<1> DEFINE j == jobs[c]
           h == j.head
           k == jobs'[c]
<1>1. /\ JobInv(c) /\ j \in Job /\ LiveHead \in Nat /\ DOMAIN jobs = DOMAIN comments
  BY Has DEF IInv
<1>2. /\ UNCHANGED <<changes, lists, referral, clearance, verdicts, comments, entries>>
      /\ j.pc = "submitting" \/ j.pc = "submitting resolution"
      /\ k = [j EXCEPT !.pc = IF RelayRefuses(c) THEN "refused"
                              ELSE IF j.pc = "submitting" THEN "admitted"
                              ELSE "resolution admitted",
                       !.looked = IF j.pc = "submitting" THEN j.looked ELSE Len(verdicts[h])]
      /\ jobs' = [jobs EXCEPT ![c] = k]
  BY DEF RelayReads, IInv, TypeOK
<1>3. h \in 1..LiveHead /\ h \in Heads /\ Len(verdicts[h]) \in Nat
  BY <1>1, <1>2, Has DEF JobInv, IInv
<1>4. k \in Job
  BY <1>1, <1>2, <1>3 DEF Job, Pcs
<1>5. /\ k.head = h /\ k.answer = j.answer /\ k.decided = j.decided
      /\ k.looked = IF j.pc = "submitting" THEN j.looked ELSE Len(verdicts[h])
      /\ k.pc = IF RelayRefuses(c) THEN "refused"
                ELSE IF j.pc = "submitting" THEN "admitted" ELSE "resolution admitted"
  BY <1>1, <1>2 DEF Job
<1>6. ASSUME j.pc = "submitting resolution", ~RelayRefuses(c)
      PROVE  /\ Len(verdicts[h]) \in 1..Len(verdicts[h])
             /\ verdicts[h][Len(verdicts[h])] = "pending"
  <2>1. ClearanceRun(lists, ClearanceClaims)
    BY DEF ClearanceRun, ClearanceListed, ClearanceClaims, IInv, TypeOK, Deployments
  <2>2. ReferralResolution(lists, ClearanceClaims, Submitted(c))
    BY <1>6, <2>1 DEF ReferralResolution, Submitted
  <2>3. h = LiveHead /\ referral[LiveHead].state = "pending"
    BY <1>6, <2>2 DEF RelayRefuses, Submitted
  <2> QED
    BY <1>3, <2>3, PendingIsVerdict
<1>7. j.answer = "clear" /\ Clears(c) /\ lists.relayed
  BY <1>1, <1>2 DEF JobInv, Relaying
<1>8. Clears(c)'
  BY <1>2, <1>5, <1>6, <1>7 DEF Clears
<1>9. JobInv(c)'
  BY <1>1, <1>2, <1>3, <1>5, <1>7, <1>8
     DEF JobInv, Looking, Posting, Relaying, Landed, LiveHead
<1> QED
  BY <1>2, <1>4, <1>9 DEF Moved

(***************************************************************************)
(* Every step of a job moves that job alone, and what it posts is posted    *)
(* on the job's own revision.                                               *)
(***************************************************************************)
PostsClearing(c) ==
    /\ jobs[c].answer = "clear" /\ jobs[c].head \in Heads /\ UNCHANGED referral
    /\ clearance' = [clearance EXCEPT ![jobs[c].head] =
          [by |-> c, app |-> lists.relayed, print |-> jobs[c].print]]

PostsResolution(c) ==
    /\ jobs'[c].answer = "clear" /\ jobs[c].head \in Heads /\ UNCHANGED clearance
    /\ jobs'[c].head = jobs[c].head
    /\ referral' = [referral EXCEPT ![jobs[c].head] = Resolved(c)]
    /\ clearance[jobs[c].head].by # 0
    /\ IF lists.relayed THEN jobs'[c].pc = "done" ELSE jobs'[c].pc = "replying"

LEMMA JobMoves ==
  ASSUME IInv, NEW c \in DOMAIN jobs, JobStep(c)
  PROVE  /\ Moved(c) /\ JobInv(c)'
         /\ \/ UNCHANGED <<referral, clearance>>
            \/ PostsClearing(c)
            \/ PostsResolution(c)
<1>1. CASE ResolveHead(c)
  BY <1>1, JobResolvesHead DEF ResolveHead
<1>2. ASSUME NEW derived \in BOOLEAN, NEW rules \in RuleFiles, NEW compared \in BOOLEAN,
             NEW taken \in BOOLEAN,
             ReadReferralAndDecide(c, derived, rules,
               IF taken THEN ClearedPrint(jobs[c].head, compared) ELSE NoPrint)
      PROVE  Moved(c) /\ JobInv(c)' /\ UNCHANGED <<referral, clearance>>
  <2> DEFINE print == IF taken THEN ClearedPrint(jobs[c].head, compared) ELSE NoPrint
  <2>1. jobs[c].head \in 1..LiveHead
    BY <1>2 DEF ReadReferralAndDecide, IInv, JobInv
  <2>2. ClearedPrint(jobs[c].head, compared) \in Prints
    BY <2>1, PrintType DEF IInv
  <2>3. print \in Prints
    BY <2>2 DEF Prints
  <2>4. Moved(c) /\ JobInv(c)'
    BY <1>2, <2>3, JobDecides
  <2>5. UNCHANGED <<referral, clearance>>
    BY <1>2 DEF ReadReferralAndDecide
  <2> QED
    BY <2>4, <2>5
<1>3. CASE PostClearance(c)
  BY <1>3, JobRecords DEF PostsClearing
<1>4. CASE PostResolution(c)
  BY <1>4, JobResolves DEF PostsResolution
<1>5. CASE Reply(c)
  BY <1>5, JobReplies DEF Reply
<1>6. CASE RelayReads(c)
  BY <1>6, JobIsRead DEF RelayReads
<1>7. CASE RelayWritesClearance(c)
  BY <1>7, JobRecords DEF PostsClearing
<1>8. CASE RelayWritesResolution(c)
  BY <1>8, JobResolves DEF PostsResolution
<1> QED
  BY <1>1, <1>2, <1>3, <1>4, <1>5, <1>6, <1>7, <1>8 DEF JobStep

-----------------------------------------------------------------------------
(***************************************************************************)
(* Every step keeps the types.                                              *)
(***************************************************************************)
LEMMA TypeStep == IInv /\ [Next]_vars => TypeOK'
<1> SUFFICES ASSUME IInv, [Next]_vars PROVE TypeOK'
  OBVIOUS
<1>0. TypeOK
  BY DEF IInv
<1>1. CASE UNCHANGED vars
  BY <1>0, <1>1 DEF TypeOK, vars, LiveHead
<1>2. ASSUME NEW change \in Changes, NEW rules \in RuleFiles, Push(change, rules)
      PROVE  TypeOK'
  <2>1. [change |-> change, rules |-> rules] \in Carried
    BY DEF Carried
  <2>2. MaxHead \in Nat
    BY ClearanceAssumption
  <2> QED
    BY <1>0, <1>2, <2>1, <2>2 DEF TypeOK, Push, LiveHead
<1>3. ASSUME NEW h \in Heads, NEW scanned \in BOOLEAN, NEW compared \in BOOLEAN,
             NEW ofTheSecond \in BOOLEAN, PublishReferral(h, scanned, compared, ofTheSecond)
      PROVE  TypeOK'
  <2>1. PICK state \in States, after \in Nat :
          /\ verdicts' = [verdicts EXCEPT ![h] = Append(@, state)]
          /\ referral' = [referral EXCEPT ![h] = [state |-> state, by |-> Review, after |-> after]]
    <3>1. \A x : StateFor(x) \in States
      BY DEF StateFor, States
    <3>2. Len(comments) - (IF ofTheSecond THEN 1 ELSE 0) \in Nat
      BY <1>0, <1>3 DEF TypeOK, PublishReferral
    <3> QED
      BY <1>3, <3>1, <3>2 DEF PublishReferral
  <2>2. UNCHANGED <<changes, lists, clearance, comments, jobs, entries>>
    BY <1>3 DEF PublishReferral
  <2>3. [state |-> state, by |-> Review, after |-> after] \in Status
    BY DEF Status, Review, States
  <2> QED
    BY <1>0, <2>1, <2>2, <2>3 DEF TypeOK, LiveHead
<1>4. ASSUME NEW cmd \in Commands, WriteComment(cmd)
      PROVE  TypeOK'
  <2>1. [cmd |-> cmd, read |-> [h \in Heads |-> Len(verdicts[h])]] \in Comment
    BY <1>0 DEF Comment, TypeOK
  <2>2. [pc |-> "resolving head", head |-> 0, decided |-> 0, looked |-> 0,
         print |-> NoPrint, answer |-> "none"] \in Job
    BY DEF Job, Prints, Pcs, Answers
  <2>3. PICK comment \in Comment, job \in Job :
          comments' = Append(comments, comment) /\ jobs' = Append(jobs, job)
    BY <1>4, <2>1, <2>2 DEF WriteComment
  <2>4. /\ comments' \in Seq(Comment) /\ jobs' \in Seq(Job)
        /\ Len(jobs') = Len(comments')
    BY <1>0, <2>3 DEF TypeOK
  <2>5. UNCHANGED <<changes, lists, referral, clearance, verdicts, entries>>
    BY <1>4 DEF WriteComment
  <2> QED
    BY <1>0, <2>4, <2>5 DEF TypeOK, LiveHead
<1>5. ASSUME NEW c \in DOMAIN jobs, JobStep(c)
      PROVE  TypeOK'
  <2>1. /\ Moved(c)
        /\ \/ UNCHANGED <<referral, clearance>>
           \/ PostsClearing(c)
           \/ PostsResolution(c)
    BY <1>5, JobMoves
  <2>2. jobs[c] \in Job /\ c \in Nat /\ Len(comments) \in Nat /\ lists.relayed \in BOOLEAN
    BY <1>0, Has DEF TypeOK, Deployments
  <2>3. Resolved(c) \in Status
    BY <2>2 DEF Resolved, Status, States
  <2>4. [by |-> c, app |-> lists.relayed, print |-> jobs[c].print] \in Clearing
    BY <2>2 DEF Clearing, Job
  <2>5. referral' \in [Heads -> Status] /\ clearance' \in [Heads -> Clearing]
    BY <1>0, <2>1, <2>3, <2>4 DEF TypeOK, PostsClearing, PostsResolution
  <2>6. jobs' \in Seq(Job) /\ Len(jobs') = Len(jobs)
    <3>1. PICK job \in Job : jobs' = [jobs EXCEPT ![c] = job]
      BY <2>1 DEF Moved
    <3> QED
      BY <1>0, <3>1 DEF TypeOK
  <2> QED
    BY <1>0, <2>1, <2>5, <2>6 DEF TypeOK, LiveHead, Moved
<1>6. ASSUME NEW batch \in Batches, NEW rules \in RuleFiles, Enqueue(batch, rules)
      PROVE  TypeOK'
  <2>1. LiveHead \in Nat
    BY <1>0, Has
  <2>2. [pc |-> "comparing", of |-> LiveHead, rules |-> rules, batch |-> batch,
         live |-> 0, outcome |-> "none", published |-> "none"] \in Entry
    BY <2>1 DEF Entry, EntryPcs, Outcomes
  <2> QED
    BY <1>0, <1>6, <2>2 DEF TypeOK, Enqueue, LiveHead
<1>7. ASSUME NEW e \in DOMAIN entries, EntryStep(e)
      PROVE  TypeOK'
  <2>1. entries[e] \in Entry /\ LiveHead \in Nat
    BY <1>0, Has
  <2>2. PICK x \in Entry : entries' = [entries EXCEPT ![e] = x]
    <3>1. CASE CompareEntry(e)
      BY <2>1, <3>1 DEF CompareEntry, Entry, EntryPcs, Outcomes
    <3>2. CASE ReadClearance(e)
      <4>1. \A x, y : QueueVerdict(x, y) \in Outcomes
        BY DEF QueueVerdict, Outcomes
      <4> QED
        BY <2>1, <3>2, <4>1 DEF ReadClearance, Entry, EntryPcs
    <3>3. CASE PublishOutcome(e)
      BY <2>1, <3>3 DEF PublishOutcome, Entry, EntryPcs
    <3> QED
      BY <1>7, <3>1, <3>2, <3>3 DEF EntryStep
  <2>3. UNCHANGED <<changes, lists, referral, clearance, verdicts, comments, jobs>>
    BY <1>7 DEF EntryStep, CompareEntry, ReadClearance, PublishOutcome
  <2>4. entries' \in Seq(Entry)
    BY <1>0, <2>2 DEF TypeOK
  <2> QED
    BY <1>0, <2>3, <2>4 DEF TypeOK, LiveHead
<1> QED
  BY <1>1, <1>2, <1>3, <1>4, <1>5, <1>6, <1>7 DEF Next

-----------------------------------------------------------------------------
(***************************************************************************)
(* What no step takes back: a push, a comment and a published verdict stay, *)
(* and a revision once cleared keeps a clearance.                           *)
(***************************************************************************)
Grown ==
    /\ lists' = lists
    /\ LiveHead <= LiveHead' /\ \A h \in 1..LiveHead : changes'[h] = changes[h]
    /\ \A c \in DOMAIN jobs : c \in DOMAIN jobs' /\ comments'[c] = comments[c]
    /\ \A h \in Heads : /\ Len(verdicts[h]) <= Len(verdicts'[h])
                        /\ \A i \in 1..Len(verdicts[h]) : verdicts'[h][i] = verdicts[h][i]
    /\ \A h \in Heads : clearance[h].by # 0 => clearance'[h].by # 0

LEMMA Growth == IInv /\ [Next]_vars => Grown
<1> SUFFICES ASSUME IInv, [Next]_vars PROVE Grown
  OBVIOUS
<1>0. /\ LiveHead \in Nat /\ DOMAIN comments = DOMAIN jobs
      /\ \A h \in Heads : verdicts[h] \in Seq(States) /\ Len(verdicts[h]) \in Nat
      /\ changes \in Seq(Carried) /\ jobs \in Seq(Job) /\ comments \in Seq(Comment)
      /\ verdicts \in [Heads -> Seq(States)]
  BY Has DEF IInv, TypeOK
<1>1. CASE UNCHANGED vars
  BY <1>0, <1>1 DEF vars, LiveHead, Grown
<1>2. ASSUME NEW change \in Changes, NEW rules \in RuleFiles, Push(change, rules)
      PROVE  Grown
  BY <1>0, <1>2 DEF Push, LiveHead, Grown
<1>3. ASSUME NEW h \in Heads, NEW scanned \in BOOLEAN, NEW compared \in BOOLEAN,
             NEW ofTheSecond \in BOOLEAN, PublishReferral(h, scanned, compared, ofTheSecond)
      PROVE  Grown
  <2>1. UNCHANGED <<changes, lists, clearance, comments, jobs, entries>>
    BY <1>3 DEF PublishReferral
  <2>2. PICK state : verdicts' = [verdicts EXCEPT ![h] = Append(@, state)]
    BY <1>3 DEF PublishReferral
  <2>3. \A s \in Seq(States) : Len(s) \in Nat /\ Len(s) <= Len(Append(s, state))
                                /\ \A i \in 1..Len(s) : Append(s, state)[i] = s[i]
    OBVIOUS
  <2>4. ASSUME NEW g \in Heads
        PROVE  /\ Len(verdicts[g]) <= Len(verdicts'[g])
               /\ \A i \in 1..Len(verdicts[g]) : verdicts'[g][i] = verdicts[g][i]
    BY <1>0, <2>2, <2>3
  <2> QED
    BY <1>0, <2>1, <2>4 DEF LiveHead, Grown
<1>4. ASSUME NEW cmd \in Commands, WriteComment(cmd)
      PROVE  Grown
  <2>1. UNCHANGED <<changes, lists, clearance, verdicts>>
    BY <1>4 DEF WriteComment
  <2>2. PICK comment, job : comments' = Append(comments, comment) /\ jobs' = Append(jobs, job)
    BY <1>4 DEF WriteComment
  <2>3. \A c \in DOMAIN jobs : c \in DOMAIN jobs' /\ comments'[c] = comments[c]
    BY <1>0, <2>2
  <2> QED
    BY <1>0, <2>1, <2>3 DEF LiveHead, Grown
<1>5. ASSUME NEW c \in DOMAIN jobs, JobStep(c)
      PROVE  Grown
  <2>1. /\ Moved(c)
        /\ \/ UNCHANGED <<referral, clearance>>
           \/ PostsClearing(c)
           \/ PostsResolution(c)
    BY <1>5, JobMoves
  <2>2. DOMAIN jobs' = DOMAIN jobs /\ c # 0
    BY <1>0, <2>1 DEF Moved
  <2>3. \A h \in Heads : clearance[h].by # 0 => clearance'[h].by # 0
    <3>1. CASE UNCHANGED clearance
      BY <3>1
    <3>2. CASE PostsClearing(c)
      <4>1. clearance \in [Heads -> Clearing]
        BY DEF IInv, TypeOK
      <4> QED
        BY <2>2, <3>2, <4>1 DEF PostsClearing
    <3> QED
      BY <2>1, <3>1, <3>2 DEF PostsResolution
  <2> QED
    BY <1>0, <2>1, <2>2, <2>3 DEF Moved, LiveHead, Grown
<1>6. ASSUME NEW batch \in Batches, NEW rules \in RuleFiles, Enqueue(batch, rules)
      PROVE  Grown
  BY <1>0, <1>6 DEF Enqueue, LiveHead, Grown
<1>7. ASSUME NEW e \in DOMAIN entries, EntryStep(e)
      PROVE  Grown
  <2>1. UNCHANGED <<changes, lists, clearance, verdicts, comments, jobs>>
    BY <1>7 DEF EntryStep, CompareEntry, ReadClearance, PublishOutcome
  <2> QED
    BY <1>0, <2>1 DEF LiveHead, Grown
<1> QED
  BY <1>1, <1>2, <1>3, <1>4, <1>5, <1>6, <1>7 DEF Next

(***************************************************************************)
(* A job moves alone, and no other step moves one.                          *)
(***************************************************************************)
LEMMA JobsMove ==
  ASSUME IInv, [Next]_vars, NEW d \in DOMAIN jobs
  PROVE  \/ jobs'[d] = jobs[d] \/ JobStep(d)
<1>0. jobs \in Seq(Job) /\ DOMAIN jobs = 1..Len(jobs) /\ Len(jobs) \in Nat
  BY DEF IInv, TypeOK
<1>1. CASE UNCHANGED vars
  BY <1>1 DEF vars
<1>2. ASSUME NEW change \in Changes, NEW rules \in RuleFiles, Push(change, rules)
      PROVE  jobs' = jobs
  BY <1>2 DEF Push
<1>3. ASSUME NEW h \in Heads, NEW scanned \in BOOLEAN, NEW compared \in BOOLEAN,
             NEW ofTheSecond \in BOOLEAN, PublishReferral(h, scanned, compared, ofTheSecond)
      PROVE  jobs' = jobs
  BY <1>3 DEF PublishReferral
<1>4. ASSUME NEW cmd \in Commands, WriteComment(cmd)
      PROVE  jobs'[d] = jobs[d]
  <2>1. PICK job : jobs' = Append(jobs, job)
    BY <1>4 DEF WriteComment
  <2> QED
    BY <1>0, <2>1
<1>5. ASSUME NEW c \in DOMAIN jobs, JobStep(c), c # d
      PROVE  jobs'[d] = jobs[d]
  <2>1. jobs' = [jobs EXCEPT ![c] = jobs'[c]]
    BY <1>5, JobMoves DEF Moved
  <2> QED
    BY <1>5, <2>1
<1>6. ASSUME NEW batch \in Batches, NEW rules \in RuleFiles, Enqueue(batch, rules)
      PROVE  jobs' = jobs
  BY <1>6 DEF Enqueue
<1>7. ASSUME NEW e \in DOMAIN entries, EntryStep(e)
      PROVE  jobs' = jobs
  BY <1>7 DEF EntryStep, CompareEntry, ReadClearance, PublishOutcome
<1> QED
  BY <1>1, <1>2, <1>3, <1>4, <1>5, <1>6, <1>7 DEF Next

(***************************************************************************)
(* A job that was told to clear stays told, on its revision and with its    *)
(* fingerprint, and one that finished stays finished.                       *)
(***************************************************************************)
Settled ==
    \A c \in DOMAIN jobs : jobs[c].answer = "clear" =>
      /\ c \in DOMAIN jobs' /\ jobs'[c].answer = "clear"
      /\ jobs'[c].head = jobs[c].head /\ jobs'[c].print = jobs[c].print
      /\ jobs[c].pc = "done" => jobs'[c].pc = "done"
      /\ ~lists.relayed /\ jobs[c].pc = "replying" => jobs'[c].pc \in {"replying", "done"}

LEMMA Settling == IInv /\ [Next]_vars => Settled
<1> SUFFICES ASSUME IInv, [Next]_vars, NEW c \in DOMAIN jobs, jobs[c].answer = "clear"
             PROVE  /\ c \in DOMAIN jobs' /\ jobs'[c].answer = "clear"
                    /\ jobs'[c].head = jobs[c].head /\ jobs'[c].print = jobs[c].print
                    /\ jobs[c].pc = "done" => jobs'[c].pc = "done"
                    /\ ~lists.relayed /\ jobs[c].pc = "replying" =>
                         jobs'[c].pc \in {"replying", "done"}
  BY DEF Settled
<1> DEFINE j == jobs[c]
           k == jobs'[c]
<1>1. c \in DOMAIN jobs'
  BY Growth DEF Grown
<1>2. j \in Job /\ jobs \in Seq(Job) /\ j.pc \notin {"resolving head", "reading referral"}
  BY Has DEF IInv, TypeOK, JobInv, Looking
<1>3. CASE k = j
  BY <1>1, <1>3
<1>4. CASE JobStep(c)
  <2>1. PICK pc, looked :
          /\ k = [j EXCEPT !.pc = pc, !.looked = looked]
          /\ j.pc # "done"
          /\ ~lists.relayed /\ j.pc = "replying" => pc = "done"
    <3>1. CASE PostClearance(c) \/ PostResolution(c) \/ RelayWritesClearance(c)
                 \/ RelayWritesResolution(c)
      <4>1. \E pc : k = [j EXCEPT !.pc = pc]
        BY <1>2, <3>1
           DEF PostClearance, PostResolution, RelayWritesClearance, RelayWritesResolution
      <4>2. PICK pc : k = [j EXCEPT !.pc = pc]
        BY <4>1
      <4>3. k = [j EXCEPT !.pc = pc, !.looked = j.looked]
        BY <1>2, <4>2 DEF Job
      <4>4. j.pc # "done" /\ j.pc # "replying"
        BY <3>1 DEF PostClearance, PostResolution, RelayWritesClearance, RelayWritesResolution
      <4> QED
        BY <4>3, <4>4
    <3>2. CASE Reply(c)
      <4>1. /\ j.pc = "replying"
            /\ k = [j EXCEPT !.pc = IF lists.relayed /\ j.answer = "clear"
                                      THEN "submitting" ELSE "done"]
        BY <1>2, <3>2 DEF Reply
      <4>2. k = [j EXCEPT !.pc = IF lists.relayed /\ j.answer = "clear"
                                   THEN "submitting" ELSE "done", !.looked = j.looked]
        BY <1>2, <4>1 DEF Job
      <4> QED
        BY <4>1, <4>2
    <3>3. CASE RelayReads(c)
      <4>1. j.pc # "done" /\ j.pc # "replying"
        BY <3>3 DEF RelayReads
      <4>2. \E pc, looked : k = [j EXCEPT !.pc = pc, !.looked = looked]
        BY <1>2, <3>3 DEF RelayReads
      <4> QED
        BY <4>1, <4>2
    <3> QED
      BY <1>2, <1>4, <3>1, <3>2, <3>3 DEF JobStep, ResolveHead, ReadReferralAndDecide
  <2>2. k.answer = j.answer /\ k.head = j.head /\ k.print = j.print /\ k.pc = pc
    BY <1>2, <2>1 DEF Job
  <2> QED
    BY <1>1, <2>1, <2>2
<1> QED
  BY <1>3, <1>4, JobsMove

(***************************************************************************)
(* Every step keeps the jobs' part of the invariant.                        *)
(***************************************************************************)
LEMMA JobKept ==
  ASSUME IInv, [Next]_vars, NEW d \in DOMAIN jobs, jobs'[d] = jobs[d]
  PROVE  JobInv(d)'
<1> DEFINE j == jobs[d]
           h == j.head
<1>1. /\ JobInv(d) /\ j \in Job /\ LiveHead \in Nat /\ Grown /\ LiveHead' \in Nat
  BY Has, Growth, TypeStep DEF IInv, TypeOK, LiveHead
<1>2. h \in 1..LiveHead => h \in Heads /\ Len(verdicts[h]) \in Nat /\ Len(verdicts'[h]) \in Nat
  BY Has, TypeStep DEF IInv, TypeOK
<1>3. LiveHead > 0 => LiveHead' > 0 /\ (h \in 1..LiveHead => h \in 1..LiveHead')
  BY <1>1 DEF Grown, Job
<1>4. ASSUME j.answer = "clear" PROVE Clears(d)'
  <2>1. Clears(d) /\ h \in 1..LiveHead
    BY <1>1, <1>4 DEF JobInv, Looking
  <2>2. comments'[d] = comments[d]
    BY <1>1 DEF Grown
  <2>3. /\ Len(verdicts[h]) <= Len(verdicts'[h])
        /\ \A i \in 1..Len(verdicts[h]) : verdicts'[h][i] = verdicts[h][i]
    BY <1>1, <1>2, <2>1 DEF Grown
  <2>4. \A n \in 1..Len(verdicts[h]) : n \in 1..Len(verdicts'[h])
    BY <1>2, <2>1, <2>3
  <2> QED
    BY <2>1, <2>2, <2>3, <2>4 DEF Clears
<1>5. j.pc \in Landed => clearance'[h].by # 0
  <2>1. j.pc \in Landed => clearance[h].by # 0 /\ h \in Heads
    BY <1>1, <1>2 DEF JobInv, Landed
  <2> QED
    BY <1>1, <2>1 DEF Grown
<1> QED
  BY <1>1, <1>3, <1>4, <1>5 DEF JobInv, Grown

LEMMA JobsStep == IInv /\ [Next]_vars => \A c \in DOMAIN jobs' : JobInv(c)'
<1> SUFFICES ASSUME IInv, [Next]_vars, NEW c \in DOMAIN jobs' PROVE JobInv(c)'
  OBVIOUS
<1>1. CASE c \in DOMAIN jobs
  BY <1>1, JobsMove, JobKept, JobMoves
<1>2. CASE c \notin DOMAIN jobs
  <2>0. jobs \in Seq(Job) /\ DOMAIN jobs = 1..Len(jobs) /\ Len(jobs) \in Nat
    BY DEF IInv, TypeOK
  <2>1. PICK cmd \in Commands : WriteComment(cmd)
    <3>1. \A d \in DOMAIN jobs : JobStep(d) => DOMAIN jobs' = DOMAIN jobs
      BY JobMoves DEF Moved
    <3> QED
      BY <1>2, <3>1 DEF Next, vars, Push, PublishReferral, Enqueue, EntryStep, CompareEntry,
                        ReadClearance, PublishOutcome
  <2> DEFINE job == [pc |-> "resolving head", head |-> 0, decided |-> 0, looked |-> 0,
                     print |-> NoPrint, answer |-> "none"]
  <2>2. jobs' = Append(jobs, job) /\ job.pc = "resolving head" /\ job.answer = "none"
    BY <2>1 DEF WriteComment
  <2>3. jobs'[c].pc = "resolving head" /\ jobs'[c].answer = "none"
    <3> HIDE DEF job
    <3>1. DOMAIN jobs' = 1..(Len(jobs) + 1) /\ jobs'[Len(jobs) + 1] = job
      <4>1. \A q \in Seq(Job) : \A x : /\ DOMAIN Append(q, x) = 1..(Len(q) + 1)
                                       /\ Append(q, x)[Len(q) + 1] = x
        OBVIOUS
      <4> QED
        BY <2>0, <2>2, <4>1
    <3>2. c = Len(jobs) + 1
      BY <1>2, <2>0, <3>1
    <3> QED
      BY <2>2, <3>1, <3>2
  <2>4. LiveHead' > 0
    BY <2>1 DEF WriteComment, LiveHead
  <2> QED
    BY <2>3, <2>4 DEF JobInv, Looking, Posting, Relaying, Landed
<1> QED
  BY <1>1, <1>2

-----------------------------------------------------------------------------
(***************************************************************************)
(* Every step keeps what the statuses of a revision say.                    *)
(***************************************************************************)
LEMMA StatusesMove ==
  ASSUME IInv, [Next]_vars
  PROVE  \/ UNCHANGED <<referral, clearance>>
         \/ \E h \in Heads, scanned \in BOOLEAN, compared \in BOOLEAN, ofTheSecond \in BOOLEAN :
              PublishReferral(h, scanned, compared, ofTheSecond)
         \/ \E c \in DOMAIN jobs : JobStep(c) /\ (PostsClearing(c) \/ PostsResolution(c))
  BY JobMoves DEF Next, vars, Push, WriteComment, Enqueue, EntryStep, CompareEntry,
                  ReadClearance, PublishOutcome

LEMMA PostedStep == IInv /\ [Next]_vars => \A h \in Heads : Posted(h)'
<1> SUFFICES ASSUME IInv, [Next]_vars, NEW h \in Heads PROVE Posted(h)'
  OBVIOUS
<1>0. /\ Posted(h) /\ Grown /\ Settled
      /\ referral \in [Heads -> Status] /\ clearance \in [Heads -> Clearing]
  BY Growth, Settling DEF IInv, TypeOK
<1>1. CASE clearance'[h] = clearance[h] /\ (referral'[h] = referral[h] \/ referral'[h].by = 0)
  <2>1. LET c == clearance[h].by IN
          c # 0 => /\ c \in DOMAIN jobs' /\ jobs'[c].answer = "clear" /\ jobs'[c].head = h
                   /\ jobs'[c].print = clearance[h].print
                   /\ clearance[h].app => lists'.relayed
    BY <1>0 DEF Posted, Settled, Grown
  <2>2. LET c == referral[h].by IN
          c # 0 => /\ c \in DOMAIN jobs' /\ jobs'[c].answer = "clear" /\ jobs'[c].head = h
                   /\ IF lists'.relayed THEN jobs'[c].pc = "done"
                                        ELSE jobs'[c].pc \in {"replying", "done"}
                   /\ clearance[h].by # 0
    BY <1>0 DEF Posted, Settled, Grown
  <2> QED
    BY <1>1, <2>1, <2>2 DEF Posted
<1>2. CASE \E g \in Heads, scanned \in BOOLEAN, compared \in BOOLEAN, ofTheSecond \in BOOLEAN :
              PublishReferral(g, scanned, compared, ofTheSecond)
  <2>1. /\ clearance' = clearance
        /\ \E g \in Heads : \E s : s.by = 0 /\ referral' = [referral EXCEPT ![g] = s]
    BY <1>2 DEF PublishReferral, Review
  <2> QED
    BY <1>0, <1>1, <2>1
<1>3. ASSUME NEW c \in DOMAIN jobs, JobStep(c), PostsClearing(c)
      PROVE  Posted(h)'
  <2>1. CASE jobs[c].head # h
    BY <1>0, <1>1, <1>3, <2>1 DEF PostsClearing
  <2>2. CASE jobs[c].head = h
    <3>1. /\ clearance'[h] = [by |-> c, app |-> lists.relayed, print |-> jobs[c].print]
          /\ referral' = referral /\ jobs[c].answer = "clear"
      BY <1>0, <1>3, <2>2 DEF PostsClearing
    <3>2. /\ c \in DOMAIN jobs' /\ jobs'[c].answer = "clear" /\ jobs'[c].head = h
          /\ jobs'[c].print = jobs[c].print /\ lists' = lists
      BY <1>0, <2>2, <3>1 DEF Settled, Grown
    <3>3. c # 0
      BY Has DEF IInv
    <3>4. LET d == referral[h].by IN
            d # 0 => /\ d \in DOMAIN jobs' /\ jobs'[d].answer = "clear" /\ jobs'[d].head = h
                     /\ IF lists'.relayed THEN jobs'[d].pc = "done"
                                          ELSE jobs'[d].pc \in {"replying", "done"}
      BY <1>0 DEF Posted, Settled, Grown
    <3> QED
      BY <3>1, <3>2, <3>3, <3>4 DEF Posted
  <2> QED
    BY <2>1, <2>2
<1>4. ASSUME NEW c \in DOMAIN jobs, JobStep(c), PostsResolution(c)
      PROVE  Posted(h)'
  <2>1. CASE jobs[c].head # h
    BY <1>0, <1>1, <1>4, <2>1 DEF PostsResolution
  <2>2. CASE jobs[c].head = h
    <3>1. /\ referral'[h].by = c /\ clearance' = clearance /\ clearance[h].by # 0
          /\ c \in DOMAIN jobs' /\ jobs'[c].answer = "clear" /\ jobs'[c].head = h
          /\ IF lists'.relayed THEN jobs'[c].pc = "done"
                               ELSE jobs'[c].pc \in {"replying", "done"}
      BY <1>0, <1>4, <2>2 DEF PostsResolution, Resolved, Grown
    <3>2. LET d == clearance[h].by IN
            d # 0 => /\ d \in DOMAIN jobs' /\ jobs'[d].answer = "clear" /\ jobs'[d].head = h
                     /\ jobs'[d].print = clearance[h].print
                     /\ clearance[h].app => lists'.relayed
      BY <1>0 DEF Posted, Settled, Grown
    <3> QED
      BY <3>1, <3>2 DEF Posted
  <2> QED
    BY <2>1, <2>2
<1> QED
  BY <1>1, <1>2, <1>3, <1>4, StatusesMove

LEMMA StatusStep == IInv /\ [Next]_vars => \A h \in Heads : StatusStands(h)'
<1> SUFFICES ASSUME IInv, [Next]_vars, NEW h \in Heads PROVE StatusStands(h)'
  OBVIOUS
<1>0. /\ StatusStands(h) /\ referral \in [Heads -> Status] /\ referral[h] \in Status
      /\ verdicts \in [Heads -> Seq(States)] /\ verdicts[h] \in Seq(States)
      /\ comments \in Seq(Comment) /\ Len(comments) \in Nat
      /\ DOMAIN comments = 1..Len(comments) /\ DOMAIN jobs = 1..Len(comments)
  BY Has DEF IInv, TypeOK
<1>1. CASE referral'[h] = referral[h] /\ verdicts'[h] = verdicts[h] /\ comments' = comments
  BY <1>0, <1>1 DEF StatusStands
<1>2. ASSUME NEW g \in Heads, NEW scanned \in BOOLEAN, NEW compared \in BOOLEAN,
             NEW ofTheSecond \in BOOLEAN, PublishReferral(g, scanned, compared, ofTheSecond)
      PROVE  StatusStands(h)'
  <2>1. CASE g # h
    <3>1. referral'[h] = referral[h] /\ verdicts'[h] = verdicts[h] /\ comments' = comments
      BY <1>0, <1>2, <2>1 DEF PublishReferral
    <3> QED
      BY <1>1, <3>1
  <2>2. CASE g = h
    <3> DEFINE after == Len(comments) - IF ofTheSecond THEN 1 ELSE 0
    <3>1. PICK state \in States :
            /\ verdicts' = [verdicts EXCEPT ![h] = Append(@, state)]
            /\ referral' = [referral EXCEPT ![h] =
                  [state |-> state, by |-> Review, after |-> after]]
            /\ comments' = comments
      <4>1. \A x : StateFor(x) \in States
        BY DEF StateFor, States
      <4> HIDE DEF after
      <4>2. \E x : /\ verdicts' = [verdicts EXCEPT ![h] = Append(@, StateFor(x))]
                   /\ referral' = [referral EXCEPT ![h] =
                         [state |-> StateFor(x), by |-> Review, after |-> after]]
        BY <1>2, <2>2 DEF PublishReferral, after
      <4> QED
        BY <1>2, <4>1, <4>2 DEF PublishReferral
    <3>2. /\ verdicts'[h] = Append(verdicts[h], state) /\ referral'[h].state = state
          /\ referral'[h].by = Review /\ referral'[h].after = after
      <4> HIDE DEF after
      <4> QED
        BY <1>0, <3>1
    <3>3. /\ verdicts'[h] # <<>> /\ verdicts'[h][Len(verdicts'[h])] = referral'[h].state
          /\ referral'[h].by = Review
          /\ ~SameSecond => referral'[h].after = Len(comments)
      <4>1. \A q \in Seq(States) : LET a == Append(q, state) IN a # <<>> /\ a[Len(a)] = state
        BY <3>1
      <4>2. ~SameSecond => ~ofTheSecond
        BY <1>2 DEF PublishReferral
      <4>3. ~SameSecond => after = Len(comments)
        BY <1>0, <4>2
      <4> QED
        <5> HIDE DEF after
        <5>1. verdicts'[h] # <<>> /\ verdicts'[h][Len(verdicts'[h])] = state
          BY <1>0, <3>2, <4>1
        <5> QED
          BY <3>2, <4>3, <5>1
    <3>4. ~SameSecond => \A c \in DOMAIN comments' :
            c > referral'[h].after => comments'[c].read[h] = Len(verdicts'[h])
      <4> SUFFICES ASSUME ~SameSecond, NEW c \in DOMAIN comments', c > referral'[h].after
                   PROVE  FALSE
        OBVIOUS
      <4>1. c \in 1..Len(comments) /\ c > Len(comments)
        BY <1>0, <3>1, <3>3
      <4> QED
        BY <1>0, <4>1
    <3> QED
      BY <3>3, <3>4 DEF StatusStands
  <2> QED
    BY <2>1, <2>2
<1>3. ASSUME NEW cmd \in Commands, WriteComment(cmd)
      PROVE  StatusStands(h)'
  <2>1. PICK comment :
          /\ comments' = Append(comments, comment) /\ comment.read[h] = Len(verdicts[h])
          /\ referral' = referral /\ verdicts' = verdicts
    BY <1>3 DEF WriteComment
  <2>2. /\ DOMAIN comments' = 1..(Len(comments) + 1)
        /\ \A c \in DOMAIN comments : comments'[c] = comments[c]
        /\ comments'[Len(comments) + 1] = comment
    BY <1>0, <2>1
  <2>3. \A c \in DOMAIN comments' : c \in DOMAIN comments \/ comments'[c].read[h] = Len(verdicts[h])
    BY <1>0, <2>1, <2>2
  <2> QED
    BY <1>0, <2>1, <2>2, <2>3 DEF StatusStands
<1>4. ASSUME NEW c \in DOMAIN jobs, JobStep(c)
      PROVE  StatusStands(h)'
  <2>1. /\ verdicts' = verdicts /\ comments' = comments
        /\ referral' = referral \/ PostsResolution(c)
    BY <1>4, JobMoves DEF Moved, PostsClearing
  <2>2. CASE referral'[h] = referral[h]
    BY <1>1, <2>1, <2>2
  <2>3. CASE PostsResolution(c) /\ jobs[c].head = h
    <3>1. referral'[h].state = "success" /\ referral'[h].by = c /\ c # Review
      BY <1>0, <2>3 DEF PostsResolution, Resolved, Review
    <3> QED
      BY <3>1 DEF StatusStands
  <2> QED
    BY <1>0, <2>1, <2>2, <2>3 DEF PostsResolution
<1>5. CASE UNCHANGED <<referral, verdicts, comments>>
  BY <1>1, <1>5
<1> QED
  BY <1>2, <1>3, <1>4, <1>5 DEF Next, vars, Push, Enqueue, EntryStep, CompareEntry,
                               ReadClearance, PublishOutcome

-----------------------------------------------------------------------------
(***************************************************************************)
(* An entry's decision is a function of the change it replays and of what   *)
(* it was queued with, none of which any step touches.                      *)
(***************************************************************************)
LEMMA DecisionStands ==
  ASSUME IInv, Grown, NEW e \in DOMAIN entries, entries[e].of \in 1..LiveHead,
         entries'[e].of = entries[e].of, entries'[e].rules = entries[e].rules,
         entries'[e].batch = entries[e].batch
  PROVE  QueuedDecision(e)' = QueuedDecision(e)
<1>1. changes'[entries[e].of] = changes[entries[e].of]
  BY DEF Grown
<1>2. QueuedChange(e)' = QueuedChange(e)
  BY <1>1 DEF QueuedChange
<1> QED
  BY <1>2 DEF QueuedDecision

LEMMA EarnedStands ==
  ASSUME IInv, Grown, Settled, NEW e \in DOMAIN entries, entries[e].of \in 1..LiveHead,
         entries'[e].of = entries[e].of, entries'[e].rules = entries[e].rules,
         entries'[e].batch = entries[e].batch, Earned(e)
  PROVE  Earned(e)'
<1>1. QueuedDecision(e)' = QueuedDecision(e)
  BY DecisionStands
<1>2. PICK c \in DOMAIN jobs :
        /\ jobs[c].answer = "clear" /\ lists.relayed
        /\ jobs[c].head = entries[e].of
        /\ jobs[c].print = Fingerprint(QueuedDecision(e))
  BY DEF Earned
<1>3. /\ c \in DOMAIN jobs' /\ jobs'[c].answer = "clear" /\ lists'.relayed
      /\ jobs'[c].head = entries'[e].of
      /\ jobs'[c].print = Fingerprint(QueuedDecision(e)')
  BY <1>1, <1>2 DEF Settled, Grown
<1>4. entries'[e].batch.paths = {} /\ ~entries'[e].batch.altered
  BY DEF Earned
<1> QED
  BY <1>3, <1>4 DEF Earned

(***************************************************************************)
(* A step moves one entry along, or none.                                   *)
(***************************************************************************)
LEMMA EntriesMove ==
  ASSUME IInv, [Next]_vars, NEW e \in DOMAIN entries
  PROVE  e \in DOMAIN entries' /\ (entries'[e] = entries[e] \/ EntryStep(e))
<1>0. entries \in Seq(Entry) /\ DOMAIN entries = 1..Len(entries) /\ Len(entries) \in Nat
  BY DEF IInv, TypeOK
<1>1. ASSUME NEW batch \in Batches, NEW rules \in RuleFiles, Enqueue(batch, rules)
      PROVE  e \in DOMAIN entries' /\ entries'[e] = entries[e]
  <2>1. PICK x : entries' = Append(entries, x)
    BY <1>1 DEF Enqueue
  <2> QED
    BY <1>0, <2>1
<1>2. ASSUME NEW f \in DOMAIN entries, EntryStep(f)
      PROVE  e \in DOMAIN entries' /\ (entries'[e] = entries[e] \/ EntryStep(e))
  <2>1. PICK x : entries' = [entries EXCEPT ![f] = x]
    BY <1>2 DEF EntryStep, CompareEntry, ReadClearance, PublishOutcome
  <2> QED
    BY <1>2, <2>1
<1>3. CASE UNCHANGED entries
  BY <1>3
<1> QED
  BY <1>1, <1>2, <1>3, JobMoves DEF Next, vars, Push, PublishReferral, WriteComment, Moved

LEMMA EntryStepKeeps ==
  ASSUME IInv, [Next]_vars, NEW e \in DOMAIN entries, EntryStep(e)
  PROVE  EntryInv(e)'
<1> DEFINE x == entries[e]
           y == entries'[e]
<1>0. /\ EntryInv(e) /\ x \in Entry /\ Grown /\ Settled /\ LiveHead \in Nat
      /\ entries \in Seq(Entry)
  BY Has, Growth, Settling DEF IInv, TypeOK
<1>1. /\ UNCHANGED <<changes, lists, referral, clearance, verdicts, comments, jobs>>
      /\ LiveHead' = LiveHead
  BY DEF EntryStep, CompareEntry, ReadClearance, PublishOutcome, LiveHead
<1>2. x.of \in 1..LiveHead
  BY <1>0 DEF EntryInv
<1>3. CASE CompareEntry(e)
  <2>1. /\ y.of = x.of /\ y.rules = x.rules /\ y.batch = x.batch /\ y.published = x.published
        /\ x.pc = "comparing" /\ y.live = LiveHead
        /\ y.outcome = "success" => ~QueuedDecision(e).referred
        /\ y.pc = "reading clearance" => OneChange(e)
    <3>1. y = [x EXCEPT
              !.live = LiveHead,
              !.outcome = IF ~QueuedDecision(e).referred THEN "success" ELSE "pending",
              !.pc = IF QueueTarget(lists, QueueClaims(e), 1, e) = Refused THEN "refused"
                     ELSE IF QueuedDecision(e).referred /\ OneChange(e) THEN "reading clearance"
                     ELSE "publishing"]
      BY <1>0, <1>3 DEF CompareEntry
    <3>2. x.pc = "comparing"
      BY <1>3 DEF CompareEntry
    <3> QED
      BY <1>0, <3>1, <3>2 DEF Entry
  <2>2. QueuedDecision(e)' = QueuedDecision(e)
    BY <1>0, <1>2, <2>1, DecisionStands
  <2>3. y.published # "success"
    BY <1>0, <2>1 DEF EntryInv
  <2>4. y.pc = "reading clearance" => y.live = y.of /\ y.batch.paths = {} /\ ~y.batch.altered
    BY <2>1 DEF OneChange
  <2> QED
    BY <1>1, <1>2, <2>1, <2>2, <2>3, <2>4 DEF EntryInv
<1>4. CASE ReadClearance(e)
  <2> DEFINE cleared == clearance[x.live]
             print == Fingerprint(QueuedDecision(e))
  <2>1. /\ y.of = x.of /\ y.rules = x.rules /\ y.batch = x.batch /\ y.published = x.published
        /\ x.pc = "reading clearance" /\ y.pc = "publishing"
        /\ y.outcome = QueueVerdict(cleared, print)
    <3>1. y = [x EXCEPT !.outcome = QueueVerdict(cleared, print), !.pc = "publishing"]
      BY <1>0, <1>4 DEF ReadClearance
    <3>2. x.pc = "reading clearance"
      BY <1>4 DEF ReadClearance
    <3> HIDE DEF cleared, print
    <3> QED
      BY <1>0, <3>1, <3>2 DEF Entry
  <2>2. QueuedDecision(e)' = QueuedDecision(e)
    BY <1>0, <1>2, <2>1, DecisionStands
  <2>3. x.live = x.of /\ x.batch.paths = {} /\ ~x.batch.altered /\ x.published # "success"
    BY <1>0, <2>1 DEF EntryInv
  <2>4. ASSUME y.outcome = "success" PROVE Earned(e)
    <3>1. cleared.by # 0 /\ cleared.app /\ cleared.print = print
      BY <2>1, <2>4 DEF QueueVerdict
    <3>2. Posted(x.of) /\ x.live = x.of
      BY <1>2, <2>3, Has DEF IInv
    <3>3. LET c == cleared.by
          IN  /\ c \in DOMAIN jobs /\ jobs[c].answer = "clear" /\ jobs[c].head = x.of
              /\ jobs[c].print = print /\ lists.relayed
      BY <3>1, <3>2 DEF Posted
    <3> QED
      BY <2>3, <3>3 DEF Earned
  <2>5. y.outcome = "success" => Earned(e)'
    BY <1>0, <1>2, <2>1, <2>4, EarnedStands
  <2> QED
    BY <1>1, <1>2, <2>1, <2>3, <2>5 DEF EntryInv
<1>5. CASE PublishOutcome(e)
  <2>1. /\ y.of = x.of /\ y.rules = x.rules /\ y.batch = x.batch /\ y.outcome = x.outcome
        /\ y.published = x.outcome /\ y.pc = "done"
    <3>1. y = [x EXCEPT !.published = x.outcome, !.pc = "done"]
      BY <1>0, <1>5 DEF PublishOutcome
    <3> QED
      BY <1>0, <3>1 DEF Entry
  <2>2. QueuedDecision(e)' = QueuedDecision(e)
    BY <1>0, <1>2, <2>1, DecisionStands
  <2>3. x.outcome = "success" /\ QueuedDecision(e).referred => Earned(e)'
    BY <1>0, <1>2, <2>1, EarnedStands DEF EntryInv
  <2> QED
    BY <1>1, <1>2, <2>1, <2>2, <2>3 DEF EntryInv
<1> QED
  BY <1>3, <1>4, <1>5 DEF EntryStep

LEMMA EntriesStep == IInv /\ [Next]_vars => \A e \in DOMAIN entries' : EntryInv(e)'
<1> SUFFICES ASSUME IInv, [Next]_vars, NEW e \in DOMAIN entries' PROVE EntryInv(e)'
  OBVIOUS
<1>0. Grown /\ Settled /\ LiveHead \in Nat /\ LiveHead' \in Nat
  BY Growth, Settling, Has, TypeStep DEF IInv, TypeOK, LiveHead
<1>1. CASE e \in DOMAIN entries /\ entries'[e] = entries[e]
  <2>1. EntryInv(e) /\ entries[e].of \in 1..LiveHead
    BY <1>1 DEF IInv, EntryInv
  <2>2. QueuedDecision(e)' = QueuedDecision(e)
    BY <1>0, <1>1, <2>1, DecisionStands
  <2>3. Earned(e) => Earned(e)'
    BY <1>0, <1>1, <2>1, EarnedStands
  <2>4. entries'[e].of \in 1..LiveHead'
    BY <1>0, <1>1, <2>1 DEF Grown
  <2> QED
    BY <1>1, <2>1, <2>2, <2>3, <2>4 DEF EntryInv
<1>2. CASE e \in DOMAIN entries /\ EntryStep(e)
  BY <1>2, EntryStepKeeps
<1>3. CASE e \notin DOMAIN entries
  <2>0. entries \in Seq(Entry) /\ DOMAIN entries = 1..Len(entries) /\ Len(entries) \in Nat
    BY DEF IInv, TypeOK
  <2>1. PICK batch \in Batches, rules \in RuleFiles : Enqueue(batch, rules)
    <3>1. \A c \in DOMAIN jobs : JobStep(c) => UNCHANGED entries
      BY JobMoves DEF Moved
    <3>2. \A f \in DOMAIN entries : EntryStep(f) => DOMAIN entries' = DOMAIN entries
      BY DEF EntryStep, CompareEntry, ReadClearance, PublishOutcome
    <3> QED
      BY <1>3, <3>1, <3>2 DEF Next, vars, Push, PublishReferral, WriteComment
  <2> DEFINE x == [pc |-> "comparing", of |-> LiveHead, rules |-> rules, batch |-> batch,
                   live |-> 0, outcome |-> "none", published |-> "none"]
  <2>2. /\ entries' = Append(entries, x) /\ LiveHead > 0
        /\ x.pc = "comparing" /\ x.of = LiveHead /\ x.outcome = "none" /\ x.published = "none"
    BY <2>1 DEF Enqueue
  <2> HIDE DEF x
  <2>3. entries'[e] = x
    <3>1. \A q \in Seq(Entry) : \A z : /\ DOMAIN Append(q, z) = 1..(Len(q) + 1)
                                       /\ Append(q, z)[Len(q) + 1] = z
      OBVIOUS
    <3>2. DOMAIN entries' = 1..(Len(entries) + 1) /\ entries'[Len(entries) + 1] = x
      BY <2>0, <2>2, <3>1
    <3>3. e = Len(entries) + 1
      BY <1>3, <2>0, <3>2
    <3> QED
      BY <3>2, <3>3
  <2>4. LiveHead \in 1..LiveHead'
    BY <1>0, <2>2 DEF Grown
  <2> QED
    BY <2>2, <2>3, <2>4 DEF EntryInv
<1> QED
  BY <1>1, <1>2, <1>3, EntriesMove

-----------------------------------------------------------------------------
LEMMA StepInv == IInv /\ [Next]_vars => IInv'
<1> SUFFICES ASSUME IInv, [Next]_vars PROVE IInv'
  OBVIOUS
<1>1. TypeOK'
  BY TypeStep
<1>2. \A h \in Heads : StatusStands(h)' /\ Posted(h)'
  BY StatusStep, PostedStep
<1>3. \A c \in DOMAIN jobs' : JobInv(c)'
  BY JobsStep
<1>4. \A e \in DOMAIN entries' : EntryInv(e)'
  BY EntriesStep
<1> QED
  BY <1>1, <1>2, <1>3, <1>4 DEF IInv, Heads

(***************************************************************************)
(* The inductive invariant holds of every behaviour.                        *)
(***************************************************************************)
THEOREM Invariance == Spec => []IInv
<1> QED
  BY InitInv, StepInv, PTL DEF Spec

(***************************************************************************)
(* Every status, comment, job and entry has its type, for every value of    *)
(* the constants.                                                           *)
(***************************************************************************)
THEOREM TypeCorrect == Spec => []TypeOK
<1>1. IInv => TypeOK
  BY DEF IInv
<1> QED
  BY <1>1, Invariance, PTL

(***************************************************************************)
(* No revision's referral is resolved by a comment before the revision has  *)
(* a clearance that says who cleared it, by either route.                   *)
(***************************************************************************)
THEOREM RecordComesFirst == Spec => []RecordBeforeResolution
<1>1. IInv => RecordBeforeResolution
  BY DEF IInv, Posted, RecordBeforeResolution, Review
<1> QED
  BY <1>1, Invariance, PTL

(***************************************************************************)
(* Whoever resolved a referral last saw it pending, whatever reviews,       *)
(* pushes and other comments ran meanwhile.                                 *)
(***************************************************************************)
THEOREM ResolutionsWerePending == Spec => []ResolvedWasPending
<1>1. IInv => ResolvedWasPending
  <2> SUFFICES ASSUME IInv, NEW h \in Heads, referral[h].by # Review
               PROVE  LET c == referral[h].by IN
                        jobs[c].looked > 0 /\ verdicts[h][jobs[c].looked] = "pending"
    BY DEF ResolvedWasPending
  <2> DEFINE c == referral[h].by
  <2>1. /\ c \in DOMAIN jobs /\ jobs[c].answer = "clear" /\ jobs[c].head = h
        /\ jobs[c].pc # "refused"
    BY DEF IInv, Posted, Review
  <2>2. jobs[c].looked \in 1..Len(verdicts[h]) /\ verdicts[h][jobs[c].looked] = "pending"
    BY <2>1 DEF IInv, JobInv, Clears
  <2> QED
    BY <2>2, Has DEF IInv
<1> QED
  BY <1>1, Invariance, PTL

(***************************************************************************)
(* A queue entry that refers and merges was cleared by a writer, through    *)
(* the App, for the very reasons its own tree refers for.                   *)
(***************************************************************************)
THEOREM QueueSuccessesAreEarned == Spec => []QueueSuccessEarned
<1>1. IInv => QueueSuccessEarned
  <2> SUFFICES ASSUME IInv, NEW e \in DOMAIN entries, entries[e].published = "success",
                      QueuedDecision(e).referred
               PROVE  /\ entries[e].batch.paths = {} /\ ~entries[e].batch.altered
                      /\ \E c \in DOMAIN comments :
                           /\ comments[c].cmd.writer /\ comments[c].cmd.verb = "clear"
                           /\ lists.relayed /\ jobs[c].head = entries[e].of
                           /\ jobs[c].print = Fingerprint(QueuedDecision(e))
    BY DEF QueueSuccessEarned
  <2>1. Earned(e)
    BY DEF IInv, EntryInv
  <2>2. PICK c \in DOMAIN jobs :
          /\ jobs[c].answer = "clear" /\ lists.relayed
          /\ jobs[c].head = entries[e].of
          /\ jobs[c].print = Fingerprint(QueuedDecision(e))
    BY <2>1 DEF Earned
  <2>3. c \in DOMAIN comments /\ comments[c].cmd.writer /\ comments[c].cmd.verb = "clear"
    BY <2>2, Has DEF IInv, JobInv, Clears
  <2> QED
    BY <2>1, <2>2, <2>3 DEF Earned
<1> QED
  BY <1>1, Invariance, PTL

(***************************************************************************)
(* Where no verdict lands in the second of a comment, a clearance stands    *)
(* on a verdict its author could have read, or on the revision they named.  *)
(***************************************************************************)
THEOREM ClearancesWereRead == ASSUME ~SameSecond PROVE Spec => []ClearedWasRead
<1>1. IInv => ClearedWasRead
  <2> SUFFICES ASSUME IInv, NEW h \in Heads, clearance[h].by # 0
               PROVE  LET c == clearance[h].by IN
                        \/ comments[c].cmd.sha = h
                        \/ jobs[c].decided \in 1..comments[c].read[h]
    BY DEF ClearedWasRead
  <2> DEFINE c == clearance[h].by
  <2>1. c \in DOMAIN jobs /\ jobs[c].answer = "clear" /\ jobs[c].head = h
    BY DEF IInv, Posted
  <2>2. /\ jobs[c].decided \in 1..Len(verdicts[h])
        /\ comments[c].cmd.sha = h \/ jobs[c].decided <= comments[c].read[h]
    BY <2>1 DEF IInv, JobInv, Clears
  <2>3. comments[c].read[h] \in Nat /\ Len(verdicts[h]) \in Nat
    BY <2>1, Has DEF IInv, Comment
  <2> QED
    BY <2>2, <2>3
<1> QED
  BY <1>1, Invariance, PTL
=============================================================================
