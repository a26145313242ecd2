----------------------------- MODULE Clearance -----------------------------
(***************************************************************************)
(* A referral and the clearance that resolves it, across one pull request: *)
(* pushes and reviews, people's comments, the job that answers each        *)
(* comment (internal/flows/clearance), the relay it may post through       *)
(* (pr-relay), and the merge-queue entries a clearance is carried onto     *)
(* (internal/flows/queue). Every one of them reads the platform, decides,  *)
(* and writes a moment later, with no lock and no conditional write.       *)
(*                                                                         *)
(* A revision is its number on the pull request; statuses are keyed by     *)
(* revision and the latest one under a context stands.                     *)
(***************************************************************************)
EXTENDS Referral, RelayRules, Sequences, Functions

CONSTANTS MaxHead,       \* revisions pushed (bound)
          MaxPosts,      \* verdicts the reviews publish, over all revisions (bound)
          MaxComments,   \* comments written (bound)
          MaxEntries,    \* queue entries (bound)
          Changes,       \* the changes a push may carry
          RuleFiles,     \* the exemptions files the base may declare
          Commands,      \* the comments people write: a verb, the revision named
                         \* (0 for none) and whether the author may write
          Batches,       \* what an entry's tree holds beside the head
          SameSecond     \* may a verdict be posted in the second of a comment?

ASSUME ClearanceAssumption ==
    /\ {MaxHead, MaxPosts, MaxComments, MaxEntries} \subseteq Nat
    /\ RuleFiles \subseteq SUBSET Exemption
    /\ SameSecond \in BOOLEAN
    /\ Commands \subseteq [verb : {"clear", "exempt", "explain", "unknown", "none"},
                           sha : 0..MaxHead, writer : BOOLEAN]

VARIABLES changes,    \* the change each revision carries, and the rules it forked from
          lists,      \* the relay's allowlists, and whether clearances are relayed
          referral,   \* lydite/referral, by revision
          clearance,  \* lydite/clearance, by revision
          verdicts,   \* history: the verdicts reviews published, by revision
          comments,   \* the comments, in the order they were written
          jobs,       \* the clearance job answering each
          entries     \* the merge-queue entries, in order

vars == <<changes, lists, referral, clearance, verdicts, comments, jobs, entries>>

Heads == 1..MaxHead
LiveHead == Len(changes)
Review == 0                          \* who posts a verdict; a comment's job is its number
NoStatus == [state |-> "none", by |-> Review, after |-> 0]
NoClearance == [by |-> 0, app |-> FALSE, print |-> <<>>]
NoPrint == <<>>

(* The claims each job's token carries; the pull request is number 1.      *)
ClearanceClaims == [workflow |-> "clearance.yml", event |-> "issue_comment",
                    ref |-> [kind |-> "branch", pull |-> 0]]
QueueClaims(e) == [workflow |-> "queue.yml", event |-> "merge_group", sha |-> e,
                   ref |-> [kind |-> "queue", pull |-> 1]]
Deployments ==
    [referral : {{"referral.yml"}}, clearance : {{"clearance.yml"}},
     queue : {{"queue.yml"}}, relayed : BOOLEAN]

-----------------------------------------------------------------------------
(* The decision on a comment (internal/clearance.Decide): every refusal in *)
(* the order it is checked, and what is left clears or proposes.           *)

\* Mutation: a verdict newer than the comment is decided on like any other.
DecideCommentUnordered(c, head, status, derived, uncovered) ==
    LET cmd == comments[c].cmd
    IN  IF cmd.verb = "none"                            THEN "ignore"
        ELSE IF ~cmd.writer                             THEN "not permitted"
        ELSE IF cmd.verb = "unknown"                    THEN "unknown verb"
        ELSE IF cmd.verb = "explain"                    THEN "explain"
        ELSE IF cmd.sha # 0 /\ cmd.sha # head           THEN "stale sha"
        ELSE IF status.state = "none"                   THEN "no status"
        ELSE IF status.state = "success"                THEN "already passing"
        ELSE IF status.state # "pending"                THEN "not referred"
        ELSE IF cmd.verb = "clear"                      THEN "clear"
        ELSE IF ~derived                                THEN "could not derive"
        ELSE IF uncovered = {}                          THEN "nothing to propose"
        ELSE "exempt"

DecideComment(c, head, status, derived, uncovered) ==
    LET cmd == comments[c].cmd
    IN  IF cmd.verb = "none"                            THEN "ignore"
        ELSE IF ~cmd.writer                             THEN "not permitted"
        ELSE IF cmd.verb = "unknown"                    THEN "unknown verb"
        ELSE IF cmd.verb = "explain"                    THEN "explain"
        ELSE IF cmd.sha # 0 /\ cmd.sha # head           THEN "stale sha"
        ELSE IF status.state = "none"                   THEN "no status"
        ELSE IF cmd.sha = 0 /\ status.after >= c        THEN "head moved"
        ELSE IF status.state = "success"                THEN "already passing"
        ELSE IF status.state # "pending"                THEN "not referred"
        ELSE IF cmd.verb = "clear"                      THEN "clear"
        ELSE IF ~derived                                THEN "could not derive"
        ELSE IF uncovered = {}                          THEN "nothing to propose"
        ELSE "exempt"

-----------------------------------------------------------------------------
Init ==
    /\ changes = <<>>
    /\ lists \in Deployments
    /\ referral = [h \in Heads |-> NoStatus]
    /\ clearance = [h \in Heads |-> NoClearance]
    /\ verdicts = [h \in Heads |-> <<>>]
    /\ comments = <<>>
    /\ jobs = <<>>
    /\ entries = <<>>

(* A push: its merge-base with the base branch fixes the exemptions it is   *)
(* decided under. The base branch moves as it likes: whoever reads its tip *)
(* later may find any file there.                                          *)
Push(change, rules) ==
    /\ LiveHead < MaxHead
    /\ changes' = Append(changes, [change |-> change, rules |-> rules])
    /\ UNCHANGED <<lists, referral, clearance, verdicts, comments, jobs, entries>>

(* A review posts to the revision it measured, whatever the head is by now, *)
(* and may be run again over other evidence. A status is later than a      *)
(* comment when a whole second lies between them: posted in the last       *)
(* comment's own second, it is later than the ones before.                 *)
Posts == FoldFunctionOnSet(LAMBDA p, n : Len(p) + n, 0, verdicts, Heads)

PublishReferral(h, scanned, compared, ofTheSecond) ==
    /\ h \in 1..LiveHead /\ Posts < MaxPosts
    /\ ofTheSecond => SameSecond /\ comments # <<>>
    /\ LET change == IF compared THEN changes[h].change ELSE Guarded(changes[h].change)
           state  == StateFor(Verdict(change, ReviewDecision(change, changes[h].rules, scanned)))
       IN  /\ verdicts' = [verdicts EXCEPT ![h] = Append(@, state)]
           /\ referral' = [referral EXCEPT ![h] =
                 [state |-> state, by |-> Review,
                  after |-> Len(comments) - IF ofTheSecond THEN 1 ELSE 0]]
    /\ UNCHANGED <<changes, lists, clearance, comments, jobs, entries>>

(* A comment, with what its author could have read by then; it starts a    *)
(* job, which posts directly or renders for a step that relays.            *)
WriteComment(cmd) ==
    /\ Len(comments) < MaxComments /\ LiveHead > 0
    /\ comments' = Append(comments, [cmd |-> cmd, read |-> [h \in Heads |-> Len(verdicts[h])]])
    /\ jobs' = Append(jobs, [pc |-> "resolving head", head |-> 0, decided |-> 0, looked |-> 0,
                             print |-> NoPrint, answer |-> "none"])
    /\ UNCHANGED <<changes, lists, referral, clearance, verdicts, entries>>

-----------------------------------------------------------------------------
(* The job answering a comment. The head is read, then the referral on it,  *)
(* and what they decide is written later still.                            *)

ResolveHead(c) ==
    /\ jobs[c].pc = "resolving head"
    /\ jobs' = [jobs EXCEPT ![c] = [@ EXCEPT !.pc = "reading referral", !.head = LiveHead]]
    /\ UNCHANGED <<changes, lists, referral, clearance, verdicts, comments, entries>>

(* What a change leaves uncovered is derived from the base branch's own     *)
(* checkout and the platform's listing, which may fail.                    *)
UncoveredPaths(h, rules) == Uncovered(changes[h].change.paths, rules)

(* The cleared decision's fingerprint, empty when the checkout is not the   *)
(* cleared revision or the decision could not be taken.                    *)
ClearedPrint(h, compared) ==
    Fingerprint(ClearedDecision(changes[h].change, changes[h].rules, compared))

\* Mutation: the referral is resolved before who cleared it is recorded.
AnsweredResolvingFirst(j, answer) ==
    [j EXCEPT !.answer = answer,
              !.pc = IF answer = "ignore" THEN "done"
                     ELSE IF answer = "clear" /\ ~lists.relayed THEN "resolving"
                     ELSE "replying"]

Answered(j, answer) ==
    [j EXCEPT !.answer = answer,
              !.pc = IF answer = "ignore" THEN "done"
                     ELSE IF answer = "clear" /\ ~lists.relayed THEN "recording"
                     ELSE "replying"]

ReadReferralAndDecide(c, derived, rules, print) ==
    LET j      == jobs[c]
        status == referral[j.head]
        answer == DecideComment(c, j.head, status, derived, UncoveredPaths(j.head, rules))
    IN  /\ j.pc = "reading referral"
        /\ jobs' = [jobs EXCEPT ![c] =
              IF answer = "clear"
                THEN [Answered(j, answer) EXCEPT !.decided = Len(verdicts[j.head]),
                                                 !.looked = Len(verdicts[j.head]),
                                                 !.print = print]
                ELSE Answered(j, answer)]
        /\ UNCHANGED <<changes, lists, referral, clearance, verdicts, comments, entries>>

(* RecordStatuses: the clearance first, then the referral it resolves.      *)
PostClearance(c) ==
    /\ jobs[c].pc = "recording"
    /\ clearance' = [clearance EXCEPT ![jobs[c].head] =
                        [by |-> c, app |-> FALSE, print |-> jobs[c].print]]
    /\ jobs' = [jobs EXCEPT ![c] = [@ EXCEPT !.pc = "resolving"]]
    /\ UNCHANGED <<changes, lists, referral, verdicts, comments, entries>>

Resolved(c) == [state |-> "success", by |-> c, after |-> Len(comments)]

PostResolution(c) ==
    /\ jobs[c].pc = "resolving"
    /\ referral' = [referral EXCEPT ![jobs[c].head] = Resolved(c)]
    /\ jobs' = [jobs EXCEPT ![c] = [@ EXCEPT !.pc = "replying"]]
    /\ UNCHANGED <<changes, lists, clearance, verdicts, comments, entries>>

(* A reply that cannot be posted is recorded and fails nothing. A rendered  *)
(* clearance is replied to before the step that posts it has run.          *)
Reply(c) ==
    /\ jobs[c].pc = "replying"
    /\ jobs' = [jobs EXCEPT ![c] = [@ EXCEPT
          !.pc = IF lists.relayed /\ jobs[c].answer = "clear" THEN "submitting" ELSE "done"]]
    /\ UNCHANGED <<changes, lists, referral, clearance, verdicts, comments, entries>>

-----------------------------------------------------------------------------
(* The relay's /status: what it reads admits the request, and what it       *)
(* writes is written by a second request to the platform.                  *)

Submitted(c) ==
    [context |-> IF jobs[c].pc = "submitting" THEN "lydite/clearance" ELSE "lydite/referral",
     state |-> "success", sha |-> jobs[c].head]

\* Mutation: a resolution is admitted whatever verdict stands.
RelayRefusesUnread(c) ==
    LET status == Submitted(c)
    IN  \/ ResolveTarget(lists, ClearanceClaims, 1) = Refused
        \/ ~StatusAuthorized(lists, ClearanceClaims, status)
        \/ status.sha # LiveHead

RelayRefuses(c) ==
    LET status == Submitted(c)
    IN  \/ ResolveTarget(lists, ClearanceClaims, 1) = Refused
        \/ ~StatusAuthorized(lists, ClearanceClaims, status)
        \/ status.sha # LiveHead
        \/ /\ ReferralResolution(lists, ClearanceClaims, status)
           /\ referral[LiveHead].state # "pending"

RelayReads(c) ==
    /\ jobs[c].pc \in {"submitting", "submitting resolution"}
    /\ jobs' = [jobs EXCEPT ![c] = [@ EXCEPT
          !.pc = IF RelayRefuses(c) THEN "refused"
                 ELSE IF jobs[c].pc = "submitting" THEN "admitted" ELSE "resolution admitted",
          !.looked = IF jobs[c].pc = "submitting" THEN jobs[c].looked ELSE Len(verdicts[jobs[c].head])]]
    /\ UNCHANGED <<changes, lists, referral, clearance, verdicts, comments, entries>>

RelayWritesClearance(c) ==
    /\ jobs[c].pc = "admitted"
    /\ clearance' = [clearance EXCEPT ![jobs[c].head] =
                        [by |-> c, app |-> TRUE, print |-> jobs[c].print]]
    /\ jobs' = [jobs EXCEPT ![c] = [@ EXCEPT !.pc = "submitting resolution"]]
    /\ UNCHANGED <<changes, lists, referral, verdicts, comments, entries>>

RelayWritesResolution(c) ==
    /\ jobs[c].pc = "resolution admitted"
    /\ referral' = [referral EXCEPT ![jobs[c].head] = Resolved(c)]
    /\ jobs' = [jobs EXCEPT ![c] = [@ EXCEPT !.pc = "done"]]
    /\ UNCHANGED <<changes, lists, clearance, verdicts, comments, entries>>

-----------------------------------------------------------------------------
(* The merge queue: an entry replays the head onto the base branch's tip,   *)
(* alone or after another change, and its verdict is composed by the relay *)
(* from the clearance on the pull request.                                 *)

Enqueue(batch, rules) ==
    /\ LiveHead > 0 /\ Len(entries) < MaxEntries
    /\ entries' = Append(entries,
          [pc |-> "comparing", of |-> LiveHead, rules |-> rules, batch |-> batch,
           live |-> 0, outcome |-> "none", published |-> "none"])
    /\ UNCHANGED <<changes, lists, referral, clearance, verdicts, comments, jobs>>

(* What the queue's own tree changes against the base tip.                  *)
QueuedChange(e) ==
    LET own == changes[entries[e].of].change
    IN  [own EXCEPT !.paths = @ \cup entries[e].batch.paths,
                    !.marks = @ \cup entries[e].batch.marks]

QueuedDecision(e) == DecideFromDiff(QueuedChange(e), entries[e].rules)

(* The queue commit's files and blobs against those of the live head.       *)
OneChange(e) ==
    /\ entries[e].of = LiveHead
    /\ entries[e].batch.paths = {}
    /\ ~entries[e].batch.altered

CompareEntry(e) ==
    LET target == QueueTarget(lists, QueueClaims(e), 1, e)
    IN  /\ entries[e].pc = "comparing"
        /\ entries' = [entries EXCEPT ![e] = [@ EXCEPT
              !.live = LiveHead,
              !.outcome = IF ~QueuedDecision(e).referred THEN "success" ELSE "pending",
              !.pc = IF target = Refused THEN "refused"
                     ELSE IF QueuedDecision(e).referred /\ OneChange(e) THEN "reading clearance"
                     ELSE "publishing"]]
        /\ UNCHANGED <<changes, lists, referral, clearance, verdicts, comments, jobs>>

\* Mutation: any clearance on the head carries, whatever it was for.
QueueVerdictUnprinted(cleared, print) ==
    IF cleared.by # 0 /\ cleared.app THEN "success" ELSE "pending"

QueueVerdict(cleared, print) ==
    IF cleared.by # 0 /\ cleared.app /\ cleared.print # NoPrint /\ cleared.print = print
      THEN "success" ELSE "pending"

ReadClearance(e) ==
    /\ entries[e].pc = "reading clearance"
    /\ entries' = [entries EXCEPT ![e] = [@ EXCEPT
          !.outcome = QueueVerdict(clearance[entries[e].live], Fingerprint(QueuedDecision(e))),
          !.pc = "publishing"]]
    /\ UNCHANGED <<changes, lists, referral, clearance, verdicts, comments, jobs>>

PublishOutcome(e) ==
    /\ entries[e].pc = "publishing"
    /\ entries' = [entries EXCEPT ![e] = [@ EXCEPT !.published = entries[e].outcome, !.pc = "done"]]
    /\ UNCHANGED <<changes, lists, referral, clearance, verdicts, comments, jobs>>

-----------------------------------------------------------------------------
JobStep(c) ==
    \/ ResolveHead(c)
    \/ \E derived \in BOOLEAN, rules \in RuleFiles, compared \in BOOLEAN, taken \in BOOLEAN :
          ReadReferralAndDecide(c, derived, rules,
            IF taken THEN ClearedPrint(jobs[c].head, compared) ELSE NoPrint)
    \/ PostClearance(c)
    \/ PostResolution(c)
    \/ Reply(c)
    \/ RelayReads(c)
    \/ RelayWritesClearance(c)
    \/ RelayWritesResolution(c)

EntryStep(e) == CompareEntry(e) \/ ReadClearance(e) \/ PublishOutcome(e)

(* An entry alone in its batch, whose blobs are the head's own.            *)
Alone == [paths |-> {}, marks |-> {}, altered |-> FALSE]

Next ==
    \/ \E change \in Changes, rules \in RuleFiles : Push(change, rules)
    \/ \E h \in Heads, scanned \in BOOLEAN, compared \in BOOLEAN, ofTheSecond \in BOOLEAN :
          PublishReferral(h, scanned, compared, ofTheSecond)
    \/ \E cmd \in Commands : WriteComment(cmd)
    \/ \E batch \in Batches, rules \in RuleFiles : Enqueue(batch, rules)
    \/ \E c \in DOMAIN jobs : JobStep(c)
    \/ \E e \in DOMAIN entries : EntryStep(e)

Spec == Init /\ [][Next]_vars

-----------------------------------------------------------------------------
States == {"none", "pending", "success", "failure"}
Answers == {"none", "ignore", "not permitted", "unknown verb", "explain", "stale sha",
            "no status", "head moved", "already passing", "not referred", "clear",
            "could not derive", "nothing to propose", "exempt"}

Carried == [change : Changes, rules : RuleFiles]
Prints == {NoPrint} \cup {Fingerprint(ClearedDecision(x.change, x.rules, compared)) :
                            x \in Carried, compared \in BOOLEAN}
Pcs == {"resolving head", "reading referral", "recording", "resolving", "replying", "submitting",
        "admitted", "submitting resolution", "resolution admitted", "refused", "done"}
EntryPcs == {"comparing", "reading clearance", "publishing", "refused", "done"}
Outcomes == {"none", "pending", "success"}
Status == [state : States, by : Nat, after : Nat]
Clearing == [by : Nat, app : BOOLEAN, print : Prints]
Comment == [cmd : Commands, read : [Heads -> Nat]]
Job == [pc : Pcs, head : Nat, decided : Nat, looked : Nat, print : Prints, answer : Answers]
Entry == [pc : EntryPcs, of : Nat, rules : RuleFiles, batch : Batches, live : Nat,
          outcome : Outcomes, published : Outcomes]

(* The state's shape: statuses are keyed by revision, and one job answers   *)
(* each comment.                                                           *)
TypeOK ==
    /\ changes \in Seq(Carried) /\ LiveHead <= MaxHead
    /\ lists \in Deployments
    /\ referral \in [Heads -> Status]
    /\ clearance \in [Heads -> Clearing]
    /\ verdicts \in [Heads -> Seq(States)]
    /\ comments \in Seq(Comment)
    /\ jobs \in Seq(Job) /\ Len(jobs) = Len(comments)
    /\ entries \in Seq(Entry)

(* RecordStatuses (statuses.go:30): the clearance is posted first, so a job *)
(* that dies between the two posts leaves a record beside a standing        *)
(* referral, and never a resolved referral nothing says who cleared.       *)
RecordBeforeResolution ==
    \A h \in Heads : referral[h].by # Review => clearance[h].by # 0

(* A comment resolves a referral and nothing else (decide.go:291,           *)
(* index.ts:377): whoever resolved a revision was looking at a pending      *)
(* verdict there when it last looked. What a review publishes after that    *)
(* look and before the write is overwritten, on either route.              *)
ResolvedWasPending ==
    \A h \in Heads : LET c == referral[h].by IN
        c # Review => /\ jobs[c].looked > 0
                      /\ verdicts[h][jobs[c].looked] = "pending"

(* Decide (decide.go:262): a clearance stands on a verdict its author could *)
(* have read when they wrote the comment, or on the revision they named.   *)
ClearedWasRead ==
    \A h \in Heads : LET c == clearance[h].by IN
        c # 0 => \/ comments[c].cmd.sha = h
                 \/ jobs[c].decided \in 1..comments[c].read[h]

(* A queue entry merges on a person's word only when somebody who may write *)
(* cleared that very change, through the App, for the very reasons the      *)
(* queue's own tree refers for (queueOutcome, index.ts:817).               *)
QueueSuccessEarned ==
    \A e \in DOMAIN entries : LET entry == entries[e] IN
        entry.published = "success" /\ QueuedDecision(e).referred =>
          /\ entry.batch.paths = {} /\ ~entry.batch.altered
          /\ \E c \in DOMAIN comments :
               /\ comments[c].cmd.writer /\ comments[c].cmd.verb = "clear"
               /\ lists.relayed /\ jobs[c].head = entry.of
               /\ jobs[c].print = Fingerprint(QueuedDecision(e))
=============================================================================
