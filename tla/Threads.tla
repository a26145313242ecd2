------------------------------ MODULE Threads ------------------------------
(***************************************************************************)
(* The review threads on a pull request and the runs that reconcile them   *)
(* with the claims a revision makes (internal/threads, internal/stages/    *)
(* threads; the relay's applyReview applies the same plan under the App's  *)
(* own identity). A run lists the threads once, plans the whole difference *)
(* and then writes it one request at a time; people write between any two  *)
(* of them, a request may fail, a job may be cancelled, and one identity   *)
(* may not delete what another wrote.                                      *)
(***************************************************************************)
EXTENDS Naturals, Sequences, SequencesExt, FiniteSets

CONSTANTS Fingerprints,   \* the claims a revision may make
          Places,         \* where a claim may be: the lines of the change, or OnFile
          Identities,     \* who runs may write as: "app" through the relay, "bot" directly
          Exclusive,      \* does a concurrency group keep two runs apart?
          MaxPushes, MaxRuns, MaxWords   \* bounds

NotReported == "nowhere"
OnFile == "the file"    \* a claim on a line the change does not touch
Person == "person"      \* what the marker of an unmarked comment reads as

ASSUME ThreadsAssumption ==
    /\ IsFiniteSet(Fingerprints) /\ Person \notin Fingerprints
    /\ NotReported \notin Places
    /\ Identities \subseteq {"app", "bot"}
    /\ {MaxPushes, MaxRuns, MaxWords} \subseteq Nat

VARIABLES claims,      \* where each claim of the head revision is
          pushes,      \* pushes made
          comments,    \* every review comment ever written, by id
          runs,        \* the runs, in the order they started
          overlapped   \* history: has a run listed while another was applying its plan?

vars == <<claims, pushes, comments, runs, overlapped>>

Standing == 0           \* gone: which run deleted the comment
NoRoot == 0

Claim == <<"claim">>
Cleared == <<"cleared">>
Moved(place) == <<"moved", place>>
Words == <<"words">>
Silent == <<>>          \* a delete that says nothing when it is refused

Claimed(located) == {f \in Fingerprints : located[f] # NotReported}

-----------------------------------------------------------------------------
(* What a listing shows: the roots standing and the replies under each. A   *)
(* reply whose root is gone is a fragment, and no thread.                   *)

Roots(cs) == {i \in DOMAIN cs : cs[i].root = NoRoot /\ cs[i].gone = Standing}
Replies(cs, t) == {i \in DOMAIN cs : cs[i].root = t /\ cs[i].gone = Standing}

(* Alone in a thread is asked of the markers, never of who wrote them.      *)
\* Mutation: only the root is looked at.
SoleInTheRoot(cs, t) == cs[t].fp # Person

Sole(cs, t) == \A i \in {t} \cup Replies(cs, t) : cs[i].fp # Person

Said(cs, t, body) == \E i \in Replies(cs, t) : cs[i].body = body

-----------------------------------------------------------------------------
(* threads.Delta: the operations that reconcile the two.                   *)

Gone(cs, located, t) == cs[t].fp \notin Claimed(located)
Adrift(cs, located, t) == ~Gone(cs, located, t) /\ cs[t].outdated

Finished(cs, located) ==
    {t \in Roots(cs) : cs[t].fp # Person /\ (Gone(cs, located, t) \/ Adrift(cs, located, t))}

LastWord(cs, located, t) ==
    IF Gone(cs, located, t) THEN Cleared ELSE Moved(located[cs[t].fp])

Closing(cs, located) == {t \in Finished(cs, located) : Sole(cs, t)}

Deletes(cs, located) == UNION {Replies(cs, t) \cup {t} : t \in Closing(cs, located)}

(* One thread after the other, every reply of it before its root.           *)
Thread(cs, i) == IF cs[i].root = NoRoot THEN i ELSE cs[i].root

Sooner(cs, i, j) ==
    \/ Thread(cs, i) < Thread(cs, j)
    \/ Thread(cs, i) = Thread(cs, j) /\ cs[i].root # NoRoot /\ (cs[j].root = NoRoot \/ i < j)

(* The root alone says what to answer when its delete is refused.           *)
Refused(cs, located, i) == IF cs[i].root = NoRoot THEN LastWord(cs, located, i) ELSE Silent

\* Mutation: a thread is answered on every run.
AnswersAlways(cs, located) == {t \in Finished(cs, located) : ~Sole(cs, t)}

\* Mutation: a thread lydite has answered is never answered again.
AnswersFirst(cs, located) ==
    {t \in Finished(cs, located) : ~Sole(cs, t) /\ \A i \in Replies(cs, t) : cs[i].fp = Person}

Answers(cs, located) ==
    {t \in Finished(cs, located) : ~Sole(cs, t) /\ ~Said(cs, t, LastWord(cs, located, t))}

(* An outdated thread somebody spoke in keeps its claim; one lydite is      *)
(* alone in gives it up to a new thread.                                   *)
Kept(cs, located) ==
    {cs[t].fp : t \in {t \in Roots(cs) : cs[t].fp # Person
                         /\ (Adrift(cs, located, t) => ~Sole(cs, t))}}

Creates(cs, located) == Claimed(located) \ Kept(cs, located)

-----------------------------------------------------------------------------
(* The first revision that reports anything.                                *)
Init ==
    /\ claims \in [Fingerprints -> Places]
    /\ pushes = 0
    /\ comments = <<>>
    /\ runs = <<>>
    /\ overlapped = FALSE

Applying(r) == runs[r].pc \in {"admitting", "applying"}
Ended(r) == runs[r].pc \in {"done", "failed"}

(* The plan's stages, each over what the one before has left to do.         *)
TakingDown(r) == runs[r].pc = "applying" /\ runs[r].deletes # {}
Answering(r) == runs[r].pc = "applying" /\ runs[r].deletes = {} /\ runs[r].replies # {}
Opening(r) == runs[r].pc = "applying" /\ runs[r].deletes = {} /\ runs[r].replies = {}

(* Whatever anybody else does, a run no longer has the threads to itself.   *)
Disturbed(rs, but) == [r \in DOMAIN rs |-> [rs[r] EXCEPT !.alone = @ /\ r = but]]

(* A push: the claims of the new revision, and the threads on lines it has  *)
(* changed, which the platform collapses as outdated.                      *)
Push(located, outdated) ==
    /\ pushes < MaxPushes
    /\ outdated \subseteq {t \in Roots(comments) : ~comments[t].onFile}
    /\ pushes' = pushes + 1
    /\ claims' = located
    /\ comments' = [i \in DOMAIN comments |->
                       [comments[i] EXCEPT !.outdated = @ \/ i \in outdated]]
    /\ runs' = [r \in DOMAIN runs |-> [Disturbed(runs, 0)[r] EXCEPT !.stale = ~Ended(r)]]
    /\ UNCHANGED overlapped

(* Somebody replies in a thread. Runs that have listed will not hear it.    *)
Speak(t) ==
    /\ Cardinality({i \in DOMAIN comments : comments[i].fp = Person}) < MaxWords
    /\ t \in Roots(comments)
    /\ comments' = Append(comments,
          [root |-> t, fp |-> Person, body |-> Words, who |-> Person, onFile |-> FALSE,
           outdated |-> FALSE, gone |-> Standing, refused |-> FALSE, unheard |-> {r \in DOMAIN runs : Applying(r)}])
    /\ runs' = Disturbed(runs, 0)
    /\ UNCHANGED <<claims, pushes, overlapped>>

Unplanned == [pc |-> "listing", who |-> "bot", located |-> [f \in Fingerprints |-> NotReported],
              stale |-> FALSE, deletes |-> {}, replies |-> {}, creates |-> {}, alone |-> FALSE]

Start(who) ==
    /\ Len(runs) < MaxRuns
    /\ Exclusive => \A r \in DOMAIN runs : Ended(r)
    /\ runs' = Append(runs, [Unplanned EXCEPT !.who = who, !.located = claims, !.stale = FALSE])
    /\ UNCHANGED <<claims, pushes, comments, overlapped>>

-----------------------------------------------------------------------------
(* The one listing a run makes, and the plan computed from it.              *)
List(r) ==
    /\ runs[r].pc = "listing"
    /\ runs' = [runs EXCEPT ![r].pc = IF runs[r].who = "app" THEN "admitting" ELSE "applying",
                            ![r].deletes = Deletes(comments, runs[r].located),
                            ![r].replies = Answers(comments, runs[r].located),
                            ![r].creates = Creates(comments, runs[r].located),
                            ![r].alone = TRUE]
    /\ overlapped' = (overlapped \/ \E o \in DOMAIN runs \ {r} :
                          Applying(o))
    /\ UNCHANGED <<claims, pushes, comments>>

(* What a failed request leaves: when it is the relay that failed, the job  *)
(* falls back to the workflow's own token and lists again; when it is that *)
(* token's, it fails.                                                      *)
Failed == [Unplanned EXCEPT !.pc = "failed"]

AfterFailure(run) ==
    IF run.who = "app" /\ run.pc # "listing"
      THEN [Unplanned EXCEPT !.located = run.located, !.stale = run.stale]
      ELSE Failed

(* The relay re-reads the ids and refuses the whole document when one is   *)
(* no longer on the pull request.                                          *)
Admit(r) ==
    /\ runs[r].pc = "admitting"
    /\ runs' = [runs EXCEPT ![r] =
          IF \A i \in @.deletes \cup @.replies : comments[i].gone = Standing
          THEN [@ EXCEPT !.pc = "applying"]
          ELSE AfterFailure(@)]
    /\ UNCHANGED <<claims, pushes, comments, overlapped>>

(* A reply posted under a root that is gone is not found.                   *)
Reply(r, t, body) ==
    [root |-> t, fp |-> comments[t].fp, body |-> body, who |-> runs[r].who, onFile |-> FALSE,
     outdated |-> FALSE, gone |-> Standing, refused |-> FALSE, unheard |-> {}]

(* TakeDown, one delete at a time: another identity's comment is answered   *)
(* instead when the plan says with what, and left as it is when it does not.*)
Delete(r, i) ==
    LET said == Refused(comments, runs[r].located, i)
        own  == comments[i].who = runs[r].who
        refused == [comments EXCEPT ![i].refused = TRUE]
    IN  /\ TakingDown(r)
        /\ i \in runs[r].deletes /\ \A j \in runs[r].deletes \ {i} : Sooner(comments, i, j)
        /\ runs' = [Disturbed(runs, r) EXCEPT ![r].deletes = @ \ {i}]
        /\ comments' =
              IF comments[i].gone # Standing THEN comments
              ELSE IF own THEN [comments EXCEPT ![i].gone = r]
              ELSE IF said = Silent THEN refused
              ELSE Append(refused, Reply(r, i, said))
        /\ UNCHANGED <<claims, pushes, overlapped>>

Answer(r, t) ==
    /\ Answering(r)
    /\ t \in runs[r].replies /\ \A u \in runs[r].replies : t <= u
    /\ IF comments[t].gone # Standing
         THEN /\ runs' = [runs EXCEPT ![r] = AfterFailure(@)]
              /\ UNCHANGED comments
         ELSE /\ comments' = Append(comments, Reply(r, t, LastWord(comments, runs[r].located, t)))
              /\ runs' = [Disturbed(runs, r) EXCEPT ![r].replies = @ \ {t}]
    /\ UNCHANGED <<claims, pushes, overlapped>>

(* A thread opened on a revision that is no longer the head may be outdated *)
(* from the start.                                                         *)
Opened(r, f, outdated) ==
    [root |-> NoRoot, fp |-> f, body |-> Claim, who |-> runs[r].who,
     onFile |-> runs[r].located[f] = OnFile,
     outdated |-> outdated /\ runs[r].located[f] # OnFile /\ runs[r].stale,
     gone |-> Standing, refused |-> FALSE, unheard |-> {}]

Filed(r) == {f \in runs[r].creates : runs[r].located[f] = OnFile}

(* Open: the claims on lines in one review, then the claims on whole files, *)
(* each in a request of its own.                                           *)
Open(r, outdated) ==
    LET lines == SetToSeq(runs[r].creates \ Filed(r))
    IN  /\ Opening(r) /\ lines # <<>>
        /\ comments' = comments \o [n \in DOMAIN lines |-> Opened(r, lines[n], outdated)]
        /\ runs' = [Disturbed(runs, r) EXCEPT ![r].creates = Filed(r)]
        /\ UNCHANGED <<claims, pushes, overlapped>>

OpenFile(r, f) ==
    /\ Opening(r) /\ runs[r].creates = Filed(r) /\ f \in runs[r].creates
    /\ comments' = Append(comments, Opened(r, f, FALSE))
    /\ runs' = [Disturbed(runs, r) EXCEPT ![r].creates = @ \ {f}]
    /\ UNCHANGED <<claims, pushes, overlapped>>

Complete(r) ==
    /\ Opening(r) /\ runs[r].creates = {}
    /\ runs' = [runs EXCEPT ![r].pc = "done"]
    /\ UNCHANGED <<claims, pushes, comments, overlapped>>

(* A request fails, or the relay answers with an error.                     *)
RequestFails(r) ==
    /\ ~Ended(r)
    /\ runs' = [runs EXCEPT ![r] = AfterFailure(@)]
    /\ UNCHANGED <<claims, pushes, comments, overlapped>>

(* The job is cancelled, by a later run of its concurrency group or a person.*)
Cancel(r) ==
    /\ ~Ended(r)
    /\ runs' = [runs EXCEPT ![r] = Failed]
    /\ UNCHANGED <<claims, pushes, comments, overlapped>>

-----------------------------------------------------------------------------
RunStep(r) ==
    \/ List(r) \/ Admit(r) \/ Complete(r)
    \/ \E i \in DOMAIN comments : Delete(r, i) \/ Answer(r, i)
    \/ \E outdated \in BOOLEAN : Open(r, outdated)
    \/ \E f \in Fingerprints : OpenFile(r, f)

Next ==
    \/ \E located \in [Fingerprints -> {NotReported} \cup Places],
          outdated \in SUBSET Roots(comments) : Push(located, outdated)
    \/ \E t \in Roots(comments) : Speak(t)
    \/ \E who \in Identities : Start(who)
    \/ \E r \in DOMAIN runs : RunStep(r) \/ RequestFails(r) \/ Cancel(r)

Spec == Init /\ [][Next]_vars

-----------------------------------------------------------------------------
(* The state's shape: a reply's root is an earlier root, whoever's it is.   *)
TypeOK ==
    /\ claims \in [Fingerprints -> {NotReported} \cup Places]
    /\ \A i \in DOMAIN comments :
         LET c == comments[i]
         IN  /\ c.fp \in Fingerprints \cup {Person} /\ c.gone \in 0..Len(runs)
             /\ c.root # NoRoot => c.root \in 1..(i - 1) /\ comments[c.root].root = NoRoot
    /\ \A r \in DOMAIN runs : runs[r].creates \subseteq Fingerprints

(* Sole (threads.go): nothing a person wrote is deleted, and a thread is    *)
(* taken from over their words only by a run that had listed it before     *)
(* they spoke.                                                             *)
PeopleKept ==
    \A i \in DOMAIN comments :
        comments[i].fp = Person =>
          /\ comments[i].gone = Standing
          /\ LET taken == comments[comments[i].root].gone
             IN  taken # Standing => taken \in comments[i].unheard

(* Delta (threads.go): as long as no two runs apply their plans at once,    *)
(* however runs fail, are cancelled, fall back or are refused a delete, no *)
(* claim ever has two threads that lydite could have taken down.           *)
OneThreadPerClaim ==
    ~overlapped =>
      \A t, u \in Roots(comments) :
          /\ t # u /\ comments[t].fp # Person /\ comments[t].fp = comments[u].fp
          => comments[t].refused \/ comments[u].refused

(* What a run leaves when it ended well and nobody touched the threads      *)
(* while it ran - whatever the runs before it left half done: every claim  *)
(* has a thread that shows it, and every thread whose claim is gone or has *)
(* moved is down, or tells its readers so.                                 *)
Reconciled ==
    \A r \in DOMAIN runs :
        runs[r].pc = "done" /\ runs[r].alone =>
          LET located == runs[r].located
          IN  /\ \A f \in Claimed(located) : \E t \in Roots(comments) :
                    /\ comments[t].fp = f
                    /\ comments[t].outdated => ~Sole(comments, t) \/ runs[r].stale
              /\ \A t \in Finished(comments, located) :
                    \/ Said(comments, t, LastWord(comments, located, t))
                    \/ runs[r].stale

(* answer (threads.go): whatever failed in between and whoever wrote what,  *)
(* no thread holds the same sentence of lydite's twice.                    *)
SaidOnce ==
    ~overlapped =>
      \A i, j \in DOMAIN comments :
          /\ i # j /\ comments[i].root # NoRoot /\ comments[i].fp # Person
          /\ comments[i].gone = Standing /\ comments[j].gone = Standing
          => \/ comments[i].root # comments[j].root
             \/ comments[i].body # comments[j].body

(* OneOfEach: a claim is shown by one thread, and a thread says a thing     *)
(* once, over however many runs failed half-way or wrote as another       *)
(* identity (threads.go:312, threads.go:330).                              *)
OneOfEach == OneThreadPerClaim /\ SaidOnce

(* close (threads.go): every reply of lydite's goes before the root, so no  *)
(* refusal leaves one standing under nothing.                              *)
NoHeadlessReply ==
    ~overlapped =>
      \A i \in DOMAIN comments :
          comments[i].root # NoRoot /\ comments[i].fp # Person /\ comments[i].gone = Standing
          => comments[comments[i].root].gone = Standing
=============================================================================
