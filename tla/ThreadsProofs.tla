---------------------------- MODULE ThreadsProofs ----------------------------
(***************************************************************************)
(* Theorems about the review threads, for every finite set of claims, any  *)
(* number of pushes, runs, people and comments, whoever lydite comments as *)
(* and whatever is refused.                                                *)
(*                                                                         *)
(* Three inductive invariants stand on one base: the types, what a comment *)
(* is (Shapes), and what a run that has its plan may still do (PlansOK).   *)
(*   KeptInv         what people wrote, and who heard it before a delete   *)
(*   OneOfEachInv    as long as no two runs overlapped: a claim's threads, *)
(*                   and what is said in each                              *)
(*   ReconciledInv   what an undisturbed run has left of its own plan      *)
(* NextKinds sorts a step by what it does to the comments and to the run   *)
(* that takes it; each invariant has a step for each kind.                 *)
(***************************************************************************)
EXTENDS Threads, FunctionTheorems, FiniteSetTheorems, TLAPS

Bodies == {Claim, Cleared, Words} \cup {Moved(p) : p \in Places}
LastWords == {Cleared} \cup {Moved(p) : p \in Places}

Who == {"app", "bot"}

Comment ==
    [root : Nat, fp : Fingerprints \cup {Person}, body : Bodies, who : Who \cup {Person},
     onFile : BOOLEAN, outdated : BOOLEAN, gone : Nat, refused : BOOLEAN, unheard : SUBSET Nat]

Run ==
    [pc : {"listing", "admitting", "applying", "done", "failed"}, who : Who,
     located : [Fingerprints -> {NotReported} \cup Places], stale : BOOLEAN,
     deletes : SUBSET Nat, replies : SUBSET Nat, creates : SUBSET Fingerprints, alone : BOOLEAN]

(***************************************************************************)
(* The state's shape.                                                      *)
(***************************************************************************)
TypeInv ==
    /\ claims \in [Fingerprints -> {NotReported} \cup Places]
    /\ pushes \in Nat
    /\ comments \in Seq(Comment)
    /\ runs \in Seq(Run)
    /\ overlapped \in BOOLEAN

IsRoot(c) == c.root = NoRoot
Ours(c) == c.fp # Person

(* What is written: a root is a claim of lydite's, a reply is under an      *)
(* earlier root and carries its marker or none.                            *)
Wellformed(cs, i) ==
    /\ IsRoot(cs[i]) => Ours(cs[i]) /\ cs[i].who \in Who
    /\ ~IsRoot(cs[i]) =>
         /\ cs[i].root \in 1..(i - 1) /\ IsRoot(cs[cs[i].root])
         /\ Ours(cs[i]) => /\ cs[i].fp = cs[cs[i].root].fp
                           /\ cs[i].body \in LastWords /\ cs[i].who \in Who
         /\ ~Ours(cs[i]) => cs[i].body = Words
    /\ ~Ours(cs[i]) => cs[i].gone = Standing

Shapes == \A i \in DOMAIN comments : Wellformed(comments, i) /\ comments[i].gone \in 0..Len(runs)

(* What a run has left to do is about comments it has listed: no person's, *)
(* no reply without its root, no thread both taken down and answered.      *)
PlanOK(cs, run) ==
    /\ run.deletes \subseteq DOMAIN cs
    /\ run.replies \subseteq DOMAIN cs \ run.deletes
    /\ run.creates \subseteq Claimed(run.located)
    /\ \A i \in run.deletes : Ours(cs[i]) /\ (~IsRoot(cs[i]) => cs[i].root \in run.deletes)
    /\ \A t \in run.replies : IsRoot(cs[t])

PlansOK == \A r \in DOMAIN runs : Applying(r) => PlanOK(comments, runs[r])

(* The words under a root a run is about to take down came after its       *)
(* listing.                                                                *)
UnheardUnder(cs, r, t) ==
    \A i \in DOMAIN cs : cs[i].root = t /\ ~Ours(cs[i]) => r \in cs[i].unheard

TakenUnheard ==
    \A r \in DOMAIN runs : Applying(r) =>
        \A t \in runs[r].deletes : IsRoot(comments[t]) => UnheardUnder(comments, r, t)

Base == TypeInv /\ Shapes /\ PlansOK

(* One run at a time; no claim has two threads; a claim a run is to open a *)
(* thread for has none but those it takes down first.                      *)
OneApplies == \A r, s \in DOMAIN runs : Applying(r) /\ Applying(s) => r = s

Opens ==
    \A r \in DOMAIN runs : Applying(r) =>
        \A t \in Roots(comments) :
            comments[t].fp \in runs[r].creates => comments[t].refused \/ t \in runs[r].deletes

OneInv == ~overlapped => OneApplies /\ Opens /\ OneThreadPerClaim

(* Under a root, another identity's replies alone, as long as nobody spoke. *)
Spoken(cs, t) == \E i \in DOMAIN cs : cs[i].root = t /\ ~Ours(cs[i])

Echoes ==
    \A i \in DOMAIN comments :
        ~IsRoot(comments[i]) /\ Ours(comments[i]) =>
            \/ comments[i].who # comments[comments[i].root].who
            \/ Spoken(comments, comments[i].root)

AnswersSpoken ==
    \A r \in DOMAIN runs : Applying(r) => \A t \in runs[r].replies : Spoken(comments, t)

(* Of a thread a run takes down, its own replies go before the root; of one *)
(* it answers, nothing says the same yet.                                  *)
Down(cs, run, t) ==
    \A i \in DOMAIN cs :
        cs[i].root = t /\ Ours(cs[i]) /\ cs[i].gone = Standing =>
            /\ cs[i].who # cs[t].who
            /\ cs[i].who = run.who => i \in run.deletes

DownInv ==
    \A r \in DOMAIN runs : Applying(r) =>
        \A t \in runs[r].deletes : IsRoot(comments[t]) => Down(comments, runs[r], t)

Unsaid ==
    \A r \in DOMAIN runs : Applying(r) =>
        \A t \in runs[r].replies : ~Said(comments, t, LastWord(comments, runs[r].located, t))

SayInv == Echoes /\ AnswersSpoken /\ (~overlapped => SaidOnce /\ DownInv /\ Unsaid)

(* What a run that nobody disturbed leaves, or has left to do.             *)
Shown(cs, run, f) ==
    \/ f \in run.creates
    \/ \E t \in Roots(cs) \ run.deletes :
          /\ cs[t].fp = f
          /\ cs[t].outdated => ~Sole(cs, t) \/ run.stale

Told(cs, run, t) ==
    \/ Said(cs, t, LastWord(cs, run.located, t))
    \/ run.stale
    \/ t \in run.deletes
    \/ t \in run.replies

Progress(cs, run) ==
    /\ \A f \in Claimed(run.located) : Shown(cs, run, f)
    /\ \A t \in Finished(cs, run.located) : Told(cs, run, t)

Nothing(run) == run.deletes = {} /\ run.replies = {} /\ run.creates = {}

ReconcileInv ==
    \A r \in DOMAIN runs :
        runs[r].alone =>
          /\ runs[r].pc \in {"admitting", "applying", "done"}
          /\ runs[r].pc = "done" => Nothing(runs[r])
          /\ Progress(comments, runs[r])

(***************************************************************************)
(* The sentences lydite writes in a thread are none of the others.         *)
(***************************************************************************)
LEMMA Sentences ==
  /\ Claim \notin LastWords /\ Words \notin LastWords /\ Silent \notin LastWords
  /\ Words # Claim
<1>1. Cleared # Claim /\ Cleared # Words /\ Cleared # Silent /\ Words # Claim
  BY DEF Cleared, Claim, Words, Silent
<1>2. \A p : Moved(p) # Claim /\ Moved(p) # Words /\ Moved(p) # Silent
  BY DEF Moved, Claim, Words, Silent
<1>3. QED
  BY <1>1, <1>2 DEF LastWords

LEMMA LastWordType ==
  ASSUME NEW cs, NEW located \in [Fingerprints -> {NotReported} \cup Places],
         NEW t, cs[t].fp \in Fingerprints
  PROVE  LastWord(cs, located, t) \in LastWords
<1>1. CASE Gone(cs, located, t)
  BY <1>1 DEF LastWord, LastWords
<1>2. CASE ~Gone(cs, located, t)
  <2>1. located[cs[t].fp] \in Places
    BY <1>2 DEF Gone, Claimed
  <2>2. QED
    BY <1>2, <2>1 DEF LastWord, LastWords
<1>3. QED
  BY <1>1, <1>2

LEMMA BodiesType == LastWords \subseteq Bodies /\ Claim \in Bodies /\ Words \in Bodies
BY DEF LastWords, Bodies

LEMMA UnplannedType ==
  /\ Failed \in Run
  /\ \A run \in Run : AfterFailure(run) \in Run
<1>1. Unplanned \in Run
  BY DEF Unplanned, Run, Who
<1>2. Failed \in Run
  BY <1>1 DEF Failed, Run
<1>3. ASSUME NEW run \in Run
      PROVE  [Unplanned EXCEPT !.located = run.located, !.stale = run.stale] \in Run
  BY <1>1 DEF Run
<1>4. QED
  BY <1>2, <1>3 DEF AfterFailure

LEMMA Indexed ==
  ASSUME TypeInv
  PROVE  /\ Len(comments) \in Nat /\ DOMAIN comments = 1..Len(comments)
         /\ \A i \in DOMAIN comments : comments[i] \in Comment
         /\ Len(runs) \in Nat /\ DOMAIN runs = 1..Len(runs)
         /\ \A r \in DOMAIN runs : runs[r] \in Run
BY DEF TypeInv

LEMMA Replaced ==
  ASSUME NEW S, NEW s \in Seq(S), NEW i \in DOMAIN s, NEW x \in S
  PROVE  /\ [s EXCEPT ![i] = x] \in Seq(S)
         /\ DOMAIN [s EXCEPT ![i] = x] = DOMAIN s
         /\ Len([s EXCEPT ![i] = x]) = Len(s)
         /\ [s EXCEPT ![i] = x][i] = x
         /\ \A j \in DOMAIN s \ {i} : [s EXCEPT ![i] = x][j] = s[j]
OBVIOUS

LEMMA Appended ==
  ASSUME NEW S, NEW s \in Seq(S), NEW x \in S
  PROVE  /\ Append(s, x) \in Seq(S)
         /\ Len(Append(s, x)) = Len(s) + 1
         /\ DOMAIN Append(s, x) = DOMAIN s \cup {Len(s) + 1}
         /\ Append(s, x)[Len(s) + 1] = x
         /\ \A j \in DOMAIN s : Append(s, x)[j] = s[j]
         /\ Len(s) \in Nat /\ Len(s) + 1 \notin DOMAIN s /\ DOMAIN s = 1..Len(s)
OBVIOUS

(***************************************************************************)
(* A run whose plan stands, and which only learns that it was disturbed.   *)
(***************************************************************************)
SamePlan(a, b) ==
    /\ a.pc = b.pc /\ a.who = b.who /\ a.located = b.located
    /\ a.deletes = b.deletes /\ a.replies = b.replies /\ a.creates = b.creates

Hushed(a, b) == SamePlan(a, b) /\ a.stale = b.stale /\ ~a.alone

LEMMA DisturbedRuns ==
  ASSUME TypeInv, NEW k \in Nat
  PROVE  /\ Disturbed(runs, k) \in Seq(Run)
         /\ DOMAIN Disturbed(runs, k) = DOMAIN runs /\ Len(Disturbed(runs, k)) = Len(runs)
         /\ \A s \in DOMAIN runs : s # k => Hushed(Disturbed(runs, k)[s], runs[s])
         /\ k \in DOMAIN runs => Disturbed(runs, k)[k] = runs[k]
<1> DEFINE d == Disturbed(runs, k)
<1>1. DOMAIN runs = 1..Len(runs) /\ Len(runs) \in Nat /\ \A r \in DOMAIN runs : runs[r] \in Run
  BY Indexed
<1>2. d = [r \in 1..Len(runs) |-> [runs[r] EXCEPT !.alone = @ /\ r = k]]
  BY <1>1 DEF Disturbed
<1>3. ASSUME NEW s \in 1..Len(runs)
      PROVE  /\ [runs[s] EXCEPT !.alone = @ /\ s = k] \in Run
             /\ s # k => Hushed([runs[s] EXCEPT !.alone = @ /\ s = k], runs[s])
             /\ s = k => [runs[s] EXCEPT !.alone = @ /\ s = k] = runs[s]
  BY <1>1, <1>3 DEF Run, Hushed, SamePlan
<1>4. \A s \in 1..Len(runs) : d[s] \in Run
  BY <1>2, <1>3
<1>5. d \in Seq(Run)
  BY <1>1, <1>2, <1>3, <1>4
<1>6. DOMAIN d = 1..Len(runs)
  BY <1>2
<1>7. \A s \in 1..Len(runs) : (s # k => Hushed(d[s], runs[s])) /\ (s = k => d[s] = runs[s])
  BY <1>2, <1>3
<1> HIDE DEF d
<1>8. Len(d) = Len(runs)
  BY <1>1, <1>5, <1>6
<1>9. QED
  BY <1>1, <1>5, <1>6, <1>7, <1>8 DEF d

-----------------------------------------------------------------------------
(***************************************************************************)
(* What each kind of step does.  An idle one writes no comment: a run      *)
(* starts, is admitted, completes or gives up, and a plan that still       *)
(* stands is the plan it was.                                              *)
(***************************************************************************)
Idle ==
    /\ comments' = comments /\ overlapped' = overlapped
    /\ Len(runs) <= Len(runs')
    /\ \A r \in DOMAIN runs' :
         LET new == runs'[r] IN
         new.pc \in {"admitting", "applying"} \/ new.alone =>
           /\ r \in DOMAIN runs
           /\ runs[r].pc \in {"admitting", "applying"} \/ runs[r].alone
           /\ new.who = runs[r].who /\ new.located = runs[r].located
           /\ new.deletes = runs[r].deletes /\ new.replies = runs[r].replies
           /\ new.creates = runs[r].creates
           /\ new.alone = runs[r].alone /\ new.stale = runs[r].stale
           /\ new.pc \in {"admitting", "applying"} => runs[r].pc \in {"admitting", "applying"}
           /\ \/ new.pc = runs[r].pc
              \/ new.pc = "applying" /\ runs[r].pc = "admitting"
              \/ new.pc = "done" /\ Nothing(runs[r]) /\ runs[r].pc = "applying"

LEMMA GivingUp ==
  ASSUME NEW run \in Run
  PROVE  /\ AfterFailure(run).pc \notin {"admitting", "applying"} /\ ~AfterFailure(run).alone
         /\ Failed.pc \notin {"admitting", "applying"} /\ ~Failed.alone
<1>1. Unplanned.pc = "listing" /\ ~Unplanned.alone /\ Failed.pc = "failed" /\ ~Failed.alone
  BY DEF Unplanned, Failed
<1>2. [Unplanned EXCEPT !.located = run.located, !.stale = run.stale].pc = "listing"
  BY DEF Unplanned
<1>3. [Unplanned EXCEPT !.located = run.located, !.stale = run.stale].alone = FALSE
  BY DEF Unplanned
<1>4. QED
  BY <1>1, <1>2, <1>3 DEF AfterFailure

(* One run alone takes a step that writes no comment.                      *)
LEMMA IdleRun ==
  ASSUME TypeInv, NEW r \in DOMAIN runs, NEW new \in Run,
         UNCHANGED <<claims, pushes, comments, overlapped>>,
         runs' = [runs EXCEPT ![r] = new],
         \/ new.pc \notin {"admitting", "applying"} /\ ~new.alone
         \/ runs[r].pc = "admitting" /\ new = [runs[r] EXCEPT !.pc = "applying"]
         \/ Opening(r) /\ runs[r].creates = {} /\ new = [runs[r] EXCEPT !.pc = "done"]
  PROVE  TypeInv' /\ Idle
<1>1. /\ runs' \in Seq(Run) /\ DOMAIN runs' = DOMAIN runs /\ Len(runs') = Len(runs)
      /\ runs'[r] = new /\ \A s \in DOMAIN runs \ {r} : runs'[s] = runs[s]
  BY Replaced DEF TypeInv
<1>2. TypeInv'
  BY <1>1 DEF TypeInv
<1>3. Len(runs) \in Nat /\ runs[r] \in Run
  BY Indexed
<1>4. CASE new.pc \notin {"admitting", "applying"} /\ ~new.alone
  BY <1>1, <1>2, <1>3, <1>4 DEF Idle
<1>5. CASE runs[r].pc = "admitting" /\ new = [runs[r] EXCEPT !.pc = "applying"]
  <2>1. /\ new.pc = "applying" /\ new.who = runs[r].who /\ new.located = runs[r].located
        /\ new.deletes = runs[r].deletes /\ new.replies = runs[r].replies
        /\ new.creates = runs[r].creates /\ new.alone = runs[r].alone /\ new.stale = runs[r].stale
    BY <1>3, <1>5 DEF Run
  <2>2. QED
    BY <1>1, <1>2, <1>3, <1>5, <2>1 DEF Idle
<1>6. CASE Opening(r) /\ runs[r].creates = {} /\ new = [runs[r] EXCEPT !.pc = "done"]
  <2>1. /\ new.pc = "done" /\ new.who = runs[r].who /\ new.located = runs[r].located
        /\ new.deletes = runs[r].deletes /\ new.replies = runs[r].replies
        /\ new.creates = runs[r].creates /\ new.alone = runs[r].alone /\ new.stale = runs[r].stale
    BY <1>3, <1>6 DEF Run
  <2>2. Nothing(runs[r]) /\ runs[r].pc = "applying"
    BY <1>6 DEF Opening, Nothing
  <2>3. QED
    BY <1>1, <1>2, <1>3, <2>1, <2>2 DEF Idle
<1>7. QED
  BY <1>4, <1>5, <1>6

LEMMA StartEffect ==
  ASSUME TypeInv, NEW who \in Identities, Start(who)
  PROVE  TypeInv' /\ Idle
<1> DEFINE new == [Unplanned EXCEPT !.who = who, !.located = claims, !.stale = FALSE]
<1>1. new \in Run /\ new.pc = "listing" /\ ~new.alone
  BY ThreadsAssumption DEF Unplanned, Run, Who, TypeInv
<1>2. runs' = Append(runs, new)
  BY DEF Start
<1> HIDE DEF new
<1>3. /\ runs' \in Seq(Run) /\ Len(runs') = Len(runs) + 1 /\ Len(runs) \in Nat
      /\ DOMAIN runs' = DOMAIN runs \cup {Len(runs) + 1} /\ runs'[Len(runs) + 1] = new
      /\ \A s \in DOMAIN runs : runs'[s] = runs[s]
  BY <1>1, <1>2, Appended DEF TypeInv
<1>4. TypeInv'
  BY <1>3 DEF TypeInv, Start
<1>5. UNCHANGED <<comments, overlapped>>
  BY DEF Start
<1>6. ASSUME NEW r \in DOMAIN runs'
      PROVE  \/ r \in DOMAIN runs /\ runs'[r] = runs[r]
             \/ runs'[r].pc = "listing" /\ ~runs'[r].alone
  BY <1>1, <1>3
<1>7. Idle
  BY <1>3, <1>5, <1>6 DEF Idle
<1>8. QED
  BY <1>4, <1>7

LEMMA IdleSteps ==
  ASSUME TypeInv, NEW r \in DOMAIN runs,
         \/ Admit(r)
         \/ Complete(r)
         \/ RequestFails(r)
         \/ Cancel(r)
         \/ \E t \in DOMAIN comments : Answer(r, t) /\ comments[t].gone # Standing
  PROVE  TypeInv' /\ Idle
<1>1. runs[r] \in Run
  BY Indexed
<1>2. /\ AfterFailure(runs[r]) \in Run /\ Failed \in Run
      /\ AfterFailure(runs[r]).pc \notin {"admitting", "applying"} /\ ~AfterFailure(runs[r]).alone
      /\ Failed.pc \notin {"admitting", "applying"} /\ ~Failed.alone
  BY <1>1, UnplannedType, GivingUp
<1>3. [runs[r] EXCEPT !.pc = "applying"] \in Run /\ [runs[r] EXCEPT !.pc = "done"] \in Run
  BY <1>1 DEF Run
<1>4. CASE Admit(r)
  <2>1. CASE \A i \in runs[r].deletes \cup runs[r].replies : comments[i].gone = Standing
    <3>1. runs' = [runs EXCEPT ![r] = [runs[r] EXCEPT !.pc = "applying"]]
      BY <1>4, <2>1 DEF Admit
    <3>2. QED
      BY <1>3, <1>4, <3>1, IdleRun DEF Admit
  <2>2. CASE ~\A i \in runs[r].deletes \cup runs[r].replies : comments[i].gone = Standing
    <3>1. runs' = [runs EXCEPT ![r] = AfterFailure(runs[r])]
      BY <1>4, <2>2 DEF Admit
    <3>2. QED
      BY <1>2, <1>4, <3>1, IdleRun DEF Admit
  <2>3. QED
    BY <2>1, <2>2
<1>5. CASE Complete(r)
  <2>1. runs' = [runs EXCEPT ![r] = [runs[r] EXCEPT !.pc = "done"]]
    BY <1>5 DEF Complete
  <2>2. QED
    BY <1>3, <1>5, <2>1, IdleRun DEF Complete
<1>6. CASE RequestFails(r)
  BY <1>2, <1>6, IdleRun DEF RequestFails
<1>7. CASE Cancel(r)
  BY <1>2, <1>7, IdleRun DEF Cancel
<1>8. CASE \E t \in DOMAIN comments : Answer(r, t) /\ comments[t].gone # Standing
  BY <1>2, <1>8, IdleRun DEF Answer
<1>9. QED
  BY <1>4, <1>5, <1>6, <1>7, <1>8

(* A listing.                                                              *)
Listed(r) ==
    /\ comments' = comments
    /\ Len(runs') = Len(runs) /\ DOMAIN runs' = DOMAIN runs
    /\ \A s \in DOMAIN runs \ {r} : runs'[s] = runs[s]
    /\ runs'[r].pc \in {"admitting", "applying"}
    /\ runs'[r].who = runs[r].who /\ runs'[r].located = runs[r].located
    /\ runs'[r].stale = runs[r].stale /\ runs'[r].alone
    /\ runs'[r].deletes = Deletes(comments, runs[r].located)
    /\ runs'[r].replies = Answers(comments, runs[r].located)
    /\ runs'[r].creates = Creates(comments, runs[r].located)
    /\ ~overlapped' => ~overlapped /\ \A o \in DOMAIN runs \ {r} : ~Applying(o)

LEMMA ListEffect ==
  ASSUME TypeInv, NEW r \in DOMAIN runs, List(r)
  PROVE  TypeInv' /\ Listed(r)
<1> DEFINE new == [runs[r] EXCEPT
                      !.pc = IF runs[r].who = "app" THEN "admitting" ELSE "applying",
                      !.deletes = Deletes(comments, runs[r].located),
                      !.replies = Answers(comments, runs[r].located),
                      !.creates = Creates(comments, runs[r].located),
                      !.alone = TRUE]
<1>1. runs[r] \in Run /\ DOMAIN comments \subseteq Nat
  BY Indexed
<1>2. /\ Deletes(comments, runs[r].located) \subseteq DOMAIN comments
      /\ Answers(comments, runs[r].located) \subseteq DOMAIN comments
      /\ Creates(comments, runs[r].located) \subseteq Fingerprints
  BY DEF Deletes, Closing, Answers, Finished, Replies, Roots, Creates, Claimed
<1>3. new \in Run
  BY <1>1, <1>2 DEF Run
<1>4. /\ new.pc \in {"admitting", "applying"} /\ new.who = runs[r].who
      /\ new.located = runs[r].located /\ new.stale = runs[r].stale /\ new.alone
      /\ new.deletes = Deletes(comments, runs[r].located)
      /\ new.replies = Answers(comments, runs[r].located)
      /\ new.creates = Creates(comments, runs[r].located)
  BY <1>1 DEF Run
<1>5. runs' = [runs EXCEPT ![r] = new]
  BY DEF List
<1> HIDE DEF new
<1>6. /\ runs' \in Seq(Run) /\ DOMAIN runs' = DOMAIN runs /\ Len(runs') = Len(runs)
      /\ runs'[r] = new /\ \A s \in DOMAIN runs \ {r} : runs'[s] = runs[s]
  BY <1>3, <1>5, Replaced DEF TypeInv
<1>7. /\ UNCHANGED <<claims, pushes, comments>> /\ overlapped' \in BOOLEAN
      /\ ~overlapped' => ~overlapped /\ \A o \in DOMAIN runs \ {r} : ~Applying(o)
  BY DEF List, TypeInv
<1>8. TypeInv'
  BY <1>6, <1>7 DEF TypeInv
<1>9. Listed(r)
  BY <1>4, <1>6, <1>7 DEF Listed
<1>10. QED
  BY <1>8, <1>9

(* A push, which only marks threads as outdated and every live run stale.   *)
SameText(a, b) ==
    /\ a.root = b.root /\ a.fp = b.fp /\ a.body = b.body /\ a.who = b.who
    /\ a.onFile = b.onFile /\ a.unheard = b.unheard

Pushed ==
    /\ Len(comments') = Len(comments) /\ DOMAIN comments' = DOMAIN comments
    /\ \A i \in DOMAIN comments :
         /\ SameText(comments'[i], comments[i])
         /\ comments'[i].gone = comments[i].gone /\ comments'[i].refused = comments[i].refused
    /\ Len(runs') = Len(runs) /\ DOMAIN runs' = DOMAIN runs
    /\ \A s \in DOMAIN runs : SamePlan(runs'[s], runs[s]) /\ ~runs'[s].alone
    /\ overlapped' = overlapped

LEMMA PushEffect ==
  ASSUME TypeInv, NEW located \in [Fingerprints -> {NotReported} \cup Places],
         NEW outdated \in SUBSET Roots(comments), Push(located, outdated)
  PROVE  TypeInv' /\ Pushed
<1> DEFINE marked(i) == [comments[i] EXCEPT !.outdated = @ \/ i \in outdated]
           d == Disturbed(runs, 0)
           aged(s) == [d[s] EXCEPT !.stale = ~Ended(s)]
<1>1. /\ Len(comments) \in Nat /\ DOMAIN comments = 1..Len(comments)
      /\ \A i \in DOMAIN comments : comments[i] \in Comment
      /\ Len(runs) \in Nat /\ DOMAIN runs = 1..Len(runs) /\ 0 \notin DOMAIN runs
  BY Indexed
<1>2. /\ d \in Seq(Run) /\ DOMAIN d = DOMAIN runs
      /\ \A s \in DOMAIN runs : Hushed(d[s], runs[s])
  BY <1>1, DisturbedRuns
<1>3. \A i \in 1..Len(comments) :
        /\ marked(i) \in Comment /\ SameText(marked(i), comments[i])
        /\ marked(i).gone = comments[i].gone /\ marked(i).refused = comments[i].refused
  BY <1>1 DEF Comment, SameText
<1>4. comments' = [i \in 1..Len(comments) |-> marked(i)]
  BY <1>1 DEF Push
<1> HIDE DEF d
<1>5. \A s \in 1..Len(runs) : d[s] \in Run /\ Hushed(d[s], runs[s])
  BY <1>1, <1>2
<1>6. \A s \in 1..Len(runs) : aged(s) \in Run /\ SamePlan(aged(s), d[s]) /\ aged(s).alone = d[s].alone
  BY <1>5 DEF Run, SamePlan, Ended
<1>7. runs' = [s \in 1..Len(runs) |-> aged(s)]
  BY <1>1 DEF Push, d
<1> HIDE DEF marked, aged
<1>8. comments' \in Seq(Comment) /\ Len(comments') = Len(comments)
  BY <1>1, <1>3, <1>4
<1>9. runs' \in Seq(Run) /\ Len(runs') = Len(runs)
  BY <1>1, <1>6, <1>7
<1>10. TypeInv'
  BY <1>8, <1>9 DEF TypeInv, Push
<1>11. \A s \in DOMAIN runs : SamePlan(runs'[s], runs[s]) /\ ~runs'[s].alone
  BY <1>1, <1>5, <1>6, <1>7 DEF SamePlan, Hushed
<1>12. QED
  BY <1>1, <1>3, <1>4, <1>7, <1>8, <1>9, <1>10, <1>11 DEF Pushed, Push

(* A reply is written under t, and no comment there was is touched.        *)
Written(c) ==
    /\ Len(comments') = Len(comments) + 1
    /\ DOMAIN comments' = DOMAIN comments \cup {Len(comments) + 1}
    /\ Len(comments) + 1 \notin DOMAIN comments
    /\ comments'[Len(comments) + 1] = c
    /\ \A i \in DOMAIN comments : comments'[i] = comments[i]

ReplyUnder(c, t) == c.root = t /\ c.gone = Standing

Others(r) ==
    /\ Len(runs') = Len(runs) /\ DOMAIN runs' = DOMAIN runs
    /\ \A s \in DOMAIN runs : s # r => Hushed(runs'[s], runs[s])

\* Its identity, revision and stage are what they were.
Goes(r) ==
    /\ runs'[r].pc = runs[r].pc /\ runs'[r].who = runs[r].who
    /\ runs'[r].located = runs[r].located /\ runs'[r].stale = runs[r].stale
    /\ runs'[r].alone = runs[r].alone

SpokenUnder(t) ==
    /\ t \in Roots(comments) /\ Others(0) /\ overlapped' = overlapped
    /\ \E c \in Comment :
         /\ Written(c) /\ ReplyUnder(c, t) /\ ~Ours(c) /\ c.body = Words
         /\ c.unheard = {r \in DOMAIN runs : Applying(r)}

LEMMA SpeakEffect ==
  ASSUME TypeInv, NEW t \in Roots(comments), Speak(t)
  PROVE  TypeInv' /\ SpokenUnder(t)
<1> DEFINE c == [root |-> t, fp |-> Person, body |-> Words, who |-> Person, onFile |-> FALSE,
                 outdated |-> FALSE, gone |-> Standing, refused |-> FALSE,
                 unheard |-> {r \in DOMAIN runs : Applying(r)}]
<1>1. t \in Nat /\ DOMAIN runs \subseteq Nat /\ 0 \notin DOMAIN runs
  BY Indexed DEF Roots
<1>2. /\ c \in Comment /\ ReplyUnder(c, t) /\ ~Ours(c) /\ c.body = Words
      /\ c.unheard = {r \in DOMAIN runs : Applying(r)}
  BY <1>1, BodiesType DEF Comment, ReplyUnder, Ours, Standing
<1>3. comments' = Append(comments, c) /\ runs' = Disturbed(runs, 0)
  BY DEF Speak
<1> HIDE DEF c
<1>4. /\ comments' \in Seq(Comment) /\ Written(c)
  BY <1>2, <1>3, Appended DEF TypeInv, Written
<1>5. runs' \in Seq(Run) /\ Others(0)
  BY <1>1, <1>3, DisturbedRuns DEF Others
<1>6. TypeInv'
  BY <1>4, <1>5 DEF TypeInv, Speak
<1>7. SpokenUnder(t)
  BY <1>2, <1>4, <1>5 DEF SpokenUnder, Speak
<1>8. QED
  BY <1>6, <1>7

(* A request of the plan is done: the rest of the plan is left to do.      *)
LEMMA PlanShrinks ==
  ASSUME TypeInv, NEW r \in DOMAIN runs, NEW new \in Run,
         runs' = [Disturbed(runs, r) EXCEPT ![r] = new]
  PROVE  runs' \in Seq(Run) /\ Others(r) /\ runs'[r] = new
<1> DEFINE d == Disturbed(runs, r)
<1>1. r \in Nat
  BY Indexed
<1>2. d \in Seq(Run) /\ DOMAIN d = DOMAIN runs /\ Len(d) = Len(runs)
  BY <1>1, DisturbedRuns
<1>3. \A s \in DOMAIN runs : s # r => Hushed(d[s], runs[s])
  BY <1>1, DisturbedRuns
<1> HIDE DEF d
<1>4. /\ [d EXCEPT ![r] = new] \in Seq(Run) /\ DOMAIN [d EXCEPT ![r] = new] = DOMAIN d
      /\ Len([d EXCEPT ![r] = new]) = Len(d) /\ [d EXCEPT ![r] = new][r] = new
      /\ \A s \in DOMAIN d \ {r} : [d EXCEPT ![r] = new][s] = d[s]
  BY <1>2, Replaced
<1>5. runs' = [d EXCEPT ![r] = new]
  BY DEF d
<1>6. QED
  BY <1>2, <1>3, <1>4, <1>5 DEF Others

DeleteDone(r, i) ==
    /\ runs[r].pc = "applying" /\ i \in runs[r].deletes
    /\ \A j \in runs[r].deletes \ {i} : Sooner(comments, i, j)
    /\ Others(r) /\ Goes(r)
    /\ runs'[r].deletes = runs[r].deletes \ {i}
    /\ runs'[r].replies = runs[r].replies /\ runs'[r].creates = runs[r].creates
    /\ overlapped' = overlapped

\* The comment is down; or stands, refused, and its root says so.
Removed(r, i) ==
    /\ comments[i].gone = Standing /\ comments[i].who = runs[r].who
    /\ Len(comments') = Len(comments) /\ DOMAIN comments' = DOMAIN comments
    /\ \A j \in DOMAIN comments \ {i} : comments'[j] = comments[j]
    /\ SameText(comments'[i], comments[i]) /\ comments'[i].gone = r
    /\ comments'[i].refused = comments[i].refused /\ comments'[i].outdated = comments[i].outdated

Denied(i) ==
    /\ \A j \in DOMAIN comments \ {i} : comments'[j] = comments[j]
    /\ SameText(comments'[i], comments[i]) /\ comments'[i].gone = Standing
    /\ comments'[i].refused /\ comments'[i].outdated = comments[i].outdated

Posted(r, t) ==
    /\ Len(comments') = Len(comments) + 1
    /\ DOMAIN comments' = DOMAIN comments \cup {Len(comments) + 1}
    /\ Len(comments) + 1 \notin DOMAIN comments
    /\ LET c == comments'[Len(comments) + 1] IN
         /\ ReplyUnder(c, t) /\ c.fp = comments[t].fp /\ c.who = runs[r].who
         /\ c.body = LastWord(comments, runs[r].located, t)

RefusedWith(r, i) ==
    /\ comments[i].gone = Standing /\ comments[i].who # runs[r].who /\ Denied(i)
    /\ \/ ~IsRoot(comments[i]) /\ Len(comments') = Len(comments) /\ DOMAIN comments' = DOMAIN comments
       \/ IsRoot(comments[i]) /\ Posted(r, i)

LEMMA ReplyType ==
  ASSUME TypeInv, NEW r \in DOMAIN runs, NEW t \in DOMAIN comments, Ours(comments[t])
  PROVE  LET c == Reply(r, t, LastWord(comments, runs[r].located, t)) IN
           /\ c \in Comment /\ ReplyUnder(c, t) /\ c.fp = comments[t].fp /\ c.who = runs[r].who
           /\ c.body = LastWord(comments, runs[r].located, t)
           /\ c.body \in LastWords
<1>1. comments[t] \in Comment /\ runs[r] \in Run /\ t \in Nat
  BY Indexed
<1>2. comments[t].fp \in Fingerprints
  BY <1>1 DEF Comment, Ours
<1>3. LastWord(comments, runs[r].located, t) \in LastWords
  BY <1>1, <1>2, LastWordType DEF Run
<1>4. QED
  BY <1>1, <1>2, <1>3, BodiesType DEF Reply, ReplyUnder, Comment, Run, Standing

LEMMA DeleteEffect ==
  ASSUME Base, NEW r \in DOMAIN runs, NEW i \in DOMAIN comments, Delete(r, i)
  PROVE  /\ TypeInv' /\ DeleteDone(r, i)
         /\ \/ comments[i].gone # Standing /\ comments' = comments
            \/ Removed(r, i)
            \/ RefusedWith(r, i)
<1> DEFINE new == [runs[r] EXCEPT !.deletes = @ \ {i}]
           down == [comments[i] EXCEPT !.gone = r]
           denied == [comments[i] EXCEPT !.refused = TRUE]
           said == Refused(comments, runs[r].located, i)
<1>0. TypeInv /\ comments \in Seq(Comment) /\ runs \in Seq(Run)
  BY DEF Base, TypeInv
<1>1. runs[r] \in Run /\ comments[i] \in Comment /\ r \in Nat
  BY <1>0, Indexed
<1>2. /\ new \in Run /\ new.pc = runs[r].pc /\ new.who = runs[r].who
      /\ new.located = runs[r].located /\ new.stale = runs[r].stale /\ new.alone = runs[r].alone
      /\ new.deletes = runs[r].deletes \ {i}
      /\ new.replies = runs[r].replies /\ new.creates = runs[r].creates
  BY <1>1 DEF Run
<1>3. Disturbed(runs, r)[r] = runs[r]
  BY <1>0, <1>1, DisturbedRuns
<1>4. runs' = [Disturbed(runs, r) EXCEPT ![r] = new]
  BY <1>3 DEF Delete
<1> HIDE DEF new
<1>5. runs' \in Seq(Run) /\ Others(r) /\ runs'[r] = new
  BY <1>0, <1>2, <1>4, PlanShrinks
<1>6. DeleteDone(r, i)
  BY <1>2, <1>5 DEF DeleteDone, Goes, Delete, TakingDown
<1>7. /\ down \in Comment /\ SameText(down, comments[i]) /\ down.gone = r
      /\ down.refused = comments[i].refused /\ down.outdated = comments[i].outdated
  BY <1>1 DEF Comment, SameText
<1>8. /\ denied \in Comment /\ SameText(denied, comments[i]) /\ denied.gone = comments[i].gone
      /\ denied.refused /\ denied.outdated = comments[i].outdated
  BY <1>1 DEF Comment, SameText
<1>9. CASE comments[i].gone # Standing
  <2>1. comments' = comments
    BY <1>9 DEF Delete
  <2>2. QED
    BY <1>0, <1>5, <1>6, <1>9, <2>1 DEF TypeInv, Delete
<1>10. CASE comments[i].gone = Standing /\ comments[i].who = runs[r].who
  <2>1. comments' = [comments EXCEPT ![i] = down]
    BY <1>10 DEF Delete
  <2> HIDE DEF down
  <2>2. comments' \in Seq(Comment) /\ Removed(r, i)
    BY <1>0, <1>7, <1>10, <2>1, Replaced DEF Removed
  <2>3. QED
    BY <1>0, <1>5, <1>6, <2>2 DEF TypeInv, Delete
<1>11. CASE comments[i].gone = Standing /\ comments[i].who # runs[r].who
  <2> DEFINE marked == [comments EXCEPT ![i] = denied]
  <2>1. marked = [comments EXCEPT ![i].refused = TRUE]
    BY <1>0
  <2>2. comments' = IF said = Silent THEN marked ELSE Append(marked, Reply(r, i, said))
    BY <1>11, <2>1 DEF Delete
  <2> HIDE DEF denied
  <2>3. /\ marked \in Seq(Comment) /\ DOMAIN marked = DOMAIN comments /\ Len(marked) = Len(comments)
        /\ marked[i] = denied /\ \A j \in DOMAIN comments \ {i} : marked[j] = comments[j]
    BY <1>0, <1>8, Replaced
  <2> HIDE DEF marked
  <2>4. Ours(comments[i])
    BY <1>6 DEF DeleteDone, Base, PlansOK, PlanOK, Applying
  <2>5. CASE ~IsRoot(comments[i])
    <3>1. said = Silent
      BY <2>5 DEF Refused, IsRoot
    <3>2. comments' = marked
      BY <2>2, <3>1
    <3>3. RefusedWith(r, i)
      BY <1>8, <1>11, <2>3, <2>5, <3>2 DEF RefusedWith, Denied
    <3>4. QED
      BY <1>0, <1>5, <1>6, <2>3, <3>2, <3>3 DEF TypeInv, Delete
  <2>6. CASE IsRoot(comments[i])
    <3> DEFINE c == Reply(r, i, LastWord(comments, runs[r].located, i))
    <3>1. /\ c \in Comment /\ ReplyUnder(c, i) /\ c.fp = comments[i].fp /\ c.who = runs[r].who
          /\ c.body = LastWord(comments, runs[r].located, i) /\ c.body \in LastWords
      BY <1>0, <2>4, ReplyType
    <3>2. said = LastWord(comments, runs[r].located, i)
      BY <2>6 DEF Refused, IsRoot
    <3>3. said # Silent
      BY <3>1, <3>2, Sentences
    <3>4. comments' = Append(marked, c)
      BY <2>2, <3>2, <3>3
    <3> HIDE DEF c
    <3>5. /\ comments' \in Seq(Comment) /\ Len(comments') = Len(comments) + 1
          /\ DOMAIN comments' = DOMAIN comments \cup {Len(comments) + 1}
          /\ Len(comments) + 1 \notin DOMAIN comments
          /\ comments'[Len(comments) + 1] = c
          /\ \A j \in DOMAIN comments : comments'[j] = marked[j]
      BY <2>3, <3>1, <3>4, Appended
    <3>6. Denied(i)
      BY <1>8, <1>11, <2>3, <3>5 DEF Denied
    <3>7. Posted(r, i)
      BY <3>1, <3>5 DEF Posted
    <3>8. QED
      BY <1>0, <1>5, <1>6, <1>11, <2>6, <3>5, <3>6, <3>7 DEF TypeInv, Delete, RefusedWith
  <2>7. QED
    BY <2>5, <2>6
<1>12. QED
  BY <1>9, <1>10, <1>11

Answered(r, t) ==
    /\ runs[r].pc = "applying" /\ runs[r].deletes = {} /\ t \in runs[r].replies
    /\ comments[t].gone = Standing
    /\ Posted(r, t) /\ \A i \in DOMAIN comments : comments'[i] = comments[i]
    /\ Others(r) /\ Goes(r)
    /\ runs'[r].replies = runs[r].replies \ {t}
    /\ runs'[r].deletes = {} /\ runs'[r].creates = runs[r].creates
    /\ overlapped' = overlapped

LEMMA AnswerEffect ==
  ASSUME Base, NEW r \in DOMAIN runs, NEW t \in DOMAIN comments, Answer(r, t),
         comments[t].gone = Standing
  PROVE  TypeInv' /\ Answered(r, t)
<1> DEFINE new == [runs[r] EXCEPT !.replies = @ \ {t}]
           c == Reply(r, t, LastWord(comments, runs[r].located, t))
<1>0. TypeInv /\ comments \in Seq(Comment) /\ runs \in Seq(Run)
  BY DEF Base, TypeInv
<1>1. runs[r] \in Run /\ comments[t] \in Comment /\ r \in Nat
  BY <1>0, Indexed
<1>2. /\ new \in Run /\ new.pc = runs[r].pc /\ new.who = runs[r].who
      /\ new.located = runs[r].located /\ new.stale = runs[r].stale /\ new.alone = runs[r].alone
      /\ new.replies = runs[r].replies \ {t}
      /\ new.deletes = runs[r].deletes /\ new.creates = runs[r].creates
  BY <1>1 DEF Run
<1>3. Disturbed(runs, r)[r] = runs[r]
  BY <1>0, <1>1, DisturbedRuns
<1>4. runs' = [Disturbed(runs, r) EXCEPT ![r] = new] /\ comments' = Append(comments, c)
  BY <1>3 DEF Answer
<1> HIDE DEF new
<1>5. runs' \in Seq(Run) /\ Others(r) /\ runs'[r] = new
  BY <1>0, <1>2, <1>4, PlanShrinks
<1>6. runs[r].pc = "applying" /\ runs[r].deletes = {} /\ t \in runs[r].replies
  BY DEF Answer, Answering
<1>7. Wellformed(comments, t) /\ IsRoot(comments[t])
  BY <1>6 DEF Base, Shapes, PlansOK, PlanOK, Applying
<1>8. Ours(comments[t])
  BY <1>7 DEF Wellformed
<1>9. /\ c \in Comment /\ ReplyUnder(c, t) /\ c.fp = comments[t].fp /\ c.who = runs[r].who
      /\ c.body = LastWord(comments, runs[r].located, t)
  BY <1>0, <1>8, ReplyType
<1> HIDE DEF c
<1>10. /\ comments' \in Seq(Comment) /\ Posted(r, t)
       /\ \A i \in DOMAIN comments : comments'[i] = comments[i]
  BY <1>0, <1>4, <1>9, Appended DEF Posted
<1>11. TypeInv'
  BY <1>0, <1>5, <1>10 DEF TypeInv, Answer
<1>12. Answered(r, t)
  BY <1>2, <1>5, <1>6, <1>10 DEF Answered, Goes, Answer
<1>13. QED
  BY <1>11, <1>12

(***************************************************************************)
(* The list of a finite set has each of its elements, once.                *)
(***************************************************************************)
LEMMA Listing ==
  ASSUME NEW S, IsFiniteSet(S)
  PROVE  /\ SetToSeq(S) \in Seq(S) /\ Len(SetToSeq(S)) \in Nat
         /\ DOMAIN SetToSeq(S) = 1..Len(SetToSeq(S))
         /\ \A m, n \in DOMAIN SetToSeq(S) : SetToSeq(S)[m] = SetToSeq(S)[n] => m = n
         /\ \A x \in S : \E n \in DOMAIN SetToSeq(S) : SetToSeq(S)[n] = x
<1> DEFINE k == Cardinality(S)
           s == SetToSeq(S)
<1>1. k \in Nat /\ ExistsBijection(1..k, S)
  BY FS_CardinalityType
<1>2. PICK b \in Bijection(1..k, S) : TRUE
  BY <1>1 DEF ExistsBijection
<1>3. b \in [1..k -> S] /\ IsInjective(b)
  BY <1>2 DEF Bijection, Injection
<1>4. s \in [1..k -> S] /\ IsInjective(s)
  BY <1>3 DEF SetToSeq
<1>5. s \in Injection(1..k, S)
  BY <1>4 DEF Injection
<1>6. IsFiniteSet(1..k) /\ Cardinality(1..k) = k
  BY <1>1, FS_Interval
<1>7. s \in Surjection(1..k, S)
  BY <1>5, <1>6, FS_Injection
<1> HIDE DEF s, k
<1>8. s \in Seq(S) /\ DOMAIN s = 1..k /\ Len(s) = k
  BY <1>1, <1>4
<1>9. \A m, n \in DOMAIN s : s[m] = s[n] => m = n
  BY <1>4, <1>8 DEF IsInjective
<1>10. \A x \in S : \E n \in DOMAIN s : s[n] = x
  BY <1>7, <1>8 DEF Surjection
<1>11. QED
  BY <1>1, <1>8, <1>9, <1>10 DEF s

(* Threads are opened, one for each of the claims in S.                    *)
New == DOMAIN comments' \ DOMAIN comments

OpenedFor(r, S) ==
    /\ runs[r].pc = "applying" /\ runs[r].deletes = {} /\ runs[r].replies = {}
    /\ S \subseteq runs[r].creates
    /\ Others(r) /\ Goes(r)
    /\ runs'[r].creates = runs[r].creates \ S
    /\ runs'[r].deletes = {} /\ runs'[r].replies = {}
    /\ DOMAIN comments \subseteq DOMAIN comments'
    /\ \A i \in DOMAIN comments : comments'[i] = comments[i]
    /\ \A j \in New :
         LET c == comments'[j] IN
         /\ IsRoot(c) /\ Ours(c) /\ c.who \in Who /\ c.fp \in S /\ c.gone = Standing
         /\ c.outdated => runs[r].stale
    /\ \A j, k \in New : comments'[j].fp = comments'[k].fp => j = k
    /\ \A f \in S : \E j \in New : comments'[j].fp = f
    /\ overlapped' = overlapped

LEMMA OpenedType ==
  ASSUME TypeInv, NEW r \in DOMAIN runs, NEW f \in Fingerprints, NEW outdated \in BOOLEAN
  PROVE  LET c == Opened(r, f, outdated) IN
           /\ c \in Comment /\ c.fp = f /\ IsRoot(c) /\ Ours(c) /\ c.who \in Who /\ c.gone = Standing
           /\ c.outdated => runs[r].stale
<1>1. runs[r] \in Run /\ f # Person
  BY Indexed, ThreadsAssumption
<1>2. QED
  BY <1>1, BodiesType DEF Opened, Comment, Run, IsRoot, Ours, NoRoot, Standing

LEMMA CreatesLeft ==
  ASSUME TypeInv, NEW r \in DOMAIN runs, NEW left \in SUBSET runs[r].creates,
         runs' = [Disturbed(runs, r) EXCEPT ![r].creates = left]
  PROVE  /\ runs' \in Seq(Run) /\ Others(r) /\ Goes(r)
         /\ runs'[r].creates = left
         /\ runs'[r].deletes = runs[r].deletes /\ runs'[r].replies = runs[r].replies
<1> DEFINE new == [runs[r] EXCEPT !.creates = left]
<1>1. runs[r] \in Run /\ r \in Nat
  BY Indexed
<1>2. /\ new \in Run /\ new.pc = runs[r].pc /\ new.who = runs[r].who
      /\ new.located = runs[r].located /\ new.stale = runs[r].stale /\ new.alone = runs[r].alone
      /\ new.creates = left
      /\ new.deletes = runs[r].deletes /\ new.replies = runs[r].replies
  BY <1>1 DEF Run
<1>3. Disturbed(runs, r)[r] = runs[r]
  BY <1>1, DisturbedRuns
<1>4. runs' = [Disturbed(runs, r) EXCEPT ![r] = new]
  BY <1>3
<1> HIDE DEF new
<1>5. runs' \in Seq(Run) /\ Others(r) /\ runs'[r] = new
  BY <1>2, <1>4, PlanShrinks
<1>6. QED
  BY <1>2, <1>5 DEF Goes

LEMMA OpenEffect ==
  ASSUME TypeInv, NEW r \in DOMAIN runs, NEW outdated \in BOOLEAN, Open(r, outdated)
  PROVE  TypeInv' /\ OpenedFor(r, runs[r].creates \ Filed(r))
<1> DEFINE S == runs[r].creates \ Filed(r)
           s == SetToSeq(S)
           fresh == [n \in DOMAIN s |-> Opened(r, s[n], outdated)]
           k == Len(s)
<1>1. runs[r] \in Run /\ S \subseteq Fingerprints /\ Filed(r) \subseteq runs[r].creates
  BY Indexed DEF Run, Filed
<1>2. IsFiniteSet(S)
  BY <1>1, ThreadsAssumption, FS_Subset
<1>3. comments' = comments \o fresh
  BY DEF Open
<1>4. runs' = [Disturbed(runs, r) EXCEPT ![r].creates = Filed(r)]
  BY DEF Open
<1>5. /\ s \in Seq(S) /\ k \in Nat /\ DOMAIN s = 1..k
      /\ \A m, n \in DOMAIN s : s[m] = s[n] => m = n
      /\ \A x \in S : \E n \in DOMAIN s : s[n] = x
  BY <1>2, Listing
<1> HIDE DEF s, k
<1>6. \A n \in 1..k : s[n] \in S
  BY <1>5 DEF k
<1>7. \A n \in 1..k :
        LET c == Opened(r, s[n], outdated) IN
           /\ c \in Comment /\ c.fp = s[n] /\ IsRoot(c) /\ Ours(c) /\ c.who \in Who /\ c.gone = Standing
           /\ c.outdated => runs[r].stale
  BY <1>1, <1>6, OpenedType
<1>8. /\ fresh \in Seq(Comment) /\ Len(fresh) = k
      /\ \A n \in 1..k : fresh[n] = Opened(r, s[n], outdated)
  BY <1>5, <1>7
<1> HIDE DEF fresh
<1>9. Len(comments) \in Nat /\ comments \in Seq(Comment) /\ DOMAIN comments = 1..Len(comments)
  BY DEF TypeInv
<1>10. /\ comments' \in Seq(Comment) /\ Len(comments') = Len(comments) + k
       /\ DOMAIN comments' = 1..(Len(comments) + k)
       /\ \A i \in DOMAIN comments : comments'[i] = comments[i]
       /\ \A n \in 1..k : comments'[Len(comments) + n] = fresh[n]
  <2>1. /\ comments \o fresh \in Seq(Comment)
        /\ Len(comments \o fresh) = Len(comments) + Len(fresh)
        /\ DOMAIN (comments \o fresh) = 1..(Len(comments) + Len(fresh))
        /\ \A i \in DOMAIN comments : (comments \o fresh)[i] = comments[i]
        /\ \A n \in 1..Len(fresh) : (comments \o fresh)[Len(comments) + n] = fresh[n]
    <3>1. comments \in Seq(Comment) /\ fresh \in Seq(Comment)
      BY <1>8, <1>9
    <3>2. QED
      BY <3>1
  <2>2. QED
    BY <1>3, <1>8, <2>1
<1>11. \A j \in New : \E n \in 1..k : j = Len(comments) + n
  <2>1. ASSUME NEW j \in New
        PROVE  j - Len(comments) \in 1..k /\ j = Len(comments) + (j - Len(comments))
    BY <1>5, <1>9, <1>10 DEF New
  <2>2. QED
    BY <2>1
<1>12. \A n \in 1..k : Len(comments) + n \in New /\ comments'[Len(comments) + n].fp = s[n]
  <2>1. ASSUME NEW n \in 1..k
        PROVE  Len(comments) + n \in New
    BY <1>5, <1>9, <1>10 DEF New
  <2>2. ASSUME NEW n \in 1..k
        PROVE  comments'[Len(comments) + n].fp = s[n]
    BY <1>7, <1>8, <1>10
  <2>3. QED
    BY <2>1, <2>2
<1>13. /\ runs' \in Seq(Run) /\ Others(r) /\ Goes(r) /\ runs'[r].creates = Filed(r)
       /\ runs'[r].deletes = runs[r].deletes /\ runs'[r].replies = runs[r].replies
  BY <1>1, <1>4, CreatesLeft
<1>14. TypeInv'
  BY <1>10, <1>13 DEF TypeInv, Open
<1>15. \A j \in New :
         LET c == comments'[j] IN
           /\ IsRoot(c) /\ Ours(c) /\ c.who \in Who /\ c.fp \in S /\ c.gone = Standing
           /\ c.outdated => runs[r].stale
  BY <1>6, <1>7, <1>8, <1>10, <1>11
<1>16. \A j, m \in New : comments'[j].fp = comments'[m].fp => j = m
  <2>1. SUFFICES ASSUME NEW j \in New, NEW m \in New, comments'[j].fp = comments'[m].fp
                 PROVE  j = m
    OBVIOUS
  <2>2. PICK a \in 1..k : j = Len(comments) + a
    BY <1>11
  <2>3. PICK b \in 1..k : m = Len(comments) + b
    BY <1>11
  <2>4. s[a] = s[b]
    BY <1>12, <2>1, <2>2, <2>3
  <2>5. a = b
    BY <1>5, <2>4
  <2>6. QED
    BY <2>2, <2>3, <2>5
<1>17. \A f \in S : \E j \in New : comments'[j].fp = f
  BY <1>5, <1>12
<1>18. runs[r].creates \ S = Filed(r)
  BY <1>1
<1>19. runs[r].pc = "applying" /\ runs[r].deletes = {} /\ runs[r].replies = {} /\ overlapped' = overlapped
  BY DEF Open, Opening
<1>20. DOMAIN comments \subseteq DOMAIN comments'
  BY <1>5, <1>9, <1>10
<1>21. QED
  BY <1>10, <1>13, <1>14, <1>15, <1>16, <1>17, <1>18, <1>19, <1>20 DEF OpenedFor

LEMMA OpenFileEffect ==
  ASSUME TypeInv, NEW r \in DOMAIN runs, NEW f \in Fingerprints, OpenFile(r, f)
  PROVE  TypeInv' /\ OpenedFor(r, {f})
<1> DEFINE c == Opened(r, f, FALSE)
<1>1. /\ c \in Comment /\ c.fp = f /\ IsRoot(c) /\ Ours(c) /\ c.who \in Who /\ c.gone = Standing
      /\ c.outdated => runs[r].stale
  BY OpenedType
<1>2. comments' = Append(comments, c)
  BY DEF OpenFile
<1> HIDE DEF c
<1>3. comments' \in Seq(Comment) /\ Written(c)
  BY <1>1, <1>2, Appended DEF TypeInv, Written
<1>4. New = {Len(comments) + 1}
  BY <1>3 DEF Written, New
<1>5. /\ runs[r].pc = "applying" /\ runs[r].deletes = {} /\ runs[r].replies = {} /\ overlapped' = overlapped
      /\ f \in runs[r].creates /\ Disturbed(runs, r)[r] = runs[r]
  BY Indexed, DisturbedRuns DEF OpenFile, Opening
<1>6. runs' = [Disturbed(runs, r) EXCEPT ![r].creates = runs[r].creates \ {f}]
  BY <1>5 DEF OpenFile
<1>7. /\ runs' \in Seq(Run) /\ Others(r) /\ Goes(r) /\ runs'[r].creates = runs[r].creates \ {f}
      /\ runs'[r].deletes = runs[r].deletes /\ runs'[r].replies = runs[r].replies
  <2>1. runs[r].creates \ {f} \in SUBSET runs[r].creates
    OBVIOUS
  <2>2. QED
    BY <1>6, <2>1, CreatesLeft
<1>8. TypeInv'
  BY <1>3, <1>7 DEF TypeInv, OpenFile
<1>9. QED
  BY <1>1, <1>3, <1>4, <1>5, <1>7, <1>8 DEF OpenedFor, Written

(***************************************************************************)
(* Every step is of one of these kinds.                                    *)
(***************************************************************************)
DeletedStep(r, i) ==
    /\ DeleteDone(r, i)
    /\ \/ comments[i].gone # Standing /\ comments' = comments
       \/ Removed(r, i)
       \/ RefusedWith(r, i)

Kinds ==
    \/ Idle \/ Pushed
    \/ \E r \in DOMAIN runs : Listed(r)
    \/ \E t \in DOMAIN comments : SpokenUnder(t)
    \/ \E r \in DOMAIN runs, i \in DOMAIN comments : DeletedStep(r, i)
    \/ \E r \in DOMAIN runs, t \in DOMAIN comments : Answered(r, t)
    \/ \E r \in DOMAIN runs, S \in SUBSET Fingerprints : OpenedFor(r, S)

LEMMA RunKinds ==
  ASSUME Base, NEW r \in DOMAIN runs, RunStep(r)
  PROVE  TypeInv' /\ Kinds
<1>0. TypeInv
  BY DEF Base
<1>1. CASE List(r)
  BY <1>0, <1>1, ListEffect DEF Kinds
<1>2. CASE Admit(r) \/ Complete(r)
  BY <1>0, <1>2, IdleSteps DEF Kinds
<1>3. ASSUME NEW i \in DOMAIN comments, Delete(r, i)
      PROVE  TypeInv' /\ Kinds
  BY <1>3, DeleteEffect DEF Kinds, DeletedStep
<1>4. ASSUME NEW t \in DOMAIN comments, Answer(r, t)
      PROVE  TypeInv' /\ Kinds
  <2>1. CASE comments[t].gone = Standing
    BY <1>4, <2>1, AnswerEffect DEF Kinds
  <2>2. CASE comments[t].gone # Standing
    BY <1>0, <1>4, <2>2, IdleSteps DEF Kinds
  <2>3. QED
    BY <2>1, <2>2
<1>5. ASSUME NEW outdated \in BOOLEAN, Open(r, outdated)
      PROVE  TypeInv' /\ Kinds
  <2>1. runs[r].creates \ Filed(r) \in SUBSET Fingerprints
    BY <1>0, Indexed DEF Run
  <2>2. QED
    BY <1>0, <1>5, <2>1, OpenEffect DEF Kinds
<1>6. ASSUME NEW f \in Fingerprints, OpenFile(r, f)
      PROVE  TypeInv' /\ Kinds
  <2>1. {f} \in SUBSET Fingerprints
    OBVIOUS
  <2>2. QED
    BY <1>0, <1>6, <2>1, OpenFileEffect DEF Kinds
<1>7. QED
  BY <1>1, <1>2, <1>3, <1>4, <1>5, <1>6 DEF RunStep

LEMMA NextKinds ==
  ASSUME Base, [Next]_vars
  PROVE  TypeInv' /\ Kinds
<1>0. TypeInv
  BY DEF Base
<1>1. ASSUME NEW located \in [Fingerprints -> {NotReported} \cup Places],
             NEW outdated \in SUBSET Roots(comments), Push(located, outdated)
      PROVE  TypeInv' /\ Kinds
  BY <1>0, <1>1, PushEffect DEF Kinds
<1>2. ASSUME NEW t \in Roots(comments), Speak(t)
      PROVE  TypeInv' /\ Kinds
  BY <1>0, <1>2, SpeakEffect DEF Kinds, Roots
<1>3. ASSUME NEW who \in Identities, Start(who)
      PROVE  TypeInv' /\ Kinds
  BY <1>0, <1>3, StartEffect DEF Kinds
<1>4. ASSUME NEW r \in DOMAIN runs, RunStep(r) \/ RequestFails(r) \/ Cancel(r)
      PROVE  TypeInv' /\ Kinds
  BY <1>0, <1>4, RunKinds, IdleSteps DEF Kinds
<1>5. CASE UNCHANGED vars
  <2>1. TypeInv'
    BY <1>0, <1>5 DEF TypeInv, vars
  <2>2. Idle
    BY <1>0, <1>5, Indexed DEF Idle, vars
  <2>3. QED
    BY <2>1, <2>2 DEF Kinds
<1>6. QED
  BY <1>1, <1>2, <1>3, <1>4, <1>5 DEF Next

(* What is written never changes: a step adds comments, takes some down and *)
(* marks others. *)
Grows ==
    /\ DOMAIN comments \subseteq DOMAIN comments'
    /\ \A i \in DOMAIN comments : SameText(comments'[i], comments[i])

LEMMA KindsGrow ==
  ASSUME Base, Kinds
  PROVE  Grows /\ Len(runs) <= Len(runs') /\ DOMAIN runs \subseteq DOMAIN runs'
<1>1. Len(runs) \in Nat /\ DOMAIN runs = 1..Len(runs)
  BY Indexed DEF Base
<1>2. CASE Idle
  BY <1>1, <1>2 DEF Idle, Grows, SameText
<1>3. CASE Pushed
  BY <1>1, <1>3 DEF Pushed, Grows
<1>4. CASE \E r \in DOMAIN runs : Listed(r)
  BY <1>1, <1>4 DEF Listed, Grows, SameText
<1>5. CASE \E t \in DOMAIN comments : SpokenUnder(t)
  BY <1>1, <1>5 DEF SpokenUnder, Written, Others, Grows, SameText
<1>6. ASSUME NEW r \in DOMAIN runs, NEW i \in DOMAIN comments, DeletedStep(r, i)
      PROVE  Grows /\ Len(runs) <= Len(runs') /\ DOMAIN runs \subseteq DOMAIN runs'
  <2>1. Others(r)
    BY <1>6 DEF DeletedStep, DeleteDone
  <2>2. CASE comments' = comments
    BY <1>1, <2>1, <2>2 DEF Others, Grows, SameText
  <2>3. CASE Removed(r, i)
    BY <1>1, <2>1, <2>3 DEF Others, Grows, Removed, SameText
  <2>4. CASE RefusedWith(r, i)
    BY <1>1, <2>1, <2>4 DEF Others, Grows, RefusedWith, Denied, Posted, SameText
  <2>5. QED
    BY <1>6, <2>2, <2>3, <2>4 DEF DeletedStep
<1>7. CASE \E r \in DOMAIN runs, t \in DOMAIN comments : Answered(r, t)
  BY <1>1, <1>7 DEF Answered, Posted, Others, Grows, SameText
<1>8. CASE \E r \in DOMAIN runs, S \in SUBSET Fingerprints : OpenedFor(r, S)
  BY <1>1, <1>8 DEF OpenedFor, Others, Grows, SameText
<1>9. QED
  BY <1>2, <1>3, <1>4, <1>5, <1>6, <1>7, <1>8 DEF Kinds

LEMMA IndexedNext ==
  ASSUME TypeInv'
  PROVE  /\ Len(comments') \in Nat /\ DOMAIN comments' = 1..Len(comments')
         /\ \A i \in DOMAIN comments' : comments'[i] \in Comment
         /\ Len(runs') \in Nat /\ DOMAIN runs' = 1..Len(runs')
         /\ \A r \in DOMAIN runs' : runs'[r] \in Run
BY DEF TypeInv

(***************************************************************************)
(* Shapes.                                                                 *)
(***************************************************************************)
LEMMA ShapesKept ==
  ASSUME Base, TypeInv', Grows, Len(runs) <= Len(runs'),
         \A i \in DOMAIN comments :
            \/ comments'[i].gone = comments[i].gone
            \/ Ours(comments[i]) /\ comments'[i].gone \in DOMAIN runs,
         \A j \in New : Wellformed(comments', j) /\ comments'[j].gone = Standing
  PROVE  Shapes'
<1>1. /\ DOMAIN comments = 1..Len(comments) /\ Len(comments) \in Nat
      /\ DOMAIN runs = 1..Len(runs) /\ Len(runs) \in Nat
  BY Indexed DEF Base
<1>2. Len(runs') \in Nat
  BY IndexedNext
<1>3. ASSUME NEW i \in DOMAIN comments
      PROVE  Wellformed(comments', i) /\ comments'[i].gone \in 0..Len(runs')
  <2>1. Wellformed(comments, i) /\ comments[i].gone \in 0..Len(runs)
    BY DEF Base, Shapes
  <2>2. comments'[i].gone \in 0..Len(runs')
    BY <1>1, <1>2, <2>1
  <2>3. SameText(comments'[i], comments[i])
    BY DEF Grows
  <2>4. ~Ours(comments'[i]) => comments'[i].gone = Standing
    BY <2>1, <2>3 DEF Wellformed, SameText, Ours
  <2>5. CASE IsRoot(comments[i])
    BY <2>1, <2>3, <2>4, <2>5 DEF Wellformed, SameText, Ours, IsRoot
  <2>6. CASE ~IsRoot(comments[i])
    <3>1. comments[i].root \in 1..(i - 1) /\ comments[i].root \in DOMAIN comments
      BY <1>1, <2>1, <2>6 DEF Wellformed
    <3>2. SameText(comments'[comments[i].root], comments[comments[i].root])
      BY <3>1 DEF Grows
    <3>3. QED
      BY <2>1, <2>3, <2>4, <2>6, <3>1, <3>2 DEF Wellformed, SameText, Ours, IsRoot
  <2>7. QED
    BY <2>2, <2>5, <2>6
<1>4. \A j \in New : comments'[j].gone \in 0..Len(runs')
  BY <1>2 DEF Standing
<1>5. QED
  BY <1>3, <1>4 DEF Shapes, New

(* The two ways a reply is written in a thread.                            *)
LEMMA PostedShape ==
  ASSUME Base, TypeInv', Grows, NEW r \in DOMAIN runs, NEW t \in DOMAIN comments, Posted(r, t),
         IsRoot(comments[t])
  PROVE  /\ New = {Len(comments) + 1}
         /\ LET c == comments'[Len(comments) + 1] IN
              ~IsRoot(c) /\ Ours(c) /\ c.root = t /\ c.body \in LastWords /\ c.gone = Standing
         /\ \A j \in New : Wellformed(comments', j) /\ comments'[j].gone = Standing
<1> DEFINE n == Len(comments) + 1
<1>1. DOMAIN comments = 1..Len(comments) /\ Len(comments) \in Nat
  BY Indexed DEF Base
<1>2. New = {n}
  BY DEF Posted, New
<1>3. Ours(comments[t]) /\ comments[t] \in Comment /\ runs[r] \in Run
  BY Indexed DEF Base, Shapes, Wellformed
<1>4. comments[t].fp \in Fingerprints
  BY <1>3 DEF Comment, Ours
<1>5. LastWord(comments, runs[r].located, t) \in LastWords
  BY <1>3, <1>4, LastWordType DEF Run
<1>6. /\ comments'[n].root = t /\ comments'[n].gone = Standing
      /\ comments'[n].fp = comments[t].fp /\ comments'[n].who = runs[r].who
      /\ comments'[n].body \in LastWords
  BY <1>5 DEF Posted, ReplyUnder
<1>7. SameText(comments'[t], comments[t])
  BY DEF Grows
<1>8. /\ t \in 1..(n - 1) /\ ~IsRoot(comments'[n]) /\ IsRoot(comments'[t])
      /\ comments'[n].fp = comments'[t].fp
  BY <1>1, <1>6, <1>7 DEF IsRoot, NoRoot, SameText
<1>9. Ours(comments'[n]) /\ comments'[n].who \in Who
  BY <1>3, <1>6 DEF Ours, Run
<1>10. Wellformed(comments', n)
  BY <1>6, <1>8, <1>9 DEF Wellformed
<1>11. QED
  BY <1>2, <1>6, <1>8, <1>9, <1>10

LEMMA SpokenShape ==
  ASSUME Base, Grows, NEW t \in DOMAIN comments, SpokenUnder(t)
  PROVE  /\ New = {Len(comments) + 1}
         /\ LET c == comments'[Len(comments) + 1] IN
              /\ ~IsRoot(c) /\ ~Ours(c) /\ c.root = t /\ c.body = Words /\ c.gone = Standing
              /\ c.unheard = {r \in DOMAIN runs : Applying(r)}
         /\ \A j \in New : Wellformed(comments', j) /\ comments'[j].gone = Standing
<1> DEFINE n == Len(comments) + 1
<1>1. DOMAIN comments = 1..Len(comments) /\ Len(comments) \in Nat
  BY Indexed DEF Base
<1>2. PICK c \in Comment :
         /\ Written(c) /\ ReplyUnder(c, t) /\ ~Ours(c) /\ c.body = Words
         /\ c.unheard = {r \in DOMAIN runs : Applying(r)}
  BY DEF SpokenUnder
<1>3. New = {n} /\ comments'[n] = c
  BY <1>2 DEF Written, New
<1>4. IsRoot(comments[t]) /\ SameText(comments'[t], comments[t])
  BY DEF SpokenUnder, Roots, IsRoot, Grows
<1>5. t \in 1..(n - 1) /\ ~IsRoot(comments'[n]) /\ IsRoot(comments'[t])
  BY <1>1, <1>2, <1>3, <1>4 DEF IsRoot, NoRoot, SameText, ReplyUnder
<1>6. Wellformed(comments', n)
  BY <1>2, <1>3, <1>5 DEF Wellformed, ReplyUnder
<1>7. QED
  BY <1>2, <1>3, <1>5, <1>6 DEF ReplyUnder

LEMMA ShapesNext ==
  ASSUME Base, TypeInv', Kinds
  PROVE  Shapes'
<1>0. Grows /\ Len(runs) <= Len(runs') /\ DOMAIN runs \subseteq DOMAIN runs'
  BY KindsGrow
<1>1. CASE comments' = comments
  <2>1. New = {}
    BY <1>1 DEF New
  <2>2. QED
    BY <1>0, <1>1, <2>1, ShapesKept
<1>2. CASE Pushed
  <2>1. New = {}
    BY <1>2 DEF New, Pushed
  <2>2. QED
    BY <1>0, <1>2, <2>1, ShapesKept DEF Pushed
<1>3. ASSUME NEW t \in DOMAIN comments, SpokenUnder(t)
      PROVE  Shapes'
  <2>1. \A j \in New : Wellformed(comments', j) /\ comments'[j].gone = Standing
    BY <1>0, <1>3, SpokenShape
  <2>2. \A i \in DOMAIN comments : comments'[i].gone = comments[i].gone
    BY <1>3 DEF SpokenUnder, Written
  <2>3. QED
    BY <1>0, <2>1, <2>2, ShapesKept
<1>4. ASSUME NEW r \in DOMAIN runs, NEW i \in DOMAIN comments, DeletedStep(r, i)
      PROVE  Shapes'
  <2>1. Ours(comments[i])
    BY <1>4 DEF DeletedStep, DeleteDone, Base, PlansOK, PlanOK, Applying
  <2>2. CASE Removed(r, i)
    <3>1. New = {}
      BY <2>2 DEF New, Removed
    <3>2. QED
      BY <1>0, <2>1, <2>2, <3>1, ShapesKept DEF Removed
  <2>3. CASE RefusedWith(r, i)
    <3>1. \A k \in DOMAIN comments : comments'[k].gone = comments[k].gone
      BY <2>3 DEF RefusedWith, Denied
    <3>2. CASE ~IsRoot(comments[i])
      <4>1. New = {}
        BY <2>3, <3>2 DEF New, RefusedWith
      <4>2. QED
        BY <1>0, <3>1, <4>1, ShapesKept
    <3>3. CASE IsRoot(comments[i])
      <4>1. Posted(r, i)
        BY <2>3, <3>3 DEF RefusedWith
      <4>2. \A j \in New : Wellformed(comments', j) /\ comments'[j].gone = Standing
        BY <1>0, <3>3, <4>1, PostedShape
      <4>3. QED
        BY <1>0, <3>1, <4>2, ShapesKept
    <3>4. QED
      BY <3>2, <3>3
  <2>4. QED
    BY <1>1, <1>4, <2>2, <2>3 DEF DeletedStep
<1>5. ASSUME NEW r \in DOMAIN runs, NEW t \in DOMAIN comments, Answered(r, t)
      PROVE  Shapes'
  <2>1. IsRoot(comments[t])
    BY <1>5 DEF Answered, Base, PlansOK, PlanOK, Applying
  <2>2. \A j \in New : Wellformed(comments', j) /\ comments'[j].gone = Standing
    BY <1>0, <1>5, <2>1, PostedShape DEF Answered
  <2>3. \A i \in DOMAIN comments : comments'[i].gone = comments[i].gone
    BY <1>5 DEF Answered
  <2>4. QED
    BY <1>0, <2>2, <2>3, ShapesKept
<1>6. ASSUME NEW r \in DOMAIN runs, NEW S \in SUBSET Fingerprints, OpenedFor(r, S)
      PROVE  Shapes'
  <2>1. \A j \in New : Wellformed(comments', j) /\ comments'[j].gone = Standing
    BY <1>6 DEF OpenedFor, Wellformed
  <2>2. \A i \in DOMAIN comments : comments'[i].gone = comments[i].gone
    BY <1>6 DEF OpenedFor
  <2>3. QED
    BY <1>0, <2>1, <2>2, ShapesKept
<1>7. QED
  BY <1>1, <1>2, <1>3, <1>4, <1>5, <1>6 DEF Kinds, Idle, Listed

(***************************************************************************)
(* The plans: a plan computed is a plan; what is left of one is one.       *)
(***************************************************************************)
LEMMA PlanOfListing ==
  ASSUME Base, NEW r \in DOMAIN runs, Listed(r)
  PROVE  PlanOK(comments, runs'[r])
<1> DEFINE located == runs[r].located
           new == runs'[r]
<1>1. /\ new.deletes = Deletes(comments, located) /\ new.replies = Answers(comments, located)
      /\ new.creates = Creates(comments, located) /\ new.located = located
  BY DEF Listed
<1>2. \A t \in Finished(comments, located) :
        t \in DOMAIN comments /\ IsRoot(comments[t]) /\ Ours(comments[t])
  BY DEF Finished, Roots, IsRoot, Ours
<1>3. ASSUME NEW i \in new.deletes
      PROVE  /\ i \in DOMAIN comments /\ Ours(comments[i])
             /\ ~IsRoot(comments[i]) => comments[i].root \in new.deletes
             /\ IsRoot(comments[i]) => i \in Closing(comments, located)
  <2>1. PICK t \in Closing(comments, located) : i \in Replies(comments, t) \cup {t}
    BY <1>1 DEF Deletes
  <2>2. t \in Finished(comments, located) /\ Sole(comments, t)
    BY <2>1 DEF Closing
  <2>3. CASE i = t
    BY <1>2, <2>1, <2>2, <2>3
  <2>4. CASE i \in Replies(comments, t)
    <3>1. comments[i].root = t /\ t # NoRoot /\ i \in DOMAIN comments
      <4>1. DOMAIN comments = 1..Len(comments) /\ Len(comments) \in Nat
        BY Indexed DEF Base
      <4>2. t \in DOMAIN comments
        BY <1>2, <2>2
      <4>3. QED
        BY <2>4, <4>1, <4>2 DEF Replies, NoRoot
    <3>2. Ours(comments[i]) /\ ~IsRoot(comments[i])
      BY <2>2, <2>4, <3>1 DEF Sole, Ours, IsRoot
    <3>3. t \in new.deletes
      BY <1>1, <2>1 DEF Deletes
    <3>4. QED
      BY <3>1, <3>2, <3>3
  <2>5. QED
    BY <2>1, <2>3, <2>4
<1>4. ASSUME NEW t \in new.replies
      PROVE  t \in DOMAIN comments /\ IsRoot(comments[t]) /\ t \notin new.deletes
  <2>1. t \in Finished(comments, located) /\ ~Sole(comments, t)
    BY <1>1 DEF Answers
  <2>2. t \notin Closing(comments, located)
    BY <2>1 DEF Closing
  <2>3. QED
    BY <1>2, <1>3, <2>1, <2>2
<1>5. new.creates \subseteq Claimed(new.located)
  BY <1>1 DEF Creates
<1> HIDE DEF new
<1>6. PlanOK(comments, new)
  BY <1>3, <1>4, <1>5 DEF PlanOK
<1>7. QED
  BY <1>6 DEF new

LEMMA PlanLeft ==
  ASSUME Base, Grows, NEW s \in DOMAIN runs, Applying(s), NEW new,
         new.located = runs[s].located, new.deletes \subseteq runs[s].deletes,
         new.replies \subseteq runs[s].replies, new.creates \subseteq runs[s].creates,
         \A i \in new.deletes : ~IsRoot(comments[i]) => comments[i].root \in new.deletes
  PROVE  PlanOK(comments', new)
<1>1. PlanOK(comments, runs[s])
  BY DEF Base, PlansOK
<1>2. \A i \in DOMAIN comments : SameText(comments'[i], comments[i]) /\ i \in DOMAIN comments'
  BY DEF Grows
<1>3. QED
  BY <1>1, <1>2 DEF PlanOK, SameText, Ours, IsRoot

(* The run that stood by.                                                  *)
LEMMA PlanStands ==
  ASSUME Base, Grows, NEW s \in DOMAIN runs, Applying(s), NEW new, SamePlan(new, runs[s])
  PROVE  PlanOK(comments', new)
<1>1. \A i \in runs[s].deletes : ~IsRoot(comments[i]) => comments[i].root \in runs[s].deletes
  BY DEF Base, PlansOK, PlanOK
<1>2. QED
  BY <1>1, PlanLeft DEF SamePlan

(* Every reply goes before its root.                                       *)
LEMMA RepliesFirst ==
  ASSUME Base, NEW r \in DOMAIN runs, NEW i \in DOMAIN comments, DeleteDone(r, i)
  PROVE  /\ \A j \in runs[r].deletes : j # i /\ ~IsRoot(comments[j]) => comments[j].root # i
         /\ IsRoot(comments[i]) => \A j \in DOMAIN comments : comments[j].root = i => j \notin runs[r].deletes
<1>0. DOMAIN comments = 1..Len(comments) /\ Len(comments) \in Nat
  BY Indexed DEF Base
<1>1. PlanOK(comments, runs[r])
  BY DEF DeleteDone, Base, PlansOK, Applying
<1>2. ASSUME NEW j \in runs[r].deletes, j # i, comments[j].root = i, j \in DOMAIN comments
      PROVE  FALSE
  <2>1. Sooner(comments, i, j)
    BY <1>2 DEF DeleteDone
  <2>2. i # NoRoot /\ Wellformed(comments, j)
    BY <1>0, <1>2 DEF NoRoot, Base, Shapes
  <2>3. IsRoot(comments[i]) /\ ~IsRoot(comments[j])
    BY <1>2, <2>2 DEF Wellformed, IsRoot
  <2>4. Thread(comments, i) = i /\ Thread(comments, j) = i
    BY <1>2, <2>3 DEF Thread, IsRoot
  <2>5. i \in Nat
    BY <1>0
  <2>6. QED
    BY <2>1, <2>3, <2>4, <2>5 DEF Sooner, IsRoot
<1>3. runs[r].deletes \subseteq DOMAIN comments
  BY <1>1 DEF PlanOK
<1>4. ASSUME IsRoot(comments[i])
      PROVE  comments[i].root # i
  BY <1>0, <1>4 DEF IsRoot, NoRoot
<1>5. QED
  BY <1>2, <1>3, <1>4

LEMMA PlansNext ==
  ASSUME Base, TypeInv', Kinds
  PROVE  PlansOK'
<1>0. Grows /\ DOMAIN runs \subseteq DOMAIN runs'
  BY KindsGrow
<1> SUFFICES ASSUME NEW s \in DOMAIN runs', runs'[s].pc \in {"admitting", "applying"}
             PROVE  PlanOK(comments', runs'[s])
  BY DEF PlansOK, Applying
<1>1. ASSUME NEW r, Others(r), s # r
      PROVE  PlanOK(comments', runs'[s])
  <2>1. s \in DOMAIN runs /\ SamePlan(runs'[s], runs[s])
    BY <1>1 DEF Others, Hushed
  <2>2. Applying(s)
    BY <2>1 DEF SamePlan, Applying
  <2>3. QED
    BY <1>0, <2>1, <2>2, PlanStands
<1>2. CASE Idle
  <2>1. /\ s \in DOMAIN runs /\ Applying(s)
        /\ runs'[s].located = runs[s].located /\ runs'[s].deletes = runs[s].deletes
        /\ runs'[s].replies = runs[s].replies /\ runs'[s].creates = runs[s].creates
    BY <1>2 DEF Idle, Applying
  <2>2. \A i \in runs[s].deletes : ~IsRoot(comments[i]) => comments[i].root \in runs[s].deletes
    BY <2>1 DEF Base, PlansOK, PlanOK
  <2>3. QED
    BY <1>0, <2>1, <2>2, PlanLeft
<1>3. CASE Pushed
  <2>1. s \in DOMAIN runs /\ SamePlan(runs'[s], runs[s])
    BY <1>3 DEF Pushed
  <2>2. Applying(s)
    BY <2>1 DEF SamePlan, Applying
  <2>3. QED
    BY <1>0, <2>1, <2>2, PlanStands
<1>4. ASSUME NEW r \in DOMAIN runs, Listed(r)
      PROVE  PlanOK(comments', runs'[s])
  <2>1. CASE s = r
    BY <1>4, <2>1, PlanOfListing DEF Listed
  <2>2. CASE s # r
    <3>1. s \in DOMAIN runs /\ runs'[s] = runs[s] /\ comments' = comments
      BY <1>4, <2>2 DEF Listed
    <3>2. QED
      BY <3>1 DEF Base, PlansOK, Applying
  <2>3. QED
    BY <2>1, <2>2
<1>5. ASSUME NEW t \in DOMAIN comments, SpokenUnder(t)
      PROVE  PlanOK(comments', runs'[s])
  <2>1. Others(0) /\ s # 0
    BY <1>5, IndexedNext DEF SpokenUnder
  <2>2. QED
    BY <1>1, <2>1
<1>6. ASSUME NEW r \in DOMAIN runs, NEW i \in DOMAIN comments, DeletedStep(r, i)
      PROVE  PlanOK(comments', runs'[s])
  <2>1. DeleteDone(r, i) /\ Others(r) /\ Applying(r)
    BY <1>6 DEF DeletedStep, DeleteDone, Applying
  <2>2. CASE s = r
    <3>1. /\ runs'[r].located = runs[r].located /\ runs'[r].deletes = runs[r].deletes \ {i}
          /\ runs'[r].replies = runs[r].replies /\ runs'[r].creates = runs[r].creates
      BY <2>1 DEF DeleteDone, Goes
    <3>2. \A j \in runs[r].deletes \ {i} :
            ~IsRoot(comments[j]) => comments[j].root \in runs[r].deletes \ {i}
      BY <2>1, RepliesFirst DEF Base, PlansOK, PlanOK
    <3>3. QED
      BY <1>0, <2>1, <2>2, <3>1, <3>2, PlanLeft
  <2>3. QED
    BY <1>1, <2>1, <2>2
<1>7. ASSUME NEW r \in DOMAIN runs, NEW t \in DOMAIN comments, Answered(r, t)
      PROVE  PlanOK(comments', runs'[s])
  <2>1. Others(r) /\ Applying(r)
    BY <1>7 DEF Answered, Applying
  <2>2. CASE s = r
    <3>1. /\ runs'[r].located = runs[r].located /\ runs'[r].deletes = {}
          /\ runs'[r].replies \subseteq runs[r].replies /\ runs'[r].creates = runs[r].creates
      BY <1>7 DEF Answered, Goes
    <3>2. QED
      BY <1>0, <2>1, <2>2, <3>1, PlanLeft
  <2>3. QED
    BY <1>1, <2>1, <2>2
<1>8. ASSUME NEW r \in DOMAIN runs, NEW S \in SUBSET Fingerprints, OpenedFor(r, S)
      PROVE  PlanOK(comments', runs'[s])
  <2>1. Others(r) /\ Applying(r)
    BY <1>8 DEF OpenedFor, Applying
  <2>2. CASE s = r
    <3>1. /\ runs'[r].located = runs[r].located /\ runs'[r].deletes = {}
          /\ runs'[r].replies = {} /\ runs'[r].creates \subseteq runs[r].creates
      BY <1>8 DEF OpenedFor, Goes
    <3>2. QED
      BY <1>0, <2>1, <2>2, <3>1, PlanLeft
  <2>3. QED
    BY <1>1, <2>1, <2>2
<1>9. QED
  BY <1>2, <1>3, <1>4, <1>5, <1>6, <1>7, <1>8 DEF Kinds

LEMMA BaseNext ==
  ASSUME Base, [Next]_vars
  PROVE  Base' /\ Kinds /\ Grows
BY NextKinds, KindsGrow, ShapesNext, PlansNext DEF Base

LEMMA BaseInit == Init => Base
<1> SUFFICES ASSUME Init PROVE Base
  OBVIOUS
<1>1. comments = <<>> /\ runs = <<>> /\ overlapped = FALSE /\ pushes = 0
  BY DEF Init
<1>2. claims \in [Fingerprints -> {NotReported} \cup Places]
  BY DEF Init
<1>3. DOMAIN comments = {} /\ DOMAIN runs = {}
  BY <1>1
<1>4. comments \in Seq(Comment) /\ runs \in Seq(Run)
  BY <1>1
<1>5. pushes \in Nat /\ overlapped \in BOOLEAN
  BY <1>1
<1>6. TypeInv
  BY <1>2, <1>4, <1>5 DEF TypeInv
<1>7. QED
  BY <1>3, <1>6 DEF Base, Shapes, PlansOK

(***************************************************************************)
(* Every claim, comment and run of the review threads has its type.        *)
(***************************************************************************)
THEOREM ThreadsTypeCorrect == Spec => []TypeOK
<1>1. Base => TypeOK
  <2> SUFFICES ASSUME Base PROVE TypeOK
    OBVIOUS
  <2>1. ASSUME NEW i \in DOMAIN comments
        PROVE  /\ comments[i].fp \in Fingerprints \cup {Person} /\ comments[i].gone \in 0..Len(runs)
               /\ comments[i].root # NoRoot =>
                    comments[i].root \in 1..(i - 1) /\ comments[comments[i].root].root = NoRoot
    <3>1. comments[i] \in Comment /\ Wellformed(comments, i) /\ comments[i].gone \in 0..Len(runs)
      BY Indexed DEF Base, Shapes
    <3>2. QED
      BY <3>1 DEF Comment, Wellformed, IsRoot
  <2>2. \A r \in DOMAIN runs : runs[r].creates \subseteq Fingerprints
    BY Indexed DEF Base, Run
  <2>3. QED
    BY <2>1, <2>2 DEF TypeOK, Base, TypeInv
<1>2. QED
  BY BaseInit, BaseNext, <1>1, PTL DEF Spec

-----------------------------------------------------------------------------
(***************************************************************************)
(* PeopleKept.  It is inductive with what every plan under way knows: under *)
(* a root it is to take down, it was nobody's turn to speak before it      *)
(* listed, so whoever spoke since is among those it has not heard.         *)
(***************************************************************************)

(* What is new in a step that is nobody's reply is lydite's.               *)
LEMMA NewComments ==
  ASSUME Base, TypeInv', Grows, Kinds
  PROVE  \/ \E t \in DOMAIN comments : SpokenUnder(t)
         \/ \A j \in New : Ours(comments'[j])
<1>1. CASE comments' = comments
  BY <1>1 DEF New
<1>2. CASE Pushed
  BY <1>2 DEF New, Pushed
<1>3. ASSUME NEW r \in DOMAIN runs, NEW i \in DOMAIN comments, DeletedStep(r, i)
      PROVE  \A j \in New : Ours(comments'[j])
  <2>1. CASE Removed(r, i)
    BY <2>1 DEF Removed, New
  <2>2. CASE RefusedWith(r, i) /\ ~IsRoot(comments[i])
    BY <2>2 DEF RefusedWith, New
  <2>3. CASE RefusedWith(r, i) /\ IsRoot(comments[i])
    BY <2>3, PostedShape DEF RefusedWith
  <2>4. CASE comments' = comments
    BY <2>4 DEF New
  <2>5. QED
    BY <1>3, <2>1, <2>2, <2>3, <2>4 DEF DeletedStep
<1>4. ASSUME NEW r \in DOMAIN runs, NEW t \in DOMAIN comments, Answered(r, t)
      PROVE  \A j \in New : Ours(comments'[j])
  <2>1. IsRoot(comments[t])
    BY <1>4 DEF Answered, Base, PlansOK, PlanOK, Applying
  <2>2. QED
    BY <1>4, <2>1, PostedShape DEF Answered
<1>5. ASSUME NEW r \in DOMAIN runs, NEW S \in SUBSET Fingerprints, OpenedFor(r, S)
      PROVE  \A j \in New : Ours(comments'[j])
  BY <1>5 DEF OpenedFor
<1>6. QED
  BY <1>1, <1>2, <1>3, <1>4, <1>5 DEF Kinds, Idle, Listed

(* A plan that is under way after the step was there before, or is new.    *)
LEMMA PlansFrom ==
  ASSUME Base, TypeInv', Kinds, NEW s \in DOMAIN runs', runs'[s].pc \in {"admitting", "applying"}
  PROVE  /\ s \in DOMAIN runs
         /\ \/ Listed(s)
            \/ /\ Applying(s)
               /\ runs'[s].who = runs[s].who /\ runs'[s].located = runs[s].located
               /\ runs'[s].deletes \subseteq runs[s].deletes
               /\ runs'[s].replies \subseteq runs[s].replies
               /\ runs'[s].creates \subseteq runs[s].creates
<1>1. CASE Idle
  BY <1>1 DEF Idle, Applying
<1>2. CASE Pushed
  BY <1>2 DEF Pushed, SamePlan, Applying
<1>3. ASSUME NEW r \in DOMAIN runs, Listed(r)
      PROVE  s \in DOMAIN runs /\ (Listed(s) \/ (s # r /\ runs'[s] = runs[s]))
  <2>1. CASE s = r
    BY <1>3, <2>1 DEF Listed
  <2>2. CASE s # r
    BY <1>3, <2>2 DEF Listed
  <2>3. QED
    BY <2>1, <2>2
<1>4. ASSUME NEW r, Others(r), s # r
      PROVE  s \in DOMAIN runs /\ SamePlan(runs'[s], runs[s])
  BY <1>4 DEF Others, Hushed
<1>5. ASSUME NEW t \in DOMAIN comments, SpokenUnder(t)
      PROVE  s \in DOMAIN runs /\ SamePlan(runs'[s], runs[s])
  <2>1. Others(0) /\ s # 0
    BY <1>5, IndexedNext DEF SpokenUnder
  <2>2. QED
    BY <1>4, <2>1
<1>6. ASSUME NEW r \in DOMAIN runs, NEW i \in DOMAIN comments, DeletedStep(r, i)
      PROVE  \/ s \in DOMAIN runs /\ SamePlan(runs'[s], runs[s])
             \/ /\ s = r /\ Goes(r) /\ runs'[s].deletes \subseteq runs[s].deletes
                /\ runs'[s].replies = runs[s].replies /\ runs'[s].creates = runs[s].creates
  BY <1>4, <1>6 DEF DeletedStep, DeleteDone
<1>7. ASSUME NEW r \in DOMAIN runs, NEW t \in DOMAIN comments, Answered(r, t)
      PROVE  \/ s \in DOMAIN runs /\ SamePlan(runs'[s], runs[s])
             \/ /\ s = r /\ Goes(r) /\ runs'[s].deletes \subseteq runs[s].deletes
                /\ runs'[s].replies \subseteq runs[s].replies /\ runs'[s].creates = runs[s].creates
  BY <1>4, <1>7 DEF Answered
<1>8. ASSUME NEW r \in DOMAIN runs, NEW S \in SUBSET Fingerprints, OpenedFor(r, S)
      PROVE  \/ s \in DOMAIN runs /\ SamePlan(runs'[s], runs[s])
             \/ /\ s = r /\ Goes(r) /\ runs'[s].deletes \subseteq runs[s].deletes
                /\ runs'[s].replies \subseteq runs[s].replies
                /\ runs'[s].creates \subseteq runs[s].creates
  BY <1>4, <1>8 DEF OpenedFor
<1>9. CASE s \in DOMAIN runs /\ SamePlan(runs'[s], runs[s])
  BY <1>9 DEF SamePlan, Applying
<1>10. CASE \E r \in DOMAIN runs :
              /\ s = r /\ Goes(r) /\ runs'[s].deletes \subseteq runs[s].deletes
              /\ runs'[s].replies \subseteq runs[s].replies /\ runs'[s].creates \subseteq runs[s].creates
  BY <1>10 DEF Goes, Applying
<1>11. CASE \E r \in DOMAIN runs : Listed(r)
  BY <1>3, <1>11 DEF Applying
<1>12. QED
  BY <1>1, <1>2, <1>5, <1>6, <1>7, <1>8, <1>9, <1>10, <1>11 DEF Kinds

(* Nobody has spoken in a thread that is to be closed.                     *)
LEMMA ClosingIsSole ==
  ASSUME Base, NEW r \in DOMAIN runs, Listed(r),
         NEW t \in runs'[r].deletes, IsRoot(comments[t])
  PROVE  /\ t \in Closing(comments, runs[r].located) /\ t \in DOMAIN comments
         /\ \A i \in DOMAIN comments : comments[i].root = t => Ours(comments[i])
<1>1. t \in Deletes(comments, runs[r].located)
  BY DEF Listed
<1>2. PICK u \in Closing(comments, runs[r].located) : t \in Replies(comments, u) \cup {u}
  BY <1>1 DEF Deletes
<1>3. u \in DOMAIN comments /\ u # NoRoot
  <2>1. DOMAIN comments = 1..Len(comments) /\ Len(comments) \in Nat
    BY Indexed DEF Base
  <2>2. QED
    BY <1>2, <2>1 DEF Closing, Finished, Roots, NoRoot
<1>4. t = u
  BY <1>2, <1>3 DEF Replies, IsRoot
<1>5. Sole(comments, t)
  BY <1>2, <1>4 DEF Closing
<1>6. ASSUME NEW i \in DOMAIN comments, comments[i].root = t, ~Ours(comments[i])
      PROVE  FALSE
  <2>1. comments[i].gone = Standing
    BY <1>6 DEF Base, Shapes, Wellformed
  <2>2. i \in Replies(comments, t)
    BY <1>6, <2>1 DEF Replies
  <2>3. QED
    BY <1>5, <1>6, <2>2 DEF Sole, Ours
<1>7. QED
  BY <1>2, <1>3, <1>4, <1>6

LEMMA UnheardNext ==
  ASSUME Base, Base', Kinds, Grows, TakenUnheard
  PROVE  TakenUnheard'
<1>0. TypeInv'
  BY DEF Base
<1> SUFFICES ASSUME NEW s \in DOMAIN runs', runs'[s].pc \in {"admitting", "applying"},
                    NEW t \in runs'[s].deletes,
                    IsRoot(comments'[t]),
                    NEW i \in DOMAIN comments', comments'[i].root = t, ~Ours(comments'[i])
             PROVE  s \in comments'[i].unheard
  BY DEF TakenUnheard, UnheardUnder, Applying
<1>1. /\ s \in DOMAIN runs
      /\ Listed(s) \/ (Applying(s) /\ runs'[s].deletes \subseteq runs[s].deletes)
  BY <1>0, PlansFrom
<1>2. CASE Listed(s)
  BY <1>2, ClosingIsSole DEF Listed
<1>3. CASE Applying(s) /\ runs'[s].deletes \subseteq runs[s].deletes
  <2>1. t \in runs[s].deletes /\ t \in DOMAIN comments
    BY <1>1, <1>3 DEF Base, PlansOK, PlanOK
  <2>2. IsRoot(comments[t])
    BY <2>1 DEF Grows, SameText, IsRoot
  <2>3. CASE i \in DOMAIN comments
    <3>1. SameText(comments'[i], comments[i])
      BY <2>3 DEF Grows
    <3>2. s \in comments[i].unheard
      BY <1>3, <2>1, <2>2, <2>3, <3>1, <1>1 DEF TakenUnheard, UnheardUnder, SameText, Ours
    <3>3. QED
      BY <3>1, <3>2 DEF SameText
  <2>4. CASE i \in New
    <3>1. PICK u \in DOMAIN comments : SpokenUnder(u)
      BY <1>0, <2>4, NewComments
    <3>2. comments'[i].unheard = {r \in DOMAIN runs : Applying(r)}
      BY <2>4, <3>1, SpokenShape
    <3>3. QED
      BY <1>1, <1>3, <3>2
  <2>5. QED
    BY <2>3, <2>4 DEF New
<1>4. QED
  BY <1>1, <1>2, <1>3

(* A comment that is taken down is one of the plan's, and whose it says.   *)
LEMMA TakenDown ==
  ASSUME Base, Kinds, NEW k \in DOMAIN comments
  PROVE  \/ comments'[k].gone = comments[k].gone
         \/ \E r \in DOMAIN runs :
              /\ DeletedStep(r, k) /\ Removed(r, k)
              /\ comments'[k].gone = r /\ k \in runs[r].deletes /\ Applying(r)
<1>1. CASE Idle \/ Pushed
  BY <1>1 DEF Idle, Pushed
<1>2. CASE \E r \in DOMAIN runs : Listed(r)
  BY <1>2 DEF Listed
<1>3. CASE \E t \in DOMAIN comments : SpokenUnder(t)
  BY <1>3 DEF SpokenUnder, Written
<1>4. CASE \E r \in DOMAIN runs, i \in DOMAIN comments : DeletedStep(r, i)
  BY <1>4 DEF DeletedStep, DeleteDone, Removed, RefusedWith, Denied, Applying
<1>5. CASE \E r \in DOMAIN runs, t \in DOMAIN comments : Answered(r, t)
  BY <1>5 DEF Answered
<1>6. CASE \E r \in DOMAIN runs, S \in SUBSET Fingerprints : OpenedFor(r, S)
  BY <1>6 DEF OpenedFor
<1>7. QED
  BY <1>1, <1>2, <1>3, <1>4, <1>5, <1>6 DEF Kinds

LEMMA PeopleKeptNext ==
  ASSUME Base, Base', Kinds, Grows, TakenUnheard, PeopleKept
  PROVE  PeopleKept'
<1>0. TypeInv'
  BY DEF Base
<1> SUFFICES ASSUME NEW i \in DOMAIN comments', comments'[i].fp = Person
             PROVE  /\ comments'[i].gone = Standing
                    /\ LET taken == comments'[comments'[i].root].gone
                       IN  taken # Standing => taken \in comments'[i].unheard
  BY DEF PeopleKept
<1>1. ~Ours(comments'[i]) /\ Wellformed(comments', i)
  BY DEF Ours, Base, Shapes
<1>2. comments'[i].gone = Standing
  BY <1>1 DEF Wellformed
<1> DEFINE t == comments'[i].root
<1>3. CASE i \in DOMAIN comments
  <2>1. SameText(comments'[i], comments[i])
    BY <1>3 DEF Grows
  <2>2. ~Ours(comments[i]) /\ comments[i].root = t
    BY <1>1, <2>1 DEF SameText, Ours
  <2>3. Wellformed(comments, i) /\ DOMAIN comments = 1..Len(comments) /\ Len(comments) \in Nat
    BY <1>3, Indexed DEF Base, Shapes
  <2>4. t \in DOMAIN comments /\ IsRoot(comments[t])
    BY <1>3, <2>2, <2>3 DEF Wellformed
  <2>5. CASE comments'[t].gone = comments[t].gone
    BY <1>2, <1>3, <2>1, <2>2, <2>5 DEF PeopleKept, SameText, Ours
  <2>6. CASE \E r \in DOMAIN runs : comments'[t].gone = r /\ t \in runs[r].deletes /\ Applying(r)
    BY <1>2, <1>3, <2>1, <2>2, <2>4, <2>6 DEF TakenUnheard, UnheardUnder, SameText
  <2>7. QED
    BY <2>4, <2>5, <2>6, TakenDown
<1>4. CASE i \in New
  <2>1. PICK u \in DOMAIN comments : SpokenUnder(u)
    BY <1>0, <1>1, <1>4, NewComments
  <2>2. t = u
    BY <1>4, <2>1, SpokenShape
  <2>3. comments'[u] = comments[u] /\ comments[u].gone = Standing
    BY <2>1 DEF SpokenUnder, Written, Roots
  <2>4. QED
    BY <1>2, <2>2, <2>3
<1>5. QED
  BY <1>3, <1>4 DEF New

KeptInv == Base /\ TakenUnheard /\ PeopleKept

(***************************************************************************)
(* Nothing a person wrote is deleted, and the thread they wrote it in goes  *)
(* only by a run that listed before they spoke - however many runs write   *)
(* at once, whichever fail or are refused.                                 *)
(***************************************************************************)
THEOREM PeopleAreKept == Spec => []PeopleKept
<1>1. Init => KeptInv
  <2> SUFFICES ASSUME Init PROVE KeptInv
    OBVIOUS
  <2>1. DOMAIN comments = {} /\ DOMAIN runs = {}
    BY DEF Init
  <2>2. QED
    BY <2>1, BaseInit DEF KeptInv, TakenUnheard, PeopleKept
<1>2. KeptInv /\ [Next]_vars => KeptInv'
  BY BaseNext, UnheardNext, PeopleKeptNext DEF KeptInv
<1>3. KeptInv => PeopleKept
  BY DEF KeptInv
<1>4. QED
  BY <1>1, <1>2, <1>3, PTL DEF Spec

-----------------------------------------------------------------------------
(***************************************************************************)
(* OneThreadPerClaim.  It is inductive with two facts about the plans: one *)
(* at most is under way, and a claim it is to open a thread for has no     *)
(* other than the ones it takes down first and the ones it was refused.    *)
(***************************************************************************)
LEMMA RootsFrom ==
  ASSUME Base, Base', Kinds, Grows, NEW t \in Roots(comments')
  PROVE  \/ t \in Roots(comments) /\ t \in DOMAIN comments
         \/ /\ t \in New
            /\ \E r \in DOMAIN runs, S \in SUBSET Fingerprints : OpenedFor(r, S)
<1>0. TypeInv' /\ DOMAIN runs = 1..Len(runs) /\ Len(runs) \in Nat
  BY Indexed DEF Base
<1>1. CASE t \in DOMAIN comments
  <2>1. SameText(comments'[t], comments[t])
    BY <1>1 DEF Grows
  <2>2. comments'[t].gone = comments[t].gone \/ comments'[t].gone \in DOMAIN runs
    BY <1>1, TakenDown
  <2>3. comments'[t].gone = Standing /\ Standing \notin DOMAIN runs
    BY <1>0 DEF Roots, Standing
  <2>4. QED
    BY <1>1, <2>1, <2>2, <2>3 DEF Roots, SameText
<1>2. CASE t \in New
  <2>1. IsRoot(comments'[t])
    BY DEF Roots, IsRoot
  <2>2. comments' # comments /\ ~Pushed
    BY <1>2 DEF New, Pushed
  <2>3. ASSUME NEW u \in DOMAIN comments, SpokenUnder(u)
        PROVE  FALSE
    BY <1>2, <2>1, <2>3, SpokenShape
  <2>4. ASSUME NEW r \in DOMAIN runs, NEW i \in DOMAIN comments, DeletedStep(r, i)
        PROVE  FALSE
    <3>1. ~Removed(r, i)
      BY <1>2 DEF New, Removed
    <3>2. RefusedWith(r, i)
      BY <2>2, <2>4, <3>1 DEF DeletedStep
    <3>3. IsRoot(comments[i]) /\ Posted(r, i)
      BY <1>2, <3>2 DEF RefusedWith, New
    <3>4. QED
      BY <1>0, <1>2, <2>1, <3>3, PostedShape
  <2>5. ASSUME NEW r \in DOMAIN runs, NEW u \in DOMAIN comments, Answered(r, u)
        PROVE  FALSE
    <3>1. IsRoot(comments[u]) /\ Posted(r, u)
      BY <2>5 DEF Answered, Base, PlansOK, PlanOK, Applying
    <3>2. QED
      BY <1>0, <1>2, <2>1, <3>1, PostedShape
  <2>6. QED
    BY <1>2, <2>2, <2>3, <2>4, <2>5 DEF Kinds, Idle, Listed
<1>3. QED
  BY <1>1, <1>2 DEF Roots, New

LEMMA RefusedStays ==
  ASSUME Base, Kinds, NEW t \in DOMAIN comments, comments[t].refused
  PROVE  comments'[t].refused
<1>1. CASE Idle \/ Pushed
  BY <1>1 DEF Idle, Pushed
<1>2. CASE \E r \in DOMAIN runs : Listed(r)
  BY <1>2 DEF Listed
<1>3. CASE \E u \in DOMAIN comments : SpokenUnder(u)
  BY <1>3 DEF SpokenUnder, Written
<1>4. CASE \E r \in DOMAIN runs, i \in DOMAIN comments : DeletedStep(r, i)
  BY <1>4 DEF DeletedStep, Removed, RefusedWith, Denied
<1>5. CASE \E r \in DOMAIN runs, u \in DOMAIN comments : Answered(r, u)
  BY <1>5 DEF Answered
<1>6. CASE \E r \in DOMAIN runs, S \in SUBSET Fingerprints : OpenedFor(r, S)
  BY <1>6 DEF OpenedFor
<1>7. QED
  BY <1>1, <1>2, <1>3, <1>4, <1>5, <1>6 DEF Kinds

(* A delete leaves a plan by being made.                                   *)
LEMMA DeletesLeft ==
  ASSUME Base, TypeInv', Kinds, NEW s \in DOMAIN runs, Applying(s),
         runs'[s].pc \in {"admitting", "applying"}, ~Listed(s),
         NEW t \in runs[s].deletes \ runs'[s].deletes
  PROVE  t \in DOMAIN comments /\ DeletedStep(s, t)
<1>0. t \in DOMAIN comments /\ s # 0
  BY Indexed DEF Base, PlansOK, PlanOK
<1>1. ~Idle /\ ~Pushed
  BY DEF Idle, Pushed, SamePlan
<1>2. \A r \in DOMAIN runs : ~Listed(r)
  <2>1. ASSUME NEW r \in DOMAIN runs, Listed(r), s # r
        PROVE  FALSE
    BY <2>1 DEF Listed
  <2>2. ASSUME NEW r \in DOMAIN runs, Listed(r), s = r
        PROVE  FALSE
    BY <2>2 DEF Listed
  <2>3. QED
    BY <2>1, <2>2
<1>3. \A r : Others(r) => s = r
  BY DEF Others, Hushed, SamePlan
<1>4. \A u \in DOMAIN comments : ~SpokenUnder(u)
  BY <1>0, <1>3 DEF SpokenUnder
<1>5. ASSUME NEW r \in DOMAIN runs, NEW u \in DOMAIN comments, Answered(r, u)
      PROVE  FALSE
  BY <1>3, <1>5 DEF Answered
<1>6. ASSUME NEW r \in DOMAIN runs, NEW S \in SUBSET Fingerprints, OpenedFor(r, S)
      PROVE  FALSE
  BY <1>3, <1>6 DEF OpenedFor
<1>7. ASSUME NEW r \in DOMAIN runs, NEW i \in DOMAIN comments, DeletedStep(r, i)
      PROVE  s = r /\ t = i
  BY <1>3, <1>7 DEF DeletedStep, DeleteDone
<1>8. PICK r \in DOMAIN runs, i \in DOMAIN comments : DeletedStep(r, i)
  BY <1>1, <1>2, <1>4, <1>5, <1>6 DEF Kinds
<1>9. s = r /\ t = i
  BY <1>7, <1>8
<1>10. QED
  BY <1>0, <1>8, <1>9 DEF DeletedStep, DeleteDone, Removed, RefusedWith, Posted, Goes

(* Overlap is remembered.                                                  *)
LEMMA OverlapStays ==
  ASSUME Kinds, ~overlapped'
  PROVE  ~overlapped
BY DEF Kinds, Idle, Pushed, Listed, SpokenUnder, DeletedStep, DeleteDone, Answered, OpenedFor

LEMMA OneAppliesNext ==
  ASSUME Base, Base', Kinds, OneInv, ~overlapped'
  PROVE  OneApplies'
<1>0. TypeInv' /\ ~overlapped
  BY OverlapStays DEF Base
<1>1. OneApplies
  BY <1>0 DEF OneInv
<1> SUFFICES ASSUME NEW r \in DOMAIN runs', NEW s \in DOMAIN runs',
                    runs'[r].pc \in {"admitting", "applying"},
                    runs'[s].pc \in {"admitting", "applying"}, r # s
             PROVE  FALSE
  BY DEF OneApplies, Applying
<1>2. /\ r \in DOMAIN runs /\ (Listed(r) \/ Applying(r))
      /\ s \in DOMAIN runs /\ (Listed(s) \/ Applying(s))
  BY <1>0, PlansFrom
<1>3. CASE Listed(r)
  <2>1. runs'[s] = runs[s] /\ ~Applying(s)
    BY <1>2, <1>3 DEF Listed
  <2>2. QED
    BY <2>1 DEF Applying
<1>4. CASE Listed(s)
  <2>1. runs'[r] = runs[r] /\ ~Applying(r)
    BY <1>2, <1>4 DEF Listed
  <2>2. QED
    BY <2>1 DEF Applying
<1>5. QED
  BY <1>1, <1>2, <1>3, <1>4 DEF OneApplies

(* The claims left to open are kept by no thread but those to take down.    *)
LEMMA ListingOpens ==
  ASSUME Base, NEW r \in DOMAIN runs, Listed(r),
         NEW t \in Roots(comments), comments[t].fp \in runs'[r].creates
  PROVE  t \in runs'[r].deletes
<1> DEFINE located == runs[r].located
<1>1. comments[t].fp \in Claimed(located) \ Kept(comments, located)
  BY DEF Listed, Creates
<1>2. comments[t].fp # Person
  BY ThreadsAssumption, <1>1 DEF Claimed
<1>3. Adrift(comments, located, t) /\ Sole(comments, t)
  BY <1>1, <1>2 DEF Kept
<1>4. t \in Closing(comments, located)
  BY <1>2, <1>3 DEF Closing, Finished
<1>5. t \in Deletes(comments, located)
  BY <1>4 DEF Deletes
<1>6. QED
  BY <1>5 DEF Listed

LEMMA OpensNext ==
  ASSUME Base, Base', Kinds, Grows, OneInv, ~overlapped'
  PROVE  Opens'
<1>0. TypeInv' /\ ~overlapped
  BY OverlapStays DEF Base
<1>1. OneApplies /\ Opens
  BY <1>0 DEF OneInv
<1> SUFFICES ASSUME NEW s \in DOMAIN runs', runs'[s].pc \in {"admitting", "applying"},
                    NEW t \in Roots(comments'), comments'[t].fp \in runs'[s].creates
             PROVE  comments'[t].refused \/ t \in runs'[s].deletes
  BY DEF Opens, Applying
<1>2. CASE s \in DOMAIN runs /\ Listed(s)
  <2>1. comments' = comments
    BY <1>2 DEF Listed
  <2>2. QED
    BY <1>2, <2>1, ListingOpens
<1>3. CASE /\ s \in DOMAIN runs /\ Applying(s) /\ ~Listed(s)
           /\ runs'[s].creates \subseteq runs[s].creates
  <2>1. CASE t \in Roots(comments) /\ t \in DOMAIN comments
    <3>1. SameText(comments'[t], comments[t])
      BY <2>1 DEF Grows
    <3>2. comments[t].refused \/ t \in runs[s].deletes
      BY <1>1, <1>3, <2>1, <3>1 DEF Opens, SameText
    <3>3. CASE comments[t].refused
      BY <2>1, <3>3, RefusedStays
    <3>4. CASE t \in runs[s].deletes \ runs'[s].deletes
      <4>1. DeletedStep(s, t)
        BY <1>0, <1>3, <3>4, DeletesLeft
      <4>2. comments[t].gone = Standing /\ comments'[t].gone = Standing
        BY <2>1 DEF Roots
      <4>3. ~Removed(s, t)
        BY <1>3, <4>2, Indexed DEF Removed, Base, Standing
      <4>4. QED
        BY <4>1, <4>2, <4>3 DEF DeletedStep, RefusedWith, Denied
    <3>5. QED
      BY <3>2, <3>3, <3>4
  <2>2. ASSUME t \in New, NEW r \in DOMAIN runs, NEW S \in SUBSET Fingerprints, OpenedFor(r, S)
        PROVE  FALSE
    <3>1. Applying(r)
      BY <2>2 DEF OpenedFor, Applying
    <3>2. r = s
      BY <1>1, <1>3, <3>1 DEF OneApplies
    <3>3. QED
      BY <2>2, <3>2 DEF OpenedFor
  <2>3. QED
    BY <2>1, <2>2, RootsFrom
<1>4. QED
  BY <1>0, <1>2, <1>3, PlansFrom

LEMMA OneThreadNext ==
  ASSUME Base, Base', Kinds, Grows, OneInv, ~overlapped'
  PROVE  OneThreadPerClaim'
<1>0. ~overlapped
  BY OverlapStays
<1>1. Opens /\ OneThreadPerClaim
  BY <1>0 DEF OneInv
<1> SUFFICES ASSUME NEW t \in Roots(comments'), NEW u \in Roots(comments'), t # u,
                    comments'[t].fp # Person, comments'[t].fp = comments'[u].fp
             PROVE  comments'[t].refused \/ comments'[u].refused
  BY DEF OneThreadPerClaim
<1>2. ASSUME NEW a \in New, NEW b \in DOMAIN comments, b \in Roots(comments),
             comments'[a].fp = comments'[b].fp,
             NEW r \in DOMAIN runs, NEW S \in SUBSET Fingerprints, OpenedFor(r, S)
      PROVE  comments'[b].refused
  <2>1. comments[b].fp \in runs[r].creates /\ runs[r].deletes = {}
    BY <1>2 DEF OpenedFor
  <2>2. Applying(r)
    BY <1>2 DEF OpenedFor, Applying
  <2>3. comments[b].refused
    BY <1>1, <1>2, <2>1, <2>2 DEF Opens
  <2>4. QED
    BY <1>2, <2>3, RefusedStays
<1>3. CASE /\ t \in Roots(comments) /\ t \in DOMAIN comments
           /\ u \in Roots(comments) /\ u \in DOMAIN comments
  <2>1. SameText(comments'[t], comments[t]) /\ SameText(comments'[u], comments[u])
    BY <1>3 DEF Grows
  <2>2. comments[t].refused \/ comments[u].refused
    BY <1>0, <1>1, <1>3, <2>1 DEF OneThreadPerClaim, SameText
  <2>3. QED
    BY <1>3, <2>2, RefusedStays
<1>4. CASE t \in New /\ u \in New
  <2>1. ASSUME NEW r \in DOMAIN runs, NEW S \in SUBSET Fingerprints, OpenedFor(r, S)
        PROVE  FALSE
    BY <1>4, <2>1 DEF OpenedFor
  <2>2. t \notin DOMAIN comments
    BY <1>4 DEF New
  <2>3. QED
    BY <2>1, <2>2, RootsFrom
<1>5. QED
  BY <1>2, <1>3, <1>4, RootsFrom

LEMMA OneNext ==
  ASSUME Base, Base', Kinds, Grows, OneInv
  PROVE  OneInv'
BY OneAppliesNext, OpensNext, OneThreadNext DEF OneInv

-----------------------------------------------------------------------------
(***************************************************************************)
(* SaidOnce.  A thread to be answered does not say it yet.  Of a thread to *)
(* be taken down, nobody having spoken, the root's identity has written no *)
(* reply and the run's own go first: what stands when the root is refused  *)
(* is by neither of the two identities there are, so nothing is.           *)
(***************************************************************************)

\* No comment rises again.
LEMMA StoodBefore ==
  ASSUME Base, Kinds, NEW i \in DOMAIN comments, comments'[i].gone = Standing
  PROVE  comments[i].gone = Standing
<1>1. Standing \notin DOMAIN runs
  BY Indexed DEF Base, Standing
<1>2. QED
  BY <1>1, TakenDown

LEMMA SpokenStays ==
  ASSUME Grows, NEW t, Spoken(comments, t)
  PROVE  Spoken(comments', t)
BY DEF Grows, Spoken, SameText, Ours

\* What lydite writes in a thread answers it, or says why it stands.
LEMMA NewReplies ==
  ASSUME Base, Base', Kinds, Grows, NEW j \in New, ~IsRoot(comments'[j]), Ours(comments'[j])
  PROVE  \E r \in DOMAIN runs, t \in DOMAIN comments :
           /\ IsRoot(comments[t]) /\ Applying(r) /\ New = {j}
           /\ comments'[j].root = t /\ comments'[j].who = runs[r].who
           /\ comments'[j].body = LastWord(comments, runs[r].located, t)
           /\ \/ Answered(r, t)
              \/ DeletedStep(r, t) /\ RefusedWith(r, t)
<1>0. TypeInv'
  BY DEF Base
<1>1. comments' # comments /\ ~Pushed
  BY DEF New, Pushed
<1>2. ASSUME NEW u \in DOMAIN comments, SpokenUnder(u)
      PROVE  FALSE
  BY <1>2, SpokenShape
<1>3. ASSUME NEW r \in DOMAIN runs, NEW S \in SUBSET Fingerprints, OpenedFor(r, S)
      PROVE  FALSE
  BY <1>3 DEF OpenedFor
<1>4. ASSUME NEW r \in DOMAIN runs, NEW t \in DOMAIN comments, IsRoot(comments[t]), Posted(r, t)
      PROVE  /\ New = {j} /\ comments'[j].root = t /\ comments'[j].who = runs[r].who
             /\ comments'[j].body = LastWord(comments, runs[r].located, t)
  <2>1. New = {Len(comments) + 1}
    BY <1>0, <1>4, PostedShape
  <2>2. j = Len(comments) + 1
    BY <2>1
  <2>3. QED
    BY <1>4, <2>1, <2>2 DEF Posted, ReplyUnder
<1>5. ASSUME NEW r \in DOMAIN runs, NEW t \in DOMAIN comments, Answered(r, t)
      PROVE  Applying(r) /\ IsRoot(comments[t]) /\ Posted(r, t)
  BY <1>5 DEF Answered, Base, PlansOK, PlanOK, Applying
<1>6. ASSUME NEW r \in DOMAIN runs, NEW t \in DOMAIN comments, DeletedStep(r, t)
      PROVE  Applying(r) /\ IsRoot(comments[t]) /\ Posted(r, t) /\ RefusedWith(r, t)
  <2>1. ~Removed(r, t)
    BY DEF Removed, New
  <2>2. RefusedWith(r, t)
    BY <1>1, <1>6, <2>1 DEF DeletedStep
  <2>3. QED
    BY <1>6, <2>2 DEF RefusedWith, New, DeletedStep, DeleteDone, Applying
<1>7. \/ \E r \in DOMAIN runs, t \in DOMAIN comments : Answered(r, t)
      \/ \E r \in DOMAIN runs, t \in DOMAIN comments : DeletedStep(r, t)
  BY <1>1, <1>2, <1>3 DEF Kinds, Idle, Listed
<1>8. QED
  BY <1>4, <1>5, <1>6, <1>7

LEMMA EchoesNext ==
  ASSUME Base, Base', Kinds, Grows, Echoes, AnswersSpoken
  PROVE  Echoes'
<1> SUFFICES ASSUME NEW i \in DOMAIN comments', ~IsRoot(comments'[i]), Ours(comments'[i])
             PROVE  \/ comments'[i].who # comments'[comments'[i].root].who
                    \/ Spoken(comments', comments'[i].root)
  BY DEF Echoes
<1>1. CASE i \in DOMAIN comments
  <2>1. SameText(comments'[i], comments[i]) /\ Wellformed(comments, i)
    BY <1>1 DEF Grows, Base, Shapes
  <2>2. comments[i].root \in DOMAIN comments
    BY <1>1, <2>1, Indexed DEF Wellformed, IsRoot, SameText, Base
  <2>3. SameText(comments'[comments[i].root], comments[comments[i].root])
    BY <2>2 DEF Grows
  <2>4. \/ comments[i].who # comments[comments[i].root].who
        \/ Spoken(comments, comments[i].root)
    BY <1>1, <2>1 DEF Echoes, SameText, IsRoot, Ours
  <2>5. QED
    BY <2>1, <2>3, <2>4, SpokenStays DEF SameText
<1>2. CASE i \in New
  <2>1. PICK r \in DOMAIN runs, t \in DOMAIN comments :
           /\ comments'[i].root = t /\ comments'[i].who = runs[r].who
           /\ Applying(r)
           /\ \/ Answered(r, t)
              \/ DeletedStep(r, t) /\ RefusedWith(r, t)
    BY <1>2, NewReplies
  <2>2. CASE Answered(r, t)
    BY <2>1, <2>2, SpokenStays DEF AnswersSpoken, Answered
  <2>3. CASE RefusedWith(r, t)
    BY <2>1, <2>3 DEF RefusedWith, Grows, SameText
  <2>4. QED
    BY <2>1, <2>2, <2>3
<1>3. QED
  BY <1>1, <1>2 DEF New

LEMMA AnswersSpokenNext ==
  ASSUME Base, Base', Kinds, Grows, AnswersSpoken
  PROVE  AnswersSpoken'
<1>0. TypeInv'
  BY DEF Base
<1> SUFFICES ASSUME NEW s \in DOMAIN runs', runs'[s].pc \in {"admitting", "applying"},
                    NEW t \in runs'[s].replies
             PROVE  Spoken(comments', t)
  BY DEF AnswersSpoken, Applying
<1>1. CASE s \in DOMAIN runs /\ Listed(s)
  <2>1. t \in Answers(comments, runs[s].located) /\ comments' = comments
    BY <1>1 DEF Listed
  <2>2. comments[t].fp # Person /\ ~Sole(comments, t)
    BY <2>1 DEF Answers, Finished
  <2>3. PICK i \in {t} \cup Replies(comments, t) : comments[i].fp = Person
    BY <2>2 DEF Sole
  <2>4. QED
    BY <2>1, <2>2, <2>3 DEF Replies, Spoken, Ours
<1>2. CASE s \in DOMAIN runs /\ Applying(s) /\ runs'[s].replies \subseteq runs[s].replies
  BY <1>2, SpokenStays DEF AnswersSpoken
<1>3. QED
  BY <1>0, <1>1, <1>2, PlansFrom

LEMMA DownNext ==
  ASSUME Base, Base', Kinds, Grows, OneInv, SayInv, ~overlapped'
  PROVE  DownInv'
<1>0. TypeInv' /\ ~overlapped
  BY OverlapStays DEF Base
<1> SUFFICES ASSUME NEW s \in DOMAIN runs', runs'[s].pc \in {"admitting", "applying"},
                    NEW t \in runs'[s].deletes, IsRoot(comments'[t]),
                    NEW i \in DOMAIN comments', comments'[i].root = t, Ours(comments'[i]),
                    comments'[i].gone = Standing
             PROVE  /\ comments'[i].who # comments'[t].who
                    /\ comments'[i].who = runs'[s].who => i \in runs'[s].deletes
  BY DEF DownInv, Down, Applying
<1>1. CASE s \in DOMAIN runs /\ Listed(s)
  <2>1. comments' = comments /\ runs'[s].deletes = Deletes(comments, runs[s].located)
    BY <1>1 DEF Listed
  <2>2. /\ t \in Closing(comments, runs[s].located) /\ t \in DOMAIN comments
        /\ ~Spoken(comments, t)
    BY <1>1, <2>1, ClosingIsSole DEF Spoken
  <2>3. ~IsRoot(comments[i])
    BY <2>1, <2>2, Indexed DEF IsRoot, NoRoot, Base
  <2>4. i \in Replies(comments, t)
    BY <2>1 DEF Replies
  <2>5. i \in Deletes(comments, runs[s].located)
    BY <2>2, <2>4 DEF Deletes
  <2>6. QED
    BY <2>1, <2>2, <2>3, <2>5 DEF SayInv, Echoes
<1>2. CASE /\ s \in DOMAIN runs /\ Applying(s) /\ ~Listed(s) /\ runs'[s].who = runs[s].who
           /\ runs'[s].deletes \subseteq runs[s].deletes
  <2>1. t \in runs[s].deletes /\ t \in DOMAIN comments
    BY <1>2 DEF Base, PlansOK, PlanOK
  <2>2. SameText(comments'[t], comments[t]) /\ IsRoot(comments[t])
    BY <2>1 DEF Grows, SameText, IsRoot
  <2>3. Down(comments, runs[s], t)
    BY <1>0, <1>2, <2>1, <2>2 DEF SayInv, DownInv
  <2>4. CASE i \in DOMAIN comments
    <3>1. SameText(comments'[i], comments[i]) /\ comments[i].gone = Standing
      BY <2>4, StoodBefore DEF Grows
    <3>2. /\ comments[i].who # comments[t].who
          /\ comments[i].who = runs[s].who => i \in runs[s].deletes
      BY <2>3, <2>4, <3>1 DEF Down, SameText, Ours
    <3>3. ASSUME comments[i].who = runs[s].who, i \notin runs'[s].deletes
          PROVE  FALSE
      <4>1. DeletedStep(s, i)
        BY <1>0, <1>2, <3>2, <3>3, DeletesLeft
      <4>2. ~RefusedWith(s, i)
        BY <3>3 DEF RefusedWith
      <4>3. Removed(s, i)
        BY <3>1, <4>1, <4>2 DEF DeletedStep
      <4>4. QED
        BY <1>2, <4>3, Indexed DEF Removed, Base, Standing
    <3>4. QED
      BY <1>2, <2>2, <3>1, <3>2, <3>3 DEF SameText
  <2>5. CASE i \in New
    <3>1. ~IsRoot(comments'[i])
      BY <2>1, Indexed DEF IsRoot, NoRoot, Base
    <3>2. PICK r \in DOMAIN runs, u \in DOMAIN comments :
            /\ Applying(r) /\ comments'[i].root = u
            /\ Answered(r, u) \/ (DeletedStep(r, u) /\ RefusedWith(r, u))
      BY <2>5, <3>1, NewReplies
    <3>3. r = s /\ u = t
      BY <1>0, <1>2, <3>2 DEF OneInv, OneApplies
    <3>4. CASE Answered(r, u)
      BY <2>1, <3>3, <3>4 DEF Answered
    <3>5. CASE DeletedStep(r, u)
      BY <3>3, <3>5 DEF DeletedStep, DeleteDone
    <3>6. QED
      BY <3>2, <3>4, <3>5
  <2>6. QED
    BY <2>4, <2>5 DEF New
<1>3. QED
  BY <1>0, <1>1, <1>2, PlansFrom

\* What a run would say of a root it knows stays what it is.
LEMMA SameLastWord ==
  ASSUME Grows, NEW t \in DOMAIN comments, NEW located
  PROVE  LastWord(comments', located, t) = LastWord(comments, located, t)
BY DEF Grows, SameText, LastWord, Gone

LEMMA UnsaidNext ==
  ASSUME Base, Base', Kinds, Grows, OneInv, SayInv, ~overlapped'
  PROVE  Unsaid'
<1>0. TypeInv' /\ ~overlapped
  BY OverlapStays DEF Base
<1> SUFFICES ASSUME NEW s \in DOMAIN runs', runs'[s].pc \in {"admitting", "applying"},
                    NEW t \in runs'[s].replies,
                    Said(comments', t, LastWord(comments', runs'[s].located, t))
             PROVE  FALSE
  BY DEF Unsaid, Applying
<1>1. CASE s \in DOMAIN runs /\ Listed(s)
  BY <1>1 DEF Listed, Answers
<1>2. CASE /\ s \in DOMAIN runs /\ Applying(s) /\ runs'[s].located = runs[s].located
           /\ runs'[s].replies \subseteq runs[s].replies
  <2> DEFINE body == LastWord(comments, runs[s].located, t)
  <2>1. t \in runs[s].replies /\ t \in DOMAIN comments /\ t \notin runs[s].deletes
    BY <1>2 DEF Base, PlansOK, PlanOK
  <2>2. LastWord(comments', runs'[s].located, t) = body
    BY <1>2, <2>1, SameLastWord
  <2>3. ~Said(comments, t, body)
    BY <1>0, <1>2, <2>1 DEF SayInv, Unsaid
  <2>4. PICK i \in DOMAIN comments' :
          comments'[i].root = t /\ comments'[i].gone = Standing /\ comments'[i].body = body
    BY <2>2 DEF Said, Replies
  <2>5. body \in LastWords
    <3>1. IsRoot(comments[t]) /\ comments[t] \in Comment /\ runs[s] \in Run
      BY <1>2, <2>1, Indexed DEF Base, PlansOK, PlanOK
    <3>2. comments[t].fp \in Fingerprints
      BY <2>1, <3>1 DEF Base, Shapes, Wellformed, Ours, Comment
    <3>3. QED
      BY <3>1, <3>2, LastWordType DEF Run
  <2> HIDE DEF body
  <2>6. CASE i \in DOMAIN comments
    <3>1. SameText(comments'[i], comments[i]) /\ comments[i].gone = Standing
      BY <2>4, <2>6, StoodBefore DEF Grows
    <3>2. QED
      BY <2>3, <2>4, <2>6, <3>1 DEF Said, Replies, SameText
  <2>7. CASE i \in New
    <3>1. ~IsRoot(comments'[i]) /\ Ours(comments'[i])
      <4>1. ~IsRoot(comments'[i])
        BY <2>1, <2>4, Indexed DEF IsRoot, NoRoot, Base
      <4>2. Wellformed(comments', i)
        BY DEF Base, Shapes
      <4>3. QED
        BY <2>4, <2>5, <4>1, <4>2, Sentences DEF Wellformed
    <3>2. PICK r \in DOMAIN runs, u \in DOMAIN comments :
            /\ Applying(r) /\ comments'[i].root = u
            /\ Answered(r, u) \/ (DeletedStep(r, u) /\ RefusedWith(r, u))
      BY <2>7, <3>1, NewReplies
    <3>3. r = s /\ u = t
      BY <1>0, <1>2, <2>4, <3>2 DEF OneInv, OneApplies
    <3>4. CASE Answered(r, u)
      BY <3>3, <3>4 DEF Answered
    <3>5. CASE DeletedStep(r, u)
      BY <2>1, <3>3, <3>5 DEF DeletedStep, DeleteDone
    <3>6. QED
      BY <3>2, <3>4, <3>5
  <2>8. QED
    BY <2>6, <2>7 DEF New
<1>3. QED
  BY <1>0, <1>1, <1>2, PlansFrom

(* What is written says nothing the thread says already.                   *)
LEMMA NewIsUnsaid ==
  ASSUME Base, Base', Kinds, Grows, OneInv, SayInv, ~overlapped'
  PROVE  \A a \in New, b \in DOMAIN comments :
           /\ ~IsRoot(comments'[a]) /\ Ours(comments'[a])
           /\ comments'[b].root = comments'[a].root /\ comments'[b].gone = Standing
           => comments'[b].body # comments'[a].body
<1> SUFFICES ASSUME NEW a \in New, NEW b \in DOMAIN comments,
                    ~IsRoot(comments'[a]), Ours(comments'[a]),
                    comments'[b].root = comments'[a].root, comments'[b].gone = Standing,
                    comments'[b].body = comments'[a].body
             PROVE  FALSE
  OBVIOUS
<1>0. ~overlapped
  BY OverlapStays
<1>1. PICK r \in DOMAIN runs, t \in DOMAIN comments :
        /\ IsRoot(comments[t]) /\ Applying(r)
        /\ comments'[a].root = t /\ comments'[a].who = runs[r].who
        /\ comments'[a].body = LastWord(comments, runs[r].located, t)
        /\ Answered(r, t) \/ (DeletedStep(r, t) /\ RefusedWith(r, t))
  BY NewReplies
<1>2. SameText(comments'[b], comments[b]) /\ comments[b].gone = Standing
  BY StoodBefore DEF Grows
<1>3. comments[b].root = t /\ b \in Replies(comments, t)
  BY <1>1, <1>2 DEF SameText, Replies
<1>4. Said(comments, t, LastWord(comments, runs[r].located, t))
  BY <1>1, <1>2, <1>3 DEF SameText, Said
<1>5. CASE Answered(r, t)
  BY <1>0, <1>1, <1>4, <1>5 DEF SayInv, Unsaid, Answered
<1>6. CASE DeletedStep(r, t) /\ RefusedWith(r, t)
  <2>1. DeleteDone(r, t) /\ t \in runs[r].deletes
    BY <1>6 DEF DeletedStep, DeleteDone
  <2>2. b \notin runs[r].deletes
    BY <1>1, <1>3, <2>1, RepliesFirst
  <2>3. Down(comments, runs[r], t)
    BY <1>0, <1>1, <2>1 DEF SayInv, DownInv
  <2>4. ~IsRoot(comments[b]) /\ Wellformed(comments, b) /\ Wellformed(comments, t)
    BY <1>1, <1>2 DEF Base, Shapes, SameText, IsRoot
  <2>5. comments'[a].body \in LastWords
    <3>1. a \in DOMAIN comments' /\ Wellformed(comments', a)
      BY DEF New, Base, Shapes
    <3>2. QED
      BY <3>1 DEF Wellformed
  <2>6. Ours(comments[b])
    BY <1>2, <2>4, <2>5, Sentences DEF Wellformed, SameText
  <2>7. comments[b].who # comments[t].who /\ comments[b].who # runs[r].who
    BY <1>2, <1>3, <2>2, <2>3, <2>6 DEF Down
  <2>8. comments[t].who # runs[r].who
    BY <1>6 DEF RefusedWith
  <2>9. comments[b].who \in Who /\ comments[t].who \in Who /\ runs[r].who \in Who
    BY <1>1, <2>4, <2>6, Indexed DEF Wellformed, Base, Run
  <2>10. QED
    BY <2>7, <2>8, <2>9 DEF Who
<1>7. QED
  BY <1>1, <1>5, <1>6

LEMMA SaidOnceNext ==
  ASSUME Base, Base', Kinds, Grows, OneInv, SayInv, ~overlapped'
  PROVE  SaidOnce'
<1>0. ~overlapped
  BY OverlapStays
<1> SUFFICES ASSUME NEW i \in DOMAIN comments', NEW j \in DOMAIN comments', i # j,
                    ~IsRoot(comments'[i]), Ours(comments'[i]),
                    comments'[i].gone = Standing, comments'[j].gone = Standing,
                    comments'[i].root = comments'[j].root, comments'[i].body = comments'[j].body
             PROVE  FALSE
  BY DEF SaidOnce, IsRoot, Ours
<1>1. ~IsRoot(comments'[j]) /\ Wellformed(comments', i) /\ Wellformed(comments', j)
  BY DEF IsRoot, Base, Shapes
<1>2. Ours(comments'[j])
  BY <1>1, Sentences DEF Wellformed
<1>3. CASE i \in DOMAIN comments /\ j \in DOMAIN comments
  <2>1. /\ SameText(comments'[i], comments[i]) /\ comments[i].gone = Standing
        /\ SameText(comments'[j], comments[j]) /\ comments[j].gone = Standing
    BY <1>3, StoodBefore DEF Grows
  <2>2. QED
    BY <1>0, <1>3, <2>1 DEF SayInv, SaidOnce, SameText, IsRoot, Ours
<1>4. CASE i \in New /\ j \in DOMAIN comments
  BY <1>4, NewIsUnsaid
<1>5. CASE j \in New /\ i \in DOMAIN comments
  BY <1>1, <1>2, <1>5, NewIsUnsaid
<1>6. CASE i \in New /\ j \in New
  <2>1. New = {i}
    BY <1>6, NewReplies
  <2>2. QED
    BY <1>6, <2>1
<1>7. QED
  BY <1>3, <1>4, <1>5, <1>6 DEF New

OneOfEachInv == Base /\ OneInv /\ SayInv

(***************************************************************************)
(* As long as no two runs have applied their plans at once, a claim has one *)
(* thread lydite could take down, and a thread holds a sentence of         *)
(* lydite's once: whatever failed half-way, whoever wrote it.              *)
(***************************************************************************)
THEOREM EachIsOne == Spec => []OneOfEach
<1>1. Init => OneOfEachInv
  <2> SUFFICES ASSUME Init PROVE OneOfEachInv
    OBVIOUS
  <2>1. DOMAIN comments = {} /\ DOMAIN runs = {}
    BY DEF Init
  <2>2. Roots(comments) = {}
    BY <2>1 DEF Roots
  <2>3. OneInv
    BY <2>1, <2>2 DEF OneInv, OneApplies, Opens, OneThreadPerClaim
  <2>4. SayInv
    BY <2>1 DEF SayInv, Echoes, AnswersSpoken, SaidOnce, DownInv, Unsaid
  <2>5. QED
    BY <2>3, <2>4, BaseInit DEF OneOfEachInv
<1>2. OneOfEachInv /\ [Next]_vars => OneOfEachInv'
  <2> SUFFICES ASSUME OneOfEachInv, [Next]_vars PROVE OneOfEachInv'
    OBVIOUS
  <2>1. Base /\ Base' /\ Kinds /\ Grows /\ OneInv /\ SayInv /\ Echoes /\ AnswersSpoken
    BY BaseNext DEF OneOfEachInv, SayInv
  <2>2. OneInv'
    BY <2>1, OneNext
  <2>3. Echoes' /\ AnswersSpoken'
    BY <2>1, EchoesNext, AnswersSpokenNext
  <2>4. ~overlapped' => SaidOnce' /\ DownInv' /\ Unsaid'
    BY <2>1, SaidOnceNext, DownNext, UnsaidNext
  <2>5. QED
    BY <2>1, <2>2, <2>3, <2>4 DEF OneOfEachInv, SayInv
<1>3. OneOfEachInv => OneOfEach
  <2> SUFFICES ASSUME OneOfEachInv PROVE OneOfEach
    OBVIOUS
  <2>1. CASE overlapped
    BY <2>1 DEF OneOfEach, OneThreadPerClaim, SaidOnce
  <2>2. CASE ~overlapped
    BY <2>2 DEF OneOfEachInv, OneInv, SayInv, OneOfEach
  <2>3. QED
    BY <2>1, <2>2
<1>4. QED
  BY <1>1, <1>2, <1>3, PTL DEF Spec

-----------------------------------------------------------------------------
(***************************************************************************)
(* Reconciled.  A run nobody has disturbed since it listed has, for each   *)
(* claim, a thread that shows it and will stand, or one to open; and for   *)
(* each finished thread, a delete or an answer to come, or the sentence.   *)
(***************************************************************************)
LEMMA AloneFrom ==
  ASSUME Base, Base', Kinds, NEW s \in DOMAIN runs', runs'[s].alone
  PROVE  /\ s \in DOMAIN runs
         /\ \/ Listed(s)
            \/ /\ runs[s].alone
               /\ runs'[s].located = runs[s].located /\ runs'[s].stale = runs[s].stale
               /\ \/ /\ comments' = comments
                     /\ runs'[s].deletes = runs[s].deletes /\ runs'[s].replies = runs[s].replies
                     /\ runs'[s].creates = runs[s].creates
                     /\ \/ runs'[s].pc = runs[s].pc
                        \/ runs'[s].pc = "applying"
                        \/ runs'[s].pc = "done" /\ Nothing(runs[s])
                  \/ \E i \in DOMAIN comments : DeletedStep(s, i)
                  \/ \E t \in DOMAIN comments : Answered(s, t)
                  \/ \E S \in SUBSET Fingerprints : OpenedFor(s, S)
<1>0. s # 0
  BY IndexedNext DEF Base
<1>1. CASE Idle
  BY <1>1 DEF Idle, Base, PlansOK, Nothing
<1>2. ~Pushed
  BY DEF Pushed
<1>3. \A r : Others(r) => s = r
  BY DEF Others, Hushed
<1>4. \A u \in DOMAIN comments : ~SpokenUnder(u)
  BY <1>0, <1>3 DEF SpokenUnder
<1>5. ASSUME NEW r \in DOMAIN runs, Listed(r)
      PROVE  s \in DOMAIN runs /\ (s = r \/ (runs'[s] = runs[s] /\ comments' = comments))
  BY <1>5 DEF Listed
<1>6. CASE \E r \in DOMAIN runs : Listed(r)
  <2>1. PICK r \in DOMAIN runs : Listed(r)
    BY <1>6
  <2>2. CASE s = r
    BY <2>1, <2>2 DEF Listed
  <2>3. CASE s # r
    <3>1. s \in DOMAIN runs /\ runs'[s] = runs[s] /\ comments' = comments
      BY <1>5, <2>1, <2>3
    <3>2. QED
      BY <3>1
  <2>4. QED
    BY <2>2, <2>3
<1>7. ASSUME NEW r \in DOMAIN runs, NEW i \in DOMAIN comments, DeletedStep(r, i)
      PROVE  s = r /\ Goes(s) /\ DeletedStep(s, i)
  BY <1>3, <1>7 DEF DeletedStep, DeleteDone, Goes, Removed, RefusedWith, Posted
<1>8. ASSUME NEW r \in DOMAIN runs, NEW t \in DOMAIN comments, Answered(r, t)
      PROVE  s = r /\ Goes(s) /\ Answered(s, t)
  <2>1. Others(r) /\ Goes(r)
    BY <1>8 DEF Answered
  <2>2. s = r
    BY <1>3, <2>1
  <2>3. QED
    BY <1>8, <2>1, <2>2 DEF Answered, Goes, Posted, Others
<1>9. ASSUME NEW r \in DOMAIN runs, NEW S \in SUBSET Fingerprints, OpenedFor(r, S)
      PROVE  s = r /\ Goes(s) /\ OpenedFor(s, S)
  <2>1. Others(r) /\ Goes(r)
    BY <1>9 DEF OpenedFor
  <2>2. s = r
    BY <1>3, <2>1
  <2>3. QED
    BY <1>9, <2>1, <2>2 DEF OpenedFor, Goes, Others
<1>10. ASSUME s \in DOMAIN runs, Goes(s)
       PROVE  runs[s].alone /\ runs'[s].located = runs[s].located /\ runs'[s].stale = runs[s].stale
  BY <1>10 DEF Goes
<1>11. QED
  BY <1>1, <1>2, <1>4, <1>6, <1>7, <1>8, <1>9, <1>10 DEF Kinds

\* A person's word stands, and so does what it keeps.
LEMMA SoleStays ==
  ASSUME Base, Base', Grows, NEW t \in DOMAIN comments, ~Sole(comments, t)
  PROVE  ~Sole(comments', t)
<1>1. PICK i \in {t} \cup Replies(comments, t) : comments[i].fp = Person
  BY DEF Sole
<1>2. i \in DOMAIN comments /\ i \in DOMAIN comments' /\ SameText(comments'[i], comments[i])
  BY <1>1 DEF Replies, Grows
<1>3. comments'[i].gone = Standing
  BY <1>1, <1>2 DEF Base, Shapes, Wellformed, SameText, Ours
<1>4. i = t \/ i \in Replies(comments', t)
  BY <1>1, <1>2, <1>3 DEF Replies, SameText
<1>5. QED
  BY <1>1, <1>2, <1>4 DEF Sole, SameText

LEMMA ListingProgress ==
  ASSUME Base, NEW s \in DOMAIN runs, Listed(s)
  PROVE  Progress(comments, runs'[s])
<1> DEFINE located == runs[s].located
           new == runs'[s]
<1>1. /\ new.located = located /\ new.creates = Creates(comments, located)
      /\ new.replies = Answers(comments, located) /\ new.deletes = Deletes(comments, located)
  BY DEF Listed
<1>2. ASSUME NEW f \in Claimed(located), f \notin new.creates
      PROVE  Shown(comments, new, f)
  <2>1. PICK t \in Roots(comments) :
          /\ comments[t].fp = f /\ comments[t].fp # Person
          /\ Adrift(comments, located, t) => ~Sole(comments, t)
    BY <1>1, <1>2 DEF Creates, Kept
  <2>2. comments[t].outdated => ~Sole(comments, t)
    BY <2>1 DEF Adrift, Gone
  <2>3. ASSUME t \in new.deletes
        PROVE  FALSE
    <3>1. t \in Closing(comments, located)
      BY <2>1, <2>3, ClosingIsSole DEF Roots, IsRoot
    <3>2. QED
      BY <2>1, <3>1 DEF Closing, Finished, Gone
  <2>4. QED
    BY <2>1, <2>2, <2>3 DEF Shown
<1>3. ASSUME NEW t \in Finished(comments, located)
      PROVE  Told(comments, new, t)
  <2>1. CASE Sole(comments, t)
    <3>1. t \in Deletes(comments, located)
      BY <2>1 DEF Closing, Deletes
    <3>2. QED
      BY <1>1, <3>1 DEF Told
  <2>2. CASE ~Sole(comments, t)
    BY <1>1, <2>2 DEF Told, Answers
  <2>3. QED
    BY <2>1, <2>2
<1>4. \A f \in Claimed(located) : Shown(comments, new, f)
  BY <1>2 DEF Shown
<1>5. QED
  BY <1>1, <1>3, <1>4 DEF Progress

\* Writing in the threads there are moves none of them.
LEMMA FinishedBefore ==
  ASSUME Base, Base', Kinds, Grows, NEW located, NEW t \in Finished(comments', located),
         t \in Roots(comments), t \in DOMAIN comments,
         comments'[t].outdated = comments[t].outdated
  PROVE  t \in Finished(comments, located)
BY DEF Finished, Gone, Adrift, Grows, SameText

LEMMA RootsBefore ==
  ASSUME Base, Base', Kinds, Grows, NEW s \in DOMAIN runs, runs'[s].alone,
         runs[s].deletes # {} \/ runs[s].replies # {}, NEW t \in Roots(comments')
  PROVE  t \in Roots(comments) /\ t \in DOMAIN comments
<1>1. ASSUME NEW r \in DOMAIN runs, NEW S \in SUBSET Fingerprints, OpenedFor(r, S)
      PROVE  FALSE
  <2>1. r = s
    BY <1>1 DEF OpenedFor, Others, Hushed
  <2>2. QED
    BY <1>1, <2>1 DEF OpenedFor
<1>2. QED
  BY <1>1, RootsFrom

LEMMA DeletedProgress ==
  ASSUME Base, Base', Kinds, Grows, NEW s \in DOMAIN runs, runs'[s].alone,
         NEW i \in DOMAIN comments, DeletedStep(s, i), Progress(comments, runs[s])
  PROVE  Progress(comments', runs'[s])
<1> DEFINE located == runs[s].located
           new == runs'[s]
<1>1. /\ new.located = located /\ new.stale = runs[s].stale
      /\ i \in runs[s].deletes /\ new.deletes = runs[s].deletes \ {i}
      /\ new.replies = runs[s].replies /\ new.creates = runs[s].creates
      /\ Applying(s)
  BY DEF DeletedStep, DeleteDone, Goes, Applying
<1>2. \A k \in DOMAIN comments \ {i} : comments'[k] = comments[k]
  BY DEF DeletedStep, Removed, RefusedWith, Denied
<1>3. comments'[i].outdated = comments[i].outdated
  BY DEF DeletedStep, Removed, RefusedWith, Denied
<1>4. ASSUME NEW f \in Claimed(located)
      PROVE  Shown(comments', new, f)
  <2>1. Shown(comments, runs[s], f)
    BY DEF Progress
  <2>2. CASE f \in runs[s].creates
    BY <1>1, <2>2 DEF Shown
  <2>3. CASE f \notin runs[s].creates
    <3>1. PICK t \in Roots(comments) \ runs[s].deletes :
            /\ comments[t].fp = f
            /\ comments[t].outdated => ~Sole(comments, t) \/ runs[s].stale
      BY <2>1, <2>3 DEF Shown
    <3>2. t \in DOMAIN comments /\ comments'[t] = comments[t] /\ t \in DOMAIN comments'
      BY <1>1, <1>2, <3>1 DEF Roots, Grows
    <3>3. t \in Roots(comments') \ new.deletes
      BY <1>1, <3>1, <3>2 DEF Roots
    <3>4. comments'[t].outdated => ~Sole(comments', t) \/ new.stale
      BY <1>1, <3>1, <3>2, SoleStays
    <3>5. QED
      BY <3>1, <3>2, <3>3, <3>4 DEF Shown
  <2>4. QED
    BY <2>2, <2>3
<1>5. ASSUME NEW t \in Finished(comments', located)
      PROVE  Told(comments', new, t)
  <2>1. t \in Roots(comments) /\ t \in DOMAIN comments
    BY <1>1, RootsBefore DEF Finished
  <2>2. comments'[t].outdated = comments[t].outdated
    BY <1>2, <1>3, <2>1
  <2>3. t \in Finished(comments, located)
    BY <2>1, <2>2, FinishedBefore
  <2>4. Told(comments, runs[s], t)
    BY <2>3 DEF Progress
  <2> DEFINE body == LastWord(comments, located, t)
  <2>5. LastWord(comments', new.located, t) = body
    BY <1>1, <2>1, SameLastWord
  <2> HIDE DEF body
  <2>6. CASE Said(comments, t, body)
    <3>1. PICK k \in Replies(comments, t) : comments[k].body = body
      BY <2>6 DEF Said
    <3>2. k \in DOMAIN comments /\ k \in DOMAIN comments' /\ SameText(comments'[k], comments[k])
      BY <3>1 DEF Replies, Grows
    <3>3. CASE comments'[k].gone = Standing
      <4>1. k \in Replies(comments', t) /\ comments'[k].body = body
        BY <3>1, <3>2, <3>3 DEF Replies, SameText
      <4>2. QED
        BY <2>5, <4>1 DEF Told, Said
    <3>4. CASE comments'[k].gone # Standing
      <4>1. k = i
        BY <1>2, <3>1, <3>4 DEF Replies
      <4>2. ~IsRoot(comments[i]) /\ comments[i].root = t
        BY <2>1, <3>1, <4>1, Indexed DEF Replies, IsRoot, NoRoot, Base
      <4>3. t \in runs[s].deletes
        BY <1>1, <4>2 DEF Base, PlansOK, PlanOK
      <4>4. t # i
        BY <2>1, <4>2 DEF Roots, IsRoot
      <4>5. QED
        BY <1>1, <4>3, <4>4 DEF Told
    <3>5. QED
      BY <3>3, <3>4
  <2>7. CASE t = i
    <3>1. comments[t].gone = Standing /\ comments'[t].gone = Standing /\ IsRoot(comments[t])
      BY <2>1 DEF Finished, Roots, IsRoot
    <3>2. RefusedWith(s, i)
      BY <2>7, <3>1, Indexed DEF DeletedStep, Removed, Denied, RefusedWith, Base, Standing
    <3>3. Posted(s, t)
      BY <2>7, <3>1, <3>2 DEF RefusedWith
    <3>4. Said(comments', t, body)
      BY <3>3 DEF Posted, ReplyUnder, Said, Replies, body
    <3>5. QED
      BY <2>5, <3>4 DEF Told
  <2>8. CASE t # i /\ ~Said(comments, t, body)
    BY <1>1, <2>4, <2>8 DEF Told, body
  <2>9. QED
    BY <2>6, <2>7, <2>8
<1>6. QED
  BY <1>1, <1>4, <1>5 DEF Progress

LEMMA AnsweredProgress ==
  ASSUME Base, Base', Kinds, Grows, NEW s \in DOMAIN runs, runs'[s].alone,
         NEW u \in DOMAIN comments, Answered(s, u), Progress(comments, runs[s])
  PROVE  Progress(comments', runs'[s])
<1> DEFINE located == runs[s].located
           new == runs'[s]
<1>1. /\ new.located = located /\ new.stale = runs[s].stale
      /\ runs[s].deletes = {} /\ new.deletes = {} /\ u \in runs[s].replies
      /\ new.replies = runs[s].replies \ {u} /\ new.creates = runs[s].creates
  BY DEF Answered, Goes
<1>2. \A k \in DOMAIN comments : comments'[k] = comments[k] /\ k \in DOMAIN comments'
  BY DEF Answered, Grows
<1>3. ASSUME NEW f \in Claimed(located)
      PROVE  Shown(comments', new, f)
  <2>1. Shown(comments, runs[s], f)
    BY DEF Progress
  <2>2. CASE f \in runs[s].creates
    BY <1>1, <2>2 DEF Shown
  <2>3. CASE f \notin runs[s].creates
    <3>1. PICK t \in Roots(comments) :
            /\ comments[t].fp = f
            /\ comments[t].outdated => ~Sole(comments, t) \/ runs[s].stale
      BY <2>1, <2>3 DEF Shown
    <3>2. t \in DOMAIN comments /\ t \in Roots(comments') \ new.deletes
      BY <1>1, <1>2, <3>1 DEF Roots
    <3>3. comments'[t].outdated => ~Sole(comments', t) \/ new.stale
      BY <1>1, <1>2, <3>1, <3>2, SoleStays
    <3>4. QED
      BY <1>2, <3>1, <3>2, <3>3 DEF Shown
  <2>4. QED
    BY <2>2, <2>3
<1>4. ASSUME NEW t \in Finished(comments', located)
      PROVE  Told(comments', new, t)
  <2>1. t \in Roots(comments) /\ t \in DOMAIN comments
    BY <1>1, RootsBefore DEF Finished
  <2>2. t \in Finished(comments, located)
    BY <1>2, <2>1, FinishedBefore
  <2>3. Told(comments, runs[s], t)
    BY <2>2 DEF Progress
  <2> DEFINE body == LastWord(comments, located, t)
  <2>4. LastWord(comments', new.located, t) = body
    BY <1>1, <2>1, SameLastWord
  <2>5. CASE Said(comments, t, body)
    <3>1. Said(comments', t, body)
      BY <1>2, <2>5 DEF Said, Replies
    <3>2. QED
      BY <2>4, <3>1 DEF Told
  <2>6. CASE t = u
    <3>1. Said(comments', t, body)
      BY <2>6 DEF Answered, Posted, ReplyUnder, Said, Replies
    <3>2. QED
      BY <2>4, <3>1 DEF Told
  <2>7. CASE t # u /\ ~Said(comments, t, body)
    BY <1>1, <2>3, <2>7 DEF Told
  <2>8. QED
    BY <2>5, <2>6, <2>7
<1>5. QED
  BY <1>1, <1>3, <1>4 DEF Progress

LEMMA OpenedProgress ==
  ASSUME Base, Base', Kinds, Grows, NEW s \in DOMAIN runs, runs'[s].alone,
         NEW S \in SUBSET Fingerprints, OpenedFor(s, S), Progress(comments, runs[s])
  PROVE  Progress(comments', runs'[s])
<1> DEFINE located == runs[s].located
           new == runs'[s]
<1>1. /\ new.located = located /\ new.stale = runs[s].stale
      /\ runs[s].deletes = {} /\ new.deletes = {} /\ runs[s].replies = {}
      /\ new.creates = runs[s].creates \ S /\ S \subseteq runs[s].creates
      /\ Applying(s)
  BY DEF OpenedFor, Goes, Applying
<1>2. \A k \in DOMAIN comments : comments'[k] = comments[k] /\ k \in DOMAIN comments'
  BY DEF OpenedFor
<1>3. ASSUME NEW f \in Claimed(located)
      PROVE  Shown(comments', new, f)
  <2>1. Shown(comments, runs[s], f)
    BY DEF Progress
  <2>2. CASE f \in runs[s].creates \ S
    BY <1>1, <2>2 DEF Shown
  <2>3. CASE f \in S
    <3>1. PICK j \in New : comments'[j].fp = f
      BY <2>3 DEF OpenedFor
    <3>2. j \in Roots(comments') \ new.deletes
      BY <1>1, <3>1 DEF OpenedFor, New, Roots, IsRoot
    <3>3. comments'[j].outdated => new.stale
      BY <1>1, <3>1 DEF OpenedFor
    <3>4. QED
      BY <3>1, <3>2, <3>3 DEF Shown
  <2>4. CASE f \notin runs[s].creates
    <3>1. PICK t \in Roots(comments) :
            /\ comments[t].fp = f
            /\ comments[t].outdated => ~Sole(comments, t) \/ runs[s].stale
      BY <2>1, <2>4 DEF Shown
    <3>2. t \in DOMAIN comments /\ t \in Roots(comments') \ new.deletes
      BY <1>1, <1>2, <3>1 DEF Roots
    <3>3. comments'[t].outdated => ~Sole(comments', t) \/ new.stale
      BY <1>1, <1>2, <3>1, <3>2, SoleStays
    <3>4. QED
      BY <1>2, <3>1, <3>2, <3>3 DEF Shown
  <2>5. QED
    BY <2>2, <2>3, <2>4
<1>4. ASSUME NEW t \in Finished(comments', located)
      PROVE  Told(comments', new, t)
  <2>1. CASE t \in DOMAIN comments
    <3>1. t \in Finished(comments, located)
      BY <1>2, <2>1 DEF Finished, Roots, Gone, Adrift
    <3>2. Told(comments, runs[s], t)
      BY <3>1 DEF Progress
    <3>3. LastWord(comments', new.located, t) = LastWord(comments, located, t)
      BY <1>1, <2>1, SameLastWord
    <3>4. ASSUME NEW body, Said(comments, t, body)
          PROVE  Said(comments', t, body)
      BY <1>2, <3>4 DEF Said, Replies
    <3>5. QED
      BY <1>1, <3>2, <3>3, <3>4 DEF Told
  <2>2. CASE t \in New
    <3>1. comments'[t].fp \in S /\ (comments'[t].outdated => runs[s].stale)
      BY <2>2 DEF OpenedFor
    <3>2. S \subseteq Claimed(located)
      BY <1>1 DEF Base, PlansOK, PlanOK
    <3>3. Adrift(comments', located, t)
      BY <3>1, <3>2 DEF Finished, Gone
    <3>4. QED
      BY <1>1, <3>1, <3>3 DEF Adrift, Told
  <2>3. QED
    BY <2>1, <2>2 DEF Finished, Roots, New
<1>5. QED
  BY <1>1, <1>3, <1>4 DEF Progress

LEMMA ReconcileNext ==
  ASSUME Base, Base', Kinds, Grows, ReconcileInv
  PROVE  ReconcileInv'
<1> SUFFICES ASSUME NEW s \in DOMAIN runs', runs'[s].alone
             PROVE  /\ runs'[s].pc \in {"admitting", "applying", "done"}
                    /\ runs'[s].pc = "done" => Nothing(runs'[s])
                    /\ Progress(comments', runs'[s])
  BY DEF ReconcileInv
<1>1. CASE s \in DOMAIN runs /\ Listed(s)
  <2>1. Progress(comments, runs'[s])
    BY <1>1, ListingProgress
  <2>2. QED
    BY <1>1, <2>1 DEF Listed
<1>2. CASE s \in DOMAIN runs /\ runs[s].alone
  <2>1. /\ runs[s].pc \in {"admitting", "applying", "done"}
        /\ runs[s].pc = "done" => Nothing(runs[s])
        /\ Progress(comments, runs[s])
    BY <1>2 DEF ReconcileInv
  <2>2. CASE /\ comments' = comments
             /\ runs'[s].located = runs[s].located /\ runs'[s].stale = runs[s].stale
             /\ runs'[s].deletes = runs[s].deletes /\ runs'[s].replies = runs[s].replies
             /\ runs'[s].creates = runs[s].creates
             /\ \/ runs'[s].pc = runs[s].pc
                \/ runs'[s].pc = "applying"
                \/ runs'[s].pc = "done" /\ Nothing(runs[s])
    BY <2>1, <2>2 DEF Progress, Shown, Told, Nothing
  <2>3. CASE \E i \in DOMAIN comments : DeletedStep(s, i)
    BY <1>2, <2>1, <2>3, DeletedProgress DEF DeletedStep, DeleteDone, Goes
  <2>4. CASE \E t \in DOMAIN comments : Answered(s, t)
    BY <1>2, <2>1, <2>4, AnsweredProgress DEF Answered, Goes
  <2>5. CASE \E S \in SUBSET Fingerprints : OpenedFor(s, S)
    BY <1>2, <2>1, <2>5, OpenedProgress DEF OpenedFor, Goes
  <2>6. CASE Listed(s)
    BY <1>1, <1>2, <2>6
  <2>7. QED
    BY <2>2, <2>3, <2>4, <2>5, <2>6, AloneFrom
<1>3. QED
  BY <1>1, <1>2, AloneFrom

ReconciledInv == Base /\ ReconcileInv

(***************************************************************************)
(* A run that ends well, undisturbed, leaves every claim shown and every   *)
(* finished thread down or told, whatever the runs before it left half     *)
(* done.                                                                   *)
(***************************************************************************)
THEOREM RunsReconcile == Spec => []Reconciled
<1>1. Init => ReconciledInv
  <2> SUFFICES ASSUME Init PROVE ReconciledInv
    OBVIOUS
  <2>1. DOMAIN runs = {}
    BY DEF Init
  <2>2. QED
    BY <2>1, BaseInit DEF ReconciledInv, ReconcileInv
<1>2. ReconciledInv /\ [Next]_vars => ReconciledInv'
  BY BaseNext, ReconcileNext DEF ReconciledInv
<1>3. ReconciledInv => Reconciled
  BY DEF ReconciledInv, ReconcileInv, Reconciled, Progress, Nothing, Shown, Told
<1>4. QED
  BY <1>1, <1>2, <1>3, PTL DEF Spec
===============================================================================
