----------------------------- MODULE RelayRules -----------------------------
(***************************************************************************)
(* What the relay admits (pr-relay/src/index.ts), before it reads anything *)
(* from the platform: which job may write to which pull request, and which *)
(* status context it may post there. The relay keeps no state; a job is    *)
(* known by the claims of its OIDC token, which it cannot choose.          *)
(*                                                                         *)
(* A deployment is the three allowlists, as sets of workflow names; claims *)
(* are [workflow, event, ref], a ref naming a pull request, a branch or a  *)
(* queue entry.                                                            *)
(***************************************************************************)
EXTENDS Naturals

Refused == 0      \* no pull request is numbered 0

(* A clearance run: allowlisted as one and as nothing else, answering a    *)
(* comment on the default branch.                                          *)
ClearanceListed(lists, claims) ==
    claims.workflow \in lists.clearance \ lists.referral

ClearanceRun(lists, claims) ==
    /\ ClearanceListed(lists, claims)
    /\ claims.event = "issue_comment"
    /\ claims.ref.kind = "branch"

QueueRun(lists, claims) ==
    /\ claims.workflow \in lists.queue \ (lists.referral \cup lists.clearance)
    /\ claims.event = "merge_group"
    /\ claims.ref.kind = "queue"

(* The pull request of a request: the one its ref names, or for a clearance *)
(* run, whose ref names none, the one it submits.                          *)
ResolveTarget(lists, claims, submitted) ==
    IF claims.ref.kind = "pull"
      THEN IF submitted \in {0, claims.ref.pull} THEN claims.ref.pull ELSE Refused
      ELSE IF ClearanceRun(lists, claims) /\ submitted > 0 THEN submitted ELSE Refused

QueueTarget(lists, claims, submitted, sha) ==
    IF QueueRun(lists, claims) /\ submitted = claims.ref.pull /\ sha = claims.sha
      THEN submitted ELSE Refused

(* The one move a clearance run has on the referral context.               *)
ReferralResolution(lists, claims, status) ==
    /\ status.context = "lydite/referral"
    /\ status.state = "success"
    /\ ClearanceRun(lists, claims)

StatusAuthorized(lists, claims, status) ==
    LET referral  == claims.workflow \in lists.referral
        clearance == claims.workflow \in lists.clearance
    IN  /\ ~(referral /\ clearance)
        /\ clearance => ClearanceRun(lists, claims)
        /\ \/ referral /\ status.context = "lydite/referral"
           \/ clearance /\ status.context = "lydite/clearance"
           \/ ReferralResolution(lists, claims, status)
           \/ /\ ~referral /\ ~clearance
              /\ status.context \notin {"lydite/referral", "lydite/clearance"}
=============================================================================
