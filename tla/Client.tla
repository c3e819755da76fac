------------------------------- MODULE Client -------------------------------
(***************************************************************************)
(* The web page beside the program: what it reads is old when it arrives,  *)
(* answers of overlapping loads arrive in any order, and the transaction   *)
(* built from them runs at any later time or never. Its sender may get no  *)
(* answer and click again.                                                 *)
(*                                                                         *)
(* Modelled are the tabs that send and review proofs, in one quest. The    *)
(* forms that create, fund, close and settle a quest send what was typed;  *)
(* they are the program's instructions, called at any time, and so are     *)
(* those of users without the page. The several reads of one load are one  *)
(* read. Whatever happens between two renderings is one step.              *)
(***************************************************************************)
EXTENDS Quest, SequencesExt

CONSTANTS
  Pages,          \* the users who send and review proofs by the page
  MAX_LOADS,      \* bound on the loads of one page under way
  MAX_REQUESTS    \* bound on the transactions pages send

ASSUME ClientAssumption ==
  /\ Pages \subseteq Users
  /\ MAX_LOADS \in Nat
  /\ MAX_REQUESTS \in Nat

VARIABLES
  page,       \* what each page displays and keeps
  loads,      \* the loads of each page under way
  requests    \* the transactions pages sent, in the order of the clicks

clientVars == <<page, loads, requests>>

\* What a page keeps of the last quest it read, whether its submit button works,
\* reviewIndexInput, and the index of currentReviewSubmission.
PageType ==
  [status : Statuses, can_submit : BOOLEAN, review_index : Nat,
   shown : SUBSET Nat]

\* What one read of the quest brings.
AnswerType ==
  [status : Statuses, can_submit : BOOLEAN, review_index : Nat,
   has_pending : BOOLEAN]

NoAnswer ==
  [status |-> "Absent", can_submit |-> FALSE, review_index |-> 0,
   has_pending |-> FALSE]

\* A load is asked to read the quest, has read it, or reads the submission in
\* line. whole: it is a fetchQuest; again: it is the first half of Load Next.
LoadType ==
  [stage : {"Asked", "Read", "Item"}, whole : BOOLEAN, again : BOOLEAN,
   answer : AnswerType]

\* want: the status a request gives the submission it names. shown: the submission
\* a reviewer saw at the click.
RequestType ==
  [signer : Pages, want : {"Pending", "Approved", "Rejected"}, index : Nat,
   shown : SUBSET Nat, outcome : {"Sent", "Done", "Confirmed"}]

ClientInit ==
  /\ Init
  /\ page = [p \in Pages |->
              [status |-> "Absent", can_submit |-> FALSE, review_index |-> 0,
               shown |-> {}]]
  /\ loads = [p \in Pages |-> <<>>]
  /\ requests = <<>>

-----------------------------------------------------------------------------
(***************************************************************************)
(* Slips, as in Quest                                                      *)
(***************************************************************************)

\* RequestsActOnce: submit_proof finds the Submission account by itself.
AnyAddress(index) == TRUE

\* ClientTypeOK: the page offers the submission decided last.
DecidedIndex == quest.next_review_index - 1

\* RequestsAreNeverAhead: the page offers the submission to be sent next.
LatestIndex == quest.next_submission_index

-----------------------------------------------------------------------------
(***************************************************************************)
(* Loads                                                                   *)
(***************************************************************************)

\* What the page takes for the first submission that waits.
ReviewIndex == quest.next_review_index

\* The program's own conditions, at the time of the read.
CanSubmit(p) ==
  /\ quest.status = "Open"
  /\ now < quest.expires_at
  /\ QueueHasRoom
  /\ p \in Submitters
  /\ IF quest.mode = "OneTime"
     THEN ~progress[p].one_time_completed /\ ~progress[p].pending_one_time
     ELSE cycle_state(progress[p], CurrentCycle) = EMPTY

QuestRead(p) ==
  [status |-> quest.status, can_submit |-> CanSubmit(p),
   review_index |-> ReviewIndex, has_pending |-> quest.pending_count > 0]

Asked(whole, again) ==
  [stage |-> "Asked", whole |-> whole, again |-> again, answer |-> NoAnswer]

BeginLoad(p, again) ==
  /\ Len(loads[p]) < MAX_LOADS
  /\ loads' = [loads EXCEPT ![p] = Append(@, Asked(TRUE, again))]

\* Load Quest, or Load Next.
Load(p) ==
  /\ \E again \in BOOLEAN : BeginLoad(p, again)
  /\ UNCHANGED <<vars, page, requests>>

ReadQuest(p, k) ==
  /\ loads[p][k].stage = "Asked"
  /\ quest.status # "Absent"
  /\ loads' = [loads EXCEPT ![p][k] = [@ EXCEPT !.stage = "Read",
                                                !.answer = QuestRead(p)]]
  /\ UNCHANGED <<vars, page, requests>>

\* A load that is done leaves the page with view, and makes way for the reload of
\* Load Next, which begins by clearing what is shown.
EndLoad(p, k, view) ==
  IF loads[p][k].again
  THEN /\ loads' = [loads EXCEPT ![p][k] = Asked(FALSE, FALSE)]
       /\ page' = [page EXCEPT ![p] = [view EXCEPT !.shown = {}]]
  ELSE /\ loads' = [loads EXCEPT ![p] = RemoveAt(@, k)]
       /\ page' = [page EXCEPT ![p] = view]

QuestArrives(p, k) ==
  LET load   == loads[p][k]
      answer == load.answer
      view   == IF load.whole
                THEN [status |-> answer.status, can_submit |-> answer.can_submit,
                      review_index |-> answer.review_index, shown |-> {}]
                ELSE [page[p] EXCEPT !.review_index = answer.review_index]
      item   == [NoAnswer EXCEPT !.review_index = answer.review_index]
  IN
  /\ load.stage = "Read"
  /\ IF answer.has_pending
     THEN /\ loads' = [loads EXCEPT
                        ![p][k] = [@ EXCEPT !.stage = "Item", !.answer = item]]
          /\ page' = [page EXCEPT ![p] = view]
     ELSE EndLoad(p, k, view)
  /\ UNCHANGED <<vars, requests>>

ItemArrives(p, k) ==
  /\ loads[p][k].stage = "Item"
  /\ EndLoad(p, k, [page[p] EXCEPT !.shown = {loads[p][k].answer.review_index}])
  /\ UNCHANGED <<vars, requests>>

\* A read that fails ends the load where it is; what the first half of Load Next
\* misses in its second read it only reports, and goes on.
LoadFails(p, k) ==
  /\ IF loads[p][k].stage = "Item"
     THEN EndLoad(p, k, page[p])
     ELSE /\ loads' = [loads EXCEPT ![p] = RemoveAt(@, k)]
          /\ UNCHANGED page
  /\ UNCHANGED <<vars, requests>>

-----------------------------------------------------------------------------
(***************************************************************************)
(* Clicks and transactions                                                 *)
(***************************************************************************)

Request(p, want, index, shown) ==
  /\ Len(requests) < MAX_REQUESTS
  /\ requests' = Append(requests, [signer |-> p, want |-> want, index |-> index,
                                   shown |-> shown, outcome |-> "Sent"])
  /\ UNCHANGED <<vars, page, loads>>

\* submitProof derives the Submission's address from a fresh read of the quest.
ClickSubmit(p) ==
  /\ page[p].can_submit
  /\ Request(p, "Pending", quest.next_submission_index, {})

\* approveOrReject names the submission of the index the page keeps, reads who
\* sent it and fails if there is none. Everybody has the buttons.
ClickReview(p, want) ==
  /\ page[p].shown # {}
  /\ page[p].status # "Closed"
  /\ want = "Approved" => quest.review_mode = "Manual"
  /\ page[p].review_index \in DOMAIN submissions
  /\ Request(p, want, page[p].review_index, page[p].shown)

\* The seeds of submit_proof name the Submission account of the next index.
IsNextAddress(index) == index = quest.next_submission_index

\* A review is handed a Submission account that exists.
Review(signer, want, i) ==
  /\ i \in DOMAIN submissions
  /\ \/ want = "Approved" /\ ApproveSubmission(signer, i)
     \/ want = "Rejected" /\ RejectSubmission(signer, i)

\* A transaction runs. One that is refused or never arrives stays as it was sent.
Run(k) ==
  LET r == requests[k]
  IN
  /\ r.outcome = "Sent"
  /\ \/ /\ r.want = "Pending"
        /\ r.signer \in Submitters
        /\ IsNextAddress(r.index)
        /\ SubmitProof(r.signer)
     \/ Review(r.signer, r.want, r.index)
  /\ requests' = [requests EXCEPT ![k].outcome = "Done"]
  /\ UNCHANGED <<page, loads>>

\* Its sender hears of it, if ever, and loads the quest again.
Confirm(k) ==
  /\ requests[k].outcome = "Done"
  /\ requests' = [requests EXCEPT ![k].outcome = "Confirmed"]
  /\ BeginLoad(requests[k].signer, FALSE)
  /\ UNCHANGED <<vars, page>>

\* Everything that does not come from the modelled tabs.
Elsewhere ==
  /\ \/ \E args \in CreateArgs : CreateQuest(args)
     \/ \E signer \in Users, args \in FundArgs : FundQuest(signer, args)
     \/ \E u \in Submitters \ Pages : SubmitProof(u)
     \/ \E signer \in Users \ Pages, i \in DOMAIN submissions :
          ApproveSubmission(signer, i) \/ RejectSubmission(signer, i)
     \/ \E signer \in Users : CloseQuest(signer)
     \/ SettleQuest
     \/ \E amount \in Transfers : SendToPool(amount)
     \/ Tick
  /\ UNCHANGED clientVars

ClientNext ==
  \/ Elsewhere
  \/ \E p \in Pages : Load(p)
  \/ \E p \in Pages : \E k \in DOMAIN loads[p] :
       ReadQuest(p, k) \/ QuestArrives(p, k) \/ ItemArrives(p, k) \/ LoadFails(p, k)
  \/ \E p \in Pages : ClickSubmit(p)
  \/ \E p \in Pages, want \in {"Approved", "Rejected"} : ClickReview(p, want)
  \/ \E k \in DOMAIN requests : Run(k) \/ Confirm(k)

ClientSpec == ClientInit /\ [][ClientNext]_<<vars, clientVars>>

-----------------------------------------------------------------------------
ClientTypeOK ==
  /\ page \in [Pages -> PageType]
  /\ DOMAIN loads = Pages
  /\ \A p \in Pages, k \in 1 .. MAX_LOADS :
       k \in DOMAIN loads[p] => loads[p][k] \in LoadType
  /\ \A k \in DOMAIN requests : requests[k] \in RequestType

TookEffect == {k \in DOMAIN requests : requests[k].outcome # "Sent"}

Submits(k) == requests[k].want = "Pending"

\* However often a user clicks again, and however late the transactions run, one
\* of them at most sends or decides a given submission, and that one has had its
\* way: the submission is its signer's, or has the status the reviewer wanted.
RequestsActOnce ==
  /\ \A j, k \in TookEffect :
       requests[j].index = requests[k].index /\ Submits(j) = Submits(k) => j = k
  /\ \A k \in TookEffect :
       LET s == submissions[requests[k].index]
       IN  IF Submits(k)
           THEN s.submitter = requests[k].signer
           ELSE s.status = requests[k].want

\* What a page reads may be old but is never ahead of the quest: a transaction that
\* is late finds its submission decided, or its address taken, and never names one
\* whose turn is still to come.
RequestsAreNeverAhead ==
  \A k \in DOMAIN requests :
    requests[k].index <= IF Submits(k)
                         THEN quest.next_submission_index
                         ELSE quest.next_review_index

\* A decision stands: no late, repeated or contrary review changes what became of
\* a submission, nor who was paid for it and from where.
DecisionsStand ==
  [][\A i \in DOMAIN submissions :
       submissions[i].status # "Pending" => submissions'[i] = submissions[i]]_vars

-----------------------------------------------------------------------------
\* docs/demo-walkthrough.md 61: the page fetches next_review_index, the reviewer
\* looks at the proof and clicks Approve. Two loads set the index and the displayed
\* submission apart, so the page may show one proof and decide the next one.
ReviewsDecideWhatIsShown ==
  \A k \in TookEffect : Submits(k) \/ requests[k].shown = {requests[k].index}
=============================================================================
