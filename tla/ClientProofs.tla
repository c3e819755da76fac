----------------------------- MODULE ClientProofs -----------------------------
(***************************************************************************)
(* Theorems about Client: whatever pages read, send late or send again,    *)
(* the quest keeps its invariant, a decision stands, no request is ahead   *)
(* of the quest, and one at most acts on a given submission.               *)
(***************************************************************************)
EXTENDS Client, QuestProofs, SequenceTheorems

\* What a step of the quest leaves of its submissions.
SubmissionsStay ==
  /\ quest.next_review_index <= quest'.next_review_index
  /\ quest.next_submission_index <= quest'.next_submission_index
  /\ \A i \in DOMAIN submissions :
       /\ i \in DOMAIN submissions'
       /\ submissions'[i].submitter = submissions[i].submitter
       /\ submissions[i].status # "Pending" => submissions'[i] = submissions[i]

\* A decision changes the head of the queue, which is pending, and nothing else.
LEMMA DecisionLeavesOthers ==
  ASSUME Inv, NEW i \in DOMAIN submissions, NextInLine(i),
         NEW s \in SubmissionType, s.submitter = submissions[i].submitter,
         submissions' = [submissions EXCEPT ![i] = s],
         quest'.next_review_index = quest.next_review_index + 1,
         quest'.next_submission_index = quest.next_submission_index
  PROVE  SubmissionsStay
  <1>1. quest.next_review_index \in Nat /\ quest.next_submission_index \in Nat
    BY DEF Inv, TypeOK, QuestType
  <1>2. submissions \in [DOMAIN submissions -> SubmissionType]
    BY DEF Inv, TypeOK
  <1>3. submissions[i].status = "Pending"
    BY DEF NextInLine
  <1> QED
    BY <1>1, <1>2, <1>3 DEF SubmissionsStay

\* So does an approval, which leaves the head approved.
LEMMA ApprovalLeavesOthers ==
  ASSUME Inv, NEW i \in DOMAIN submissions, ApproveAndPay(i)
  PROVE  SubmissionsStay /\ submissions'[i].status = "Approved"
  <1> DEFINE reward == quest.reward_per_completion
             a == [submissions[i] EXCEPT !.status = "Approved",
                                         !.paid_from_reward_pool = reward]
             b == [submissions[i] EXCEPT !.status = "Approved",
                                         !.paid_from_deposit_pool = reward]
             q == StopForDepletion(quest)
  <1>1. NextInLine(i) /\ quest.status \in {"Open", "Closing"}
    BY DEF ApproveAndPay
  <1>2. /\ quest \in QuestType /\ now \in Nat
        /\ submissions[i] \in SubmissionType
        /\ quest.pending_count # 0
        /\ reward \in Nat
    BY <1>1, HeadFacts DEF Inv, TypeOK, QuestType
  <1>3. /\ a \in SubmissionType /\ a.submitter = submissions[i].submitter
        /\ b \in SubmissionType /\ b.submitter = submissions[i].submitter
        /\ a.status = "Approved" /\ b.status = "Approved"
    BY <1>2 DEF SubmissionType
  <1>4. /\ q \in QuestType
        /\ q.next_review_index = quest.next_review_index
        /\ q.next_submission_index = quest.next_submission_index
        /\ q.pending_count = quest.pending_count
    BY <1>1, <1>2, StopFacts
  <1>5. submissions \in [DOMAIN submissions -> SubmissionType]
    BY DEF Inv, TypeOK
  <1>6. CASE FromRewardPool(i)
    <2>1. submissions' = [submissions EXCEPT ![i] = a] /\ quest' = CountApproval(quest)
      BY <1>6 DEF FromRewardPool
    <2>2. /\ quest'.next_review_index = quest.next_review_index + 1
          /\ quest'.next_submission_index = quest.next_submission_index
      BY <2>1, <1>2, CountFacts
    <2>3. submissions'[i] = a
      BY <2>1, <1>5
    <2> HIDE DEF a
    <2> QED
      BY <2>1, <2>2, <2>3, <1>1, <1>3, DecisionLeavesOthers
  <1>7. CASE FromDepositPool(i)
    <2>1. submissions' = [submissions EXCEPT ![i] = b] /\ quest' = CountApproval(q)
      BY <1>7 DEF FromDepositPool
    <2>2. /\ quest'.next_review_index = quest.next_review_index + 1
          /\ quest'.next_submission_index = quest.next_submission_index
      <3> HIDE DEF q
      <3> QED BY <2>1, <1>2, <1>4, CountFacts
    <2>3. submissions'[i] = b
      BY <2>1, <1>5
    <2> HIDE DEF b, q
    <2> QED
      BY <2>1, <2>2, <2>3, <1>1, <1>3, DecisionLeavesOthers
  <1> QED
    BY <1>6, <1>7 DEF ApproveAndPay

\* And a rejection, which leaves it rejected.
LEMMA RejectionLeavesOthers ==
  ASSUME Inv, NEW signer \in Users, NEW i \in DOMAIN submissions,
         RejectSubmission(signer, i)
  PROVE  SubmissionsStay /\ submissions'[i].status = "Rejected"
  <1> DEFINE s == [submissions[i] EXCEPT !.status = "Rejected"]
  <1>1. NextInLine(i)
    BY DEF RejectSubmission
  <1>2. quest \in QuestType /\ submissions[i] \in SubmissionType
    BY <1>1, HeadFacts DEF Inv, TypeOK
  <1>3. /\ s \in SubmissionType /\ s.submitter = submissions[i].submitter
        /\ s.status = "Rejected"
    BY <1>2 DEF SubmissionType
  <1>4. submissions' = [submissions EXCEPT ![i] = s]
    BY DEF RejectSubmission
  <1>5. /\ quest'.next_review_index = quest.next_review_index + 1
        /\ quest'.next_submission_index = quest.next_submission_index
    BY <1>2 DEF RejectSubmission, QuestType
  <1>6. submissions'[i] = s
    BY <1>4
  <1> HIDE DEF s
  <1> QED
    BY <1>1, <1>3, <1>4, <1>5, <1>6, DecisionLeavesOthers

\* A new submission takes the next index and changes none.
LEMMA SubmissionLeavesOthers ==
  ASSUME Inv, NEW u \in Submitters, SubmitProof(u)
  PROVE  /\ SubmissionsStay
         /\ quest.next_submission_index \in DOMAIN submissions'
         /\ submissions'[quest.next_submission_index].submitter = u
  <1> DEFINE index == quest.next_submission_index
  <1>1. /\ index \in Nat /\ quest.next_review_index \in Nat
        /\ quest \in QuestType
        /\ DOMAIN submissions = 0 .. index - 1
    BY DEF Inv, TypeOK, QuestType
  <1>2. /\ quest'.next_submission_index = index + 1
        /\ quest'.next_review_index = quest.next_review_index
    BY <1>1 DEF SubmitProof, QuestType
  <1>3. submissions' = [j \in 0 .. index |->
                         IF j = index THEN NewSubmission(u) ELSE submissions[j]]
    BY DEF SubmitProof
  <1>4. NewSubmission(u).submitter = u
    BY DEF NewSubmission
  <1>5. /\ index \in DOMAIN submissions' /\ submissions'[index].submitter = u
        /\ \A j \in DOMAIN submissions :
             j \in DOMAIN submissions' /\ submissions'[j] = submissions[j]
    BY <1>1, <1>3, <1>4
  <1> QED
    BY <1>1, <1>2, <1>5 DEF SubmissionsStay

\* No instruction takes an index back, a submission away or a decision up again.
LEMMA NextKeepsSubmissions ==
  ASSUME Inv, [Next]_vars
  PROVE  SubmissionsStay
  <1>1. /\ quest \in QuestType
        /\ quest.next_review_index \in Nat /\ quest.next_submission_index \in Nat
    BY DEF Inv, TypeOK, QuestType
  <1>2. CASE /\ UNCHANGED submissions
             /\ quest'.next_review_index = quest.next_review_index
             /\ quest'.next_submission_index = quest.next_submission_index
    BY <1>1, <1>2 DEF SubmissionsStay
  <1>3. CASE \E args \in CreateArgs : CreateQuest(args)
    <2>1. quest = NoQuest
      BY <1>3 DEF CreateQuest, Inv, TermsHold
    <2>2. /\ quest'.next_review_index = quest.next_review_index
          /\ quest'.next_submission_index = quest.next_submission_index
          /\ UNCHANGED submissions
      BY <1>3, <2>1 DEF CreateQuest, NoQuest
    <2> QED BY <2>2, <1>2
  <1>4. CASE \E signer \in Users, args \in FundArgs : FundQuest(signer, args)
    BY <1>1, <1>2, <1>4 DEF FundQuest, QuestType
  <1>5. CASE \E u \in Submitters : SubmitProof(u)
    BY <1>5, SubmissionLeavesOthers
  <1>6. CASE \E signer \in Users, i \in DOMAIN submissions : ApproveSubmission(signer, i)
    BY <1>6, ApprovalLeavesOthers DEF ApproveSubmission
  <1>7. CASE \E signer \in Users, i \in DOMAIN submissions : RejectSubmission(signer, i)
    BY <1>7, RejectionLeavesOthers
  <1>8. CASE \E signer \in Users : CloseQuest(signer)
    <2> DEFINE closing == [quest EXCEPT
                            !.status = "Closing", !.close_requested_at = now,
                            !.closing_reason = IF now >= quest.expires_at
                                               THEN "Expired"
                                               ELSE "EarlyManual"]
    <2>1. /\ quest' = closing \/ quest' = [closing EXCEPT !.status = "Closed"]
          /\ UNCHANGED submissions
      BY <1>8 DEF CloseQuest, SettlePools
    <2> QED
      BY <1>1, <1>2, <2>1 DEF QuestType
  <1>9. CASE SettleQuest
    BY <1>1, <1>2, <1>9 DEF SettleQuest, SettlePools, QuestType
  <1>10. CASE Tick
    BY <1>2, <1>10 DEF Tick, accounts
  <1>11. CASE UNCHANGED vars
    BY <1>2, <1>11 DEF vars, accounts
  <1>12. CASE \E amount \in Transfers : SendToPool(amount)
    <2>1. UNCHANGED <<quest, submissions>>
      BY <1>12, SendFacts
    <2> QED
      BY <1>2, <2>1
  <1> QED
    BY <1>3, <1>4, <1>5, <1>6, <1>7, <1>8, <1>9, <1>10, <1>11, <1>12 DEF Next

-----------------------------------------------------------------------------
(***************************************************************************)
(* The inductive invariant: what pages read lies behind the quest, and a   *)
(* request that took effect names a submission that exists.                *)
(***************************************************************************)
ViewsUpTo(n) == {view \in PageType : view.review_index <= n}

LoadsUpTo(n) == {load \in LoadType : load.answer.review_index <= n}

\* What r did, if it did anything, shows in the submission it names.
HadItsWay(r) ==
  /\ r.index \in DOMAIN submissions
  /\ IF r.want = "Pending"
     THEN submissions[r.index].submitter = r.signer
     ELSE submissions[r.index].status = r.want

IsBehind(r) ==
  r.index <= IF r.want = "Pending"
             THEN quest.next_submission_index
             ELSE quest.next_review_index

PagesAreBehind ==
  /\ page \in [Pages -> ViewsUpTo(quest.next_review_index)]
  /\ loads \in [Pages -> Seq(LoadsUpTo(quest.next_review_index))]

EffectsStand ==
  /\ requests \in Seq(RequestType)
  /\ \A k \in DOMAIN requests : IsBehind(requests[k])
  /\ \A k \in TookEffect : HadItsWay(requests[k])
  /\ \A j, k \in TookEffect :
       requests[j].index = requests[k].index /\ Submits(j) = Submits(k) => j = k

ClientInv == Inv /\ PagesAreBehind /\ EffectsStand

\* As long as no request is added or changes its outcome, a step of the quest
\* keeps EffectsStand.
LEMMA QuestKeepsEffects ==
  ASSUME Inv, EffectsStand, [Next]_vars, UNCHANGED requests
  PROVE  EffectsStand'
  <1>1. SubmissionsStay /\ quest' \in QuestType
    BY NextKeepsSubmissions, NextKeepsInv DEF Inv, TypeOK
  <1>2. \A k \in DOMAIN requests : requests[k] \in RequestType
    BY DEF EffectsStand
  <1>3. TookEffect' = TookEffect /\ TookEffect \subseteq DOMAIN requests
    BY DEF TookEffect
  <1>4. \A k \in DOMAIN requests :
          /\ HadItsWay(requests[k]) => HadItsWay(requests[k])'
          /\ IsBehind(requests[k]) => IsBehind(requests[k])'
    <2> SUFFICES ASSUME NEW k \in DOMAIN requests
                 PROVE  /\ HadItsWay(requests[k]) => HadItsWay(requests[k])'
                        /\ IsBehind(requests[k]) => IsBehind(requests[k])'
      OBVIOUS
    <2> DEFINE r == requests[k]
    <2>1. r \in RequestType /\ r' = r
      BY <1>2
    <2>2. /\ quest.next_review_index \in Nat /\ quest.next_submission_index \in Nat
          /\ quest'.next_review_index \in Nat /\ quest'.next_submission_index \in Nat
          /\ r.index \in Nat /\ r.want \in {"Pending", "Approved", "Rejected"}
      BY <1>1, <2>1 DEF Inv, TypeOK, QuestType, RequestType
    <2>3. HadItsWay(r) => HadItsWay(r)'
      BY <1>1, <2>1, <2>2 DEF HadItsWay, SubmissionsStay
    <2>4. IsBehind(r) => IsBehind(r)'
      BY <1>1, <2>1, <2>2 DEF IsBehind, SubmissionsStay
    <2> QED
      BY <2>3, <2>4
  <1> QED
    BY <1>3, <1>4 DEF EffectsStand, Submits

\* And what pages read only falls further behind.
LEMMA QuestKeepsPagesBehind ==
  ASSUME Inv, PagesAreBehind, [Next]_vars, UNCHANGED <<page, loads>>
  PROVE  PagesAreBehind'
  <1> DEFINE m == quest.next_review_index
             n == quest'.next_review_index
  <1>1. m \in Nat /\ n \in Nat /\ m <= n
    BY NextKeepsSubmissions, NextKeepsInv DEF SubmissionsStay, Inv, TypeOK, QuestType
  <1>2. ViewsUpTo(m) \subseteq ViewsUpTo(n) /\ LoadsUpTo(m) \subseteq LoadsUpTo(n)
    <2> HIDE DEF m, n
    <2> QED
      BY <1>1 DEF ViewsUpTo, LoadsUpTo, PageType, LoadType, AnswerType
  <1>3. page' \in [Pages -> ViewsUpTo(n)]
    <2>1. page \in [Pages -> ViewsUpTo(m)]
      BY DEF PagesAreBehind
    <2> QED BY <1>2, <2>1
  <1>4. \A p \in Pages : loads[p] \in Seq(LoadsUpTo(n))
    <2>1. \A p \in Pages : loads[p] \in Seq(LoadsUpTo(m))
      BY DEF PagesAreBehind
    <2> QED BY <1>2, <2>1, SeqMonotonic
  <1>5. loads' \in [Pages -> Seq(LoadsUpTo(n))]
    BY <1>4 DEF PagesAreBehind
  <1> QED
    BY <1>3, <1>5 DEF PagesAreBehind

\* Removing a load leaves loads of the same kind.
LEMMA RemovalKeepsKind ==
  ASSUME NEW S, NEW s \in Seq(S), NEW k \in DOMAIN s
  PROVE  RemoveAt(s, k) \in Seq(S)
  <1>1. /\ Len(s) \in Nat /\ DOMAIN s = 1 .. Len(s)
        /\ \A i \in 1 .. Len(s) : s[i] \in S
    BY LenProperties, ElementOfSeq
  <1>2. SubSeq(s, 1, k - 1) \in Seq(S)
    BY <1>1, SubSeqProperties
  <1>3. SubSeq(s, k + 1, Len(s)) \in Seq(S)
    BY <1>1, SubSeqProperties
  <1> QED
    BY <1>2, <1>3, ConcatProperties DEF RemoveAt

-----------------------------------------------------------------------------
\* Loads carry what the quest said at some earlier time.
LEMMA LoadKinds ==
  ASSUME ClientInv, NEW p \in Pages
  PROVE  /\ quest.next_review_index \in Nat
         /\ page[p] \in ViewsUpTo(quest.next_review_index)
         /\ loads[p] \in Seq(LoadsUpTo(quest.next_review_index))
         /\ \A k \in DOMAIN loads[p] :
              loads[p][k] \in LoadsUpTo(quest.next_review_index)
         /\ \A whole, again \in BOOLEAN :
              Asked(whole, again) \in LoadsUpTo(quest.next_review_index)
  <1>1. quest.next_review_index \in Nat
    BY DEF ClientInv, Inv, TypeOK, QuestType
  <1>2. /\ page[p] \in ViewsUpTo(quest.next_review_index)
        /\ loads[p] \in Seq(LoadsUpTo(quest.next_review_index))
    BY DEF ClientInv, PagesAreBehind
  <1>3. \A k \in DOMAIN loads[p] : loads[p][k] \in LoadsUpTo(quest.next_review_index)
    BY <1>2, ElementOfSeq, LenProperties
  <1>4. ASSUME NEW whole \in BOOLEAN, NEW again \in BOOLEAN
        PROVE  Asked(whole, again) \in LoadsUpTo(quest.next_review_index)
    BY <1>1 DEF Asked, NoAnswer, LoadsUpTo, LoadType, AnswerType, Statuses
  <1> QED
    BY <1>1, <1>2, <1>3, <1>4

\* A load that has only been asked carries nothing yet.
LEMMA BeginKeepsPagesBehind ==
  ASSUME ClientInv, NEW p \in Pages, NEW again \in BOOLEAN, BeginLoad(p, again),
         UNCHANGED <<quest, page>>
  PROVE  PagesAreBehind'
  <1> DEFINE L == LoadsUpTo(quest.next_review_index)
             a == Asked(TRUE, again)
  <1>1. loads[p] \in Seq(L) /\ a \in L
    BY LoadKinds
  <1>2. loads' = [loads EXCEPT ![p] = Append(loads[p], a)]
    BY DEF BeginLoad
  <1>3. loads \in [Pages -> Seq(L)]
    BY DEF ClientInv, PagesAreBehind
  <1>4. loads' \in [Pages -> Seq(L)]
    <2> HIDE DEF a, L
    <2>1. Append(loads[p], a) \in Seq(L)
      BY <1>1
    <2> QED BY <1>2, <1>3, <2>1
  <1> QED
    BY <1>4 DEF ClientInv, PagesAreBehind

\* A read brings the quest's own index.
LEMMA ReadKeepsPagesBehind ==
  ASSUME ClientInv, NEW p \in Pages, NEW k \in DOMAIN loads[p], ReadQuest(p, k)
  PROVE  PagesAreBehind'
  <1> DEFINE L == LoadsUpTo(quest.next_review_index)
             r == [loads[p][k] EXCEPT !.stage = "Read", !.answer = QuestRead(p)]
  <1>1. loads[p] \in Seq(L) /\ loads[p][k] \in L /\ quest.next_review_index \in Nat
    BY LoadKinds
  <1>2. /\ QuestRead(p) \in AnswerType
        /\ QuestRead(p).review_index = quest.next_review_index
    <2>1. quest.status \in Statuses
      BY DEF ClientInv, Inv, TypeOK, QuestType
    <2>2. CanSubmit(p) \in BOOLEAN
      BY DEF CanSubmit
    <2> QED
      BY <1>1, <2>1, <2>2 DEF QuestRead, ReviewIndex, AnswerType
  <1>3. r \in L
    <2>1. loads[p][k] \in LoadType
      BY <1>1 DEF LoadsUpTo
    <2>2. r \in LoadType /\ r.answer = QuestRead(p)
      BY <2>1, <1>2 DEF LoadType
    <2>3. r.answer.review_index <= quest.next_review_index
      BY <1>1, <1>2, <2>2
    <2> HIDE DEF r
    <2> QED
      BY <2>2, <2>3 DEF LoadsUpTo
  <1>4. loads \in [Pages -> Seq(L)]
    BY DEF ClientInv, PagesAreBehind
  <1>5. loads' = [loads EXCEPT ![p] = [loads[p] EXCEPT ![k] = r]]
    BY <1>4 DEF ReadQuest
  <1>6. loads' \in [Pages -> Seq(L)]
    <2> HIDE DEF r, L
    <2>1. [loads[p] EXCEPT ![k] = r] \in Seq(L)
      BY <1>1, <1>3, ExceptSeq, LenProperties
    <2> QED BY <1>4, <1>5, <2>1
  <1>7. UNCHANGED <<quest, page>>
    BY DEF ReadQuest, vars, accounts
  <1> QED
    BY <1>6, <1>7 DEF ClientInv, PagesAreBehind

\* However a load ends, what it leaves on the page is no newer than what it read.
LEMMA EndKeepsPagesBehind ==
  ASSUME ClientInv, NEW p \in Pages, NEW k \in DOMAIN loads[p],
         NEW view \in ViewsUpTo(quest.next_review_index), EndLoad(p, k, view),
         UNCHANGED quest
  PROVE  PagesAreBehind'
  <1> DEFINE L == LoadsUpTo(quest.next_review_index)
             V == ViewsUpTo(quest.next_review_index)
             a == Asked(FALSE, FALSE)
             blank == [view EXCEPT !.shown = {}]
  <1>1. loads[p] \in Seq(L) /\ a \in L
    BY LoadKinds
  <1>2. page \in [Pages -> V] /\ loads \in [Pages -> Seq(L)]
    BY DEF ClientInv, PagesAreBehind
  <1>3. blank \in V
    <2>1. view \in PageType /\ view.review_index <= quest.next_review_index
      BY DEF ViewsUpTo
    <2>2. blank \in PageType /\ blank.review_index = view.review_index
      BY <2>1 DEF PageType
    <2> QED
      BY <2>1, <2>2 DEF ViewsUpTo
  <1>4. CASE loads[p][k].again
    <2>1. /\ loads' = [loads EXCEPT ![p] = [loads[p] EXCEPT ![k] = a]]
          /\ page' = [page EXCEPT ![p] = blank]
      BY <1>2, <1>4 DEF EndLoad
    <2> HIDE DEF a, L, V, blank
    <2>2. [loads[p] EXCEPT ![k] = a] \in Seq(L)
      BY <1>1, ExceptSeq, LenProperties
    <2>3. loads' \in [Pages -> Seq(L)] /\ page' \in [Pages -> V]
      BY <1>2, <1>3, <2>1, <2>2
    <2> QED
      BY <2>3 DEF PagesAreBehind, L, V
  <1>5. CASE ~loads[p][k].again
    <2>1. /\ loads' = [loads EXCEPT ![p] = RemoveAt(loads[p], k)]
          /\ page' = [page EXCEPT ![p] = view]
      BY <1>5 DEF EndLoad
    <2>2. RemoveAt(loads[p], k) \in Seq(L)
      BY <1>1, RemovalKeepsKind
    <2> HIDE DEF L
    <2>3. loads' \in [Pages -> Seq(L)] /\ page' \in [Pages -> V]
      BY <1>2, <2>1, <2>2
    <2> QED
      BY <2>3 DEF PagesAreBehind, L
  <1> QED
    BY <1>4, <1>5

\* The answers of loads bring pages nothing newer, in whatever order they come.
LEMMA ArrivalsKeepPagesBehind ==
  ASSUME ClientInv, NEW p \in Pages, NEW k \in DOMAIN loads[p],
         QuestArrives(p, k) \/ ItemArrives(p, k) \/ LoadFails(p, k)
  PROVE  PagesAreBehind'
  <1> DEFINE n == quest.next_review_index
             load == loads[p][k]
             answer == load.answer
  <1>1. /\ n \in Nat
        /\ page[p] \in ViewsUpTo(n)
        /\ loads[p] \in Seq(LoadsUpTo(n))
        /\ load \in LoadsUpTo(n)
    BY LoadKinds
  <1>2. /\ load \in LoadType /\ answer \in AnswerType
        /\ answer.review_index \in Nat /\ answer.review_index <= n
        /\ page[p] \in PageType /\ page[p].review_index <= n
    BY <1>1 DEF LoadsUpTo, ViewsUpTo, LoadType, AnswerType
  <1>3. page \in [Pages -> ViewsUpTo(n)] /\ loads \in [Pages -> Seq(LoadsUpTo(n))]
    BY DEF ClientInv, PagesAreBehind
  <1>4. UNCHANGED quest
    BY DEF QuestArrives, ItemArrives, LoadFails, vars, accounts
  <1>5. CASE QuestArrives(p, k)
    <2> DEFINE whole == [status |-> answer.status, can_submit |-> answer.can_submit,
                         review_index |-> answer.review_index, shown |-> {}]
               part  == [page[p] EXCEPT !.review_index = answer.review_index]
               view  == IF load.whole THEN whole ELSE part
               item  == [NoAnswer EXCEPT !.review_index = answer.review_index]
               next  == [load EXCEPT !.stage = "Item", !.answer = item]
    <2>1. whole \in ViewsUpTo(n)
      BY <1>2 DEF ViewsUpTo, PageType, AnswerType
    <2>2. part \in ViewsUpTo(n)
      <3>1. part \in PageType /\ part.review_index = answer.review_index
        BY <1>2 DEF PageType
      <3> HIDE DEF part
      <3> QED BY <3>1, <1>2 DEF ViewsUpTo
    <2>3. view \in ViewsUpTo(n)
      BY <2>1, <2>2
    <2>4. next \in LoadsUpTo(n)
      <3>1. item \in AnswerType /\ item.review_index = answer.review_index
        BY <1>2 DEF NoAnswer, AnswerType, Statuses
      <3> HIDE DEF item
      <3>2. next \in LoadType /\ next.answer = item
        BY <3>1, <1>2 DEF LoadType
      <3>3. next.answer.review_index <= n
        BY <3>1, <3>2, <1>2
      <3> HIDE DEF next
      <3> QED BY <3>2, <3>3 DEF LoadsUpTo
    <2>5. CASE answer.has_pending
      <3>1. /\ loads' = [loads EXCEPT ![p] = [loads[p] EXCEPT ![k] = next]]
            /\ page' = [page EXCEPT ![p] = view]
        BY <1>3, <1>5, <2>5 DEF QuestArrives
      <3> HIDE DEF next, view, n
      <3>2. [loads[p] EXCEPT ![k] = next] \in Seq(LoadsUpTo(n))
        BY <1>1, <2>4, ExceptSeq, LenProperties
      <3>3. page' \in [Pages -> ViewsUpTo(n)] /\ loads' \in [Pages -> Seq(LoadsUpTo(n))]
        BY <1>3, <2>3, <3>1, <3>2
      <3> QED
        BY <3>3, <1>4 DEF PagesAreBehind, n
    <2>6. CASE ~answer.has_pending
      <3>1. EndLoad(p, k, view)
        BY <1>5, <2>6 DEF QuestArrives
      <3> HIDE DEF view
      <3> QED
        BY <2>3, <3>1, <1>4, EndKeepsPagesBehind
    <2> QED
      BY <2>5, <2>6
  <1>6. CASE ItemArrives(p, k)
    <2> DEFINE view == [page[p] EXCEPT !.shown = {answer.review_index}]
    <2>1. view \in PageType /\ view.review_index = page[p].review_index
      BY <1>2 DEF PageType
    <2>2. EndLoad(p, k, view)
      BY <1>6 DEF ItemArrives
    <2> HIDE DEF view
    <2>3. view \in ViewsUpTo(n)
      BY <2>1, <1>2 DEF ViewsUpTo
    <2> QED
      BY <2>2, <2>3, <1>4, EndKeepsPagesBehind
  <1>7. CASE LoadFails(p, k)
    <2>1. CASE load.stage = "Item"
      BY <1>7, <2>1, <1>1, <1>4, EndKeepsPagesBehind DEF LoadFails
    <2>2. CASE load.stage # "Item"
      <3>1. loads' = [loads EXCEPT ![p] = RemoveAt(loads[p], k)] /\ UNCHANGED page
        BY <1>7, <2>2 DEF LoadFails
      <3>2. RemoveAt(loads[p], k) \in Seq(LoadsUpTo(n))
        BY <1>1, RemovalKeepsKind
      <3> HIDE DEF n
      <3>3. loads' \in [Pages -> Seq(LoadsUpTo(n))]
        BY <1>3, <3>1, <3>2
      <3> QED
        BY <3>1, <3>3, <1>3, <1>4 DEF PagesAreBehind, n
    <2> QED
      BY <2>1, <2>2
  <1> QED
    BY <1>5, <1>6, <1>7

-----------------------------------------------------------------------------
\* A click adds a request that is behind and has not taken effect.
LEMMA RequestKeepsEffects ==
  ASSUME ClientInv, NEW p \in Pages, NEW want \in {"Pending", "Approved", "Rejected"},
         NEW index \in Nat, NEW shown \in SUBSET Nat,
         Request(p, want, index, shown),
         index <= IF want = "Pending"
                  THEN quest.next_submission_index
                  ELSE quest.next_review_index
  PROVE  EffectsStand'
  <1> DEFINE r == [signer |-> p, want |-> want, index |-> index,
                   shown |-> shown, outcome |-> "Sent"]
  <1>1. requests \in Seq(RequestType) /\ r \in RequestType
    BY DEF ClientInv, EffectsStand, RequestType
  <1>2. requests' = Append(requests, r) /\ UNCHANGED <<quest, submissions>>
    BY DEF Request, vars, accounts
  <1>3. /\ requests' \in Seq(RequestType)
        /\ DOMAIN requests' = DOMAIN requests \cup {Len(requests) + 1}
        /\ Len(requests) + 1 \notin DOMAIN requests
        /\ requests'[Len(requests) + 1] = r
        /\ \A k \in DOMAIN requests : requests'[k] = requests[k]
    <2> HIDE DEF r
    <2> QED BY <1>1, <1>2
  <1>4. TookEffect' = TookEffect /\ TookEffect \subseteq DOMAIN requests
    BY <1>3 DEF TookEffect
  <1>5. \A k \in DOMAIN requests' : IsBehind(requests[k])'
    <2> SUFFICES ASSUME NEW k \in DOMAIN requests'
                 PROVE  IsBehind(requests[k])'
      OBVIOUS
    <2>1. CASE k \in DOMAIN requests
      BY <1>2, <1>3, <2>1 DEF ClientInv, EffectsStand, IsBehind
    <2>2. CASE k = Len(requests) + 1
      <3>1. requests'[k] = r
        BY <1>3, <2>2
      <3> QED
        BY <1>2, <3>1 DEF IsBehind
    <2> QED
      BY <1>3, <2>1, <2>2
  <1>6. \A k \in TookEffect' : HadItsWay(requests[k])'
    BY <1>2, <1>3, <1>4 DEF ClientInv, EffectsStand, HadItsWay
  <1> QED
    BY <1>3, <1>4, <1>5, <1>6 DEF ClientInv, EffectsStand, Submits

\* Hearing of a transaction changes only its outcome, which had taken effect.
LEMMA ConfirmKeepsEffects ==
  ASSUME ClientInv, NEW k \in DOMAIN requests, Confirm(k)
  PROVE  EffectsStand'
  <1> DEFINE r == [requests[k] EXCEPT !.outcome = "Confirmed"]
  <1>1. /\ requests \in Seq(RequestType)
        /\ requests[k] \in RequestType
        /\ requests \in [DOMAIN requests -> RequestType]
        /\ DOMAIN requests = 1 .. Len(requests)
    BY ElementOfSeq, LenProperties DEF ClientInv, EffectsStand
  <1>2. /\ r \in RequestType /\ r.outcome = "Confirmed"
        /\ r.want = requests[k].want /\ r.index = requests[k].index
        /\ r.signer = requests[k].signer
    BY <1>1 DEF RequestType
  <1>3. /\ requests' = [requests EXCEPT ![k] = r]
        /\ requests[k].outcome = "Done"
        /\ UNCHANGED <<quest, submissions>>
    BY <1>1 DEF Confirm, vars, accounts
  <1> HIDE DEF r
  <1>4. requests' \in Seq(RequestType) /\ DOMAIN requests' = DOMAIN requests
    BY <1>1, <1>2, <1>3, ExceptSeq
  <1>5. \A j \in DOMAIN requests :
          /\ requests'[j].want = requests[j].want
          /\ requests'[j].index = requests[j].index
          /\ requests'[j].signer = requests[j].signer
          /\ requests'[j].outcome # "Sent" <=> requests[j].outcome # "Sent"
    BY <1>1, <1>2, <1>3
  <1>6. TookEffect' = TookEffect /\ TookEffect \subseteq DOMAIN requests
    BY <1>4, <1>5 DEF TookEffect
  <1>7. \A j \in DOMAIN requests' : IsBehind(requests[j])'
    BY <1>3, <1>4, <1>5 DEF ClientInv, EffectsStand, IsBehind
  <1>8. \A j \in TookEffect' : HadItsWay(requests[j])'
    BY <1>3, <1>5, <1>6 DEF ClientInv, EffectsStand, HadItsWay
  <1>9. \A i, j \in TookEffect' :
          requests'[i].index = requests'[j].index /\ (Submits(i) = Submits(j))' => i = j
    BY <1>5, <1>6 DEF ClientInv, EffectsStand, Submits
  <1> QED
    BY <1>4, <1>7, <1>8, <1>9 DEF EffectsStand

\* A transaction that runs is the first of its kind to name its submission: others
\* that took effect name submissions sent, or decided, before.
LEMMA RunKeepsEffects ==
  ASSUME ClientInv, NEW k \in DOMAIN requests, Run(k), [Next]_vars,
         requests[k].want = "Pending" =>
           /\ requests[k].index = quest.next_submission_index
           /\ requests[k].index \in DOMAIN submissions'
           /\ submissions'[requests[k].index].submitter = requests[k].signer,
         requests[k].want # "Pending" =>
           /\ requests[k].index \in DOMAIN submissions
           /\ NextInLine(requests[k].index)
           /\ submissions'[requests[k].index].status = requests[k].want
  PROVE  EffectsStand'
  <1> DEFINE r == [requests[k] EXCEPT !.outcome = "Done"]
  <1>1. /\ requests \in Seq(RequestType)
        /\ requests[k] \in RequestType
        /\ \A j \in DOMAIN requests : requests[j] \in RequestType
        /\ requests \in [DOMAIN requests -> RequestType]
        /\ DOMAIN requests = 1 .. Len(requests)
    BY ElementOfSeq, LenProperties DEF ClientInv, EffectsStand
  <1>2. /\ r \in RequestType /\ r.outcome = "Done"
        /\ r.want = requests[k].want /\ r.index = requests[k].index
        /\ r.signer = requests[k].signer
    BY <1>1 DEF RequestType
  <1>3. requests' = [requests EXCEPT ![k] = r] /\ requests[k].outcome = "Sent"
    BY <1>1 DEF Run
  <1> HIDE DEF r
  <1>4. requests' \in Seq(RequestType) /\ DOMAIN requests' = DOMAIN requests
    BY <1>1, <1>2, <1>3, ExceptSeq
  <1>5. \A j \in DOMAIN requests :
          /\ requests'[j].want = requests[j].want
          /\ requests'[j].index = requests[j].index
          /\ requests'[j].signer = requests[j].signer
          /\ requests'[j].outcome # "Sent" <=> (j = k \/ requests[j].outcome # "Sent")
    BY <1>1, <1>2, <1>3
  <1>6. TookEffect' = TookEffect \cup {k} /\ TookEffect \subseteq DOMAIN requests
    BY <1>4, <1>5 DEF TookEffect
  <1>7. /\ SubmissionsStay
        /\ quest.next_review_index \in Nat /\ quest.next_submission_index \in Nat
        /\ quest'.next_review_index \in Nat /\ quest'.next_submission_index \in Nat
        /\ DOMAIN submissions = 0 .. quest.next_submission_index - 1
    BY NextKeepsSubmissions, NextKeepsInv DEF ClientInv, Inv, TypeOK, QuestType
  <1>8. \A j \in DOMAIN requests' : IsBehind(requests[j])'
    <2> SUFFICES ASSUME NEW j \in DOMAIN requests
                 PROVE  IsBehind(requests[j])'
      BY <1>4
    <2>1. IsBehind(requests[j]) /\ requests[j].index \in Nat
      BY <1>1 DEF ClientInv, EffectsStand, RequestType
    <2> QED
      BY <1>5, <1>7, <2>1 DEF IsBehind, SubmissionsStay
  <1>9. \A j \in TookEffect : HadItsWay(requests[j])'
    <2> SUFFICES ASSUME NEW j \in TookEffect
                 PROVE  HadItsWay(requests[j])'
      OBVIOUS
    <2>1. /\ HadItsWay(requests[j]) /\ j \in DOMAIN requests
          /\ requests[j].want \in {"Pending", "Approved", "Rejected"}
      BY <1>1, <1>6 DEF ClientInv, EffectsStand, RequestType
    <2> QED
      BY <1>5, <1>7, <2>1 DEF HadItsWay, SubmissionsStay
  <1>10. HadItsWay(requests[k])'
    <2>1. CASE requests[k].want = "Pending"
      BY <1>5, <2>1 DEF HadItsWay
    <2>2. CASE requests[k].want # "Pending"
      <3>1. requests[k].index \in DOMAIN submissions'
        BY <1>7, <2>2 DEF SubmissionsStay
      <3> QED
        BY <1>5, <2>2, <3>1 DEF HadItsWay
    <2> QED
      BY <2>1, <2>2
  <1>11. ASSUME NEW j \in TookEffect, requests[j].index = requests[k].index,
                Submits(j) = Submits(k)
         PROVE  FALSE
    <2>1. HadItsWay(requests[j]) /\ requests[j].want \in {"Pending", "Approved", "Rejected"}
      BY <1>1, <1>6 DEF ClientInv, EffectsStand, RequestType
    <2>2. CASE requests[k].want = "Pending"
      BY <1>7, <1>11, <2>1, <2>2 DEF HadItsWay
    <2>3. CASE requests[k].want # "Pending"
      <3>1. submissions[requests[k].index].status = "Pending"
        BY <2>3 DEF NextInLine
      <3>2. requests[j].want # "Pending"
        BY <1>11, <2>3 DEF Submits
      <3> QED
        BY <1>11, <2>1, <3>1, <3>2 DEF HadItsWay
    <2> QED
      BY <2>2, <2>3
  <1>12. \A i, j \in TookEffect' :
           requests'[i].index = requests'[j].index /\ (Submits(i) = Submits(j))' => i = j
    <2> SUFFICES ASSUME NEW i \in TookEffect \cup {k}, NEW j \in TookEffect \cup {k},
                        requests[i].index = requests[j].index, Submits(i) = Submits(j)
                 PROVE  i = j
      BY <1>5, <1>6 DEF Submits
    <2>1. CASE i \in TookEffect /\ j \in TookEffect
      BY <2>1 DEF ClientInv, EffectsStand
    <2> QED
      BY <1>11, <2>1
  <1> QED
    BY <1>4, <1>6, <1>8, <1>9, <1>10, <1>12 DEF EffectsStand

-----------------------------------------------------------------------------
\* Who signs is a user with the page.
LEMMA SignersArePages ==
  ASSUME ClientInv, NEW k \in DOMAIN requests
  PROVE  requests[k].signer \in Pages /\ requests[k].signer \in Users
  <1>1. requests \in Seq(RequestType)
    BY DEF ClientInv, EffectsStand
  <1>2. requests[k] \in RequestType
    BY <1>1
  <1> QED
    BY <1>2, ClientAssumption DEF RequestType

\* Whatever the pages do, the quest takes one of its own steps or none.
LEMMA ClientStepsAreNext ==
  ASSUME ClientInv, [ClientNext]_<<vars, clientVars>>
  PROVE  [Next]_vars
  <1>1. CASE Elsewhere
    BY <1>1 DEF Elsewhere, Next
  <1>2. CASE \E k \in DOMAIN requests : Run(k)
    <2>1. PICK k \in DOMAIN requests : Run(k)
      BY <1>2
    <2>2. requests[k].signer \in Users
      BY SignersArePages
    <2> QED
      BY <2>1, <2>2 DEF Run, Review, Next
  <1>3. CASE UNCHANGED vars
    BY <1>3
  <1> QED
    BY <1>1, <1>2, <1>3
       DEF ClientNext, Load, ReadQuest, QuestArrives, ItemArrives, LoadFails,
           ClickSubmit, ClickReview, Request, Confirm

\* Every step of quest, pages and transactions keeps the invariant.
LEMMA ClientNextKeepsInv ==
  ASSUME ClientInv, [ClientNext]_<<vars, clientVars>>
  PROVE  ClientInv'
  <1>1. [Next]_vars /\ Inv /\ Inv'
    BY ClientStepsAreNext, NextKeepsInv DEF ClientInv
  <1>2. UNCHANGED requests => EffectsStand'
    BY <1>1, QuestKeepsEffects DEF ClientInv
  <1>3. UNCHANGED <<page, loads>> => PagesAreBehind'
    BY <1>1, QuestKeepsPagesBehind DEF ClientInv
  <1>4. CASE Elsewhere \/ UNCHANGED <<vars, clientVars>>
    BY <1>1, <1>2, <1>3, <1>4 DEF Elsewhere, clientVars, ClientInv
  <1>5. CASE \E p \in Pages : Load(p)
    <2>1. PICK p \in Pages, again \in BOOLEAN :
            BeginLoad(p, again) /\ UNCHANGED <<vars, page, requests>>
      BY <1>5 DEF Load
    <2>2. PagesAreBehind'
      BY <2>1, BeginKeepsPagesBehind DEF vars, accounts
    <2> QED
      BY <1>1, <1>2, <2>1, <2>2 DEF ClientInv
  <1>6. CASE \E p \in Pages : \E k \in DOMAIN loads[p] :
               ReadQuest(p, k) \/ QuestArrives(p, k) \/ ItemArrives(p, k)
               \/ LoadFails(p, k)
    <2>p. PICK p \in Pages :
            \E k \in DOMAIN loads[p] :
              ReadQuest(p, k) \/ QuestArrives(p, k) \/ ItemArrives(p, k) \/ LoadFails(p, k)
      BY <1>6
    <2>1. PICK k \in DOMAIN loads[p] :
            ReadQuest(p, k) \/ QuestArrives(p, k) \/ ItemArrives(p, k) \/ LoadFails(p, k)
      BY <2>p
    <2>2. PagesAreBehind'
      BY <2>1, ReadKeepsPagesBehind, ArrivalsKeepPagesBehind
    <2>3. UNCHANGED requests
      BY <2>1 DEF ReadQuest, QuestArrives, ItemArrives, LoadFails
    <2> QED
      BY <1>1, <1>2, <2>2, <2>3 DEF ClientInv
  <1>7. CASE \E p \in Pages : ClickSubmit(p)
    <2>1. PICK p \in Pages : ClickSubmit(p)
      BY <1>7
    <2>2. Request(p, "Pending", quest.next_submission_index, {})
      BY <2>1 DEF ClickSubmit
    <2>3. quest.next_submission_index \in Nat
      BY <1>1 DEF Inv, TypeOK, QuestType
    <2>4. EffectsStand'
      BY <2>2, <2>3, RequestKeepsEffects
    <2> QED
      BY <1>1, <1>3, <2>2, <2>4 DEF ClientInv, Request
  <1>8. CASE \E p \in Pages, want \in {"Approved", "Rejected"} : ClickReview(p, want)
    <2>1. PICK p \in Pages, want \in {"Approved", "Rejected"} : ClickReview(p, want)
      BY <1>8
    <2>2. Request(p, want, page[p].review_index, page[p].shown)
      BY <2>1 DEF ClickReview
    <2>3. /\ page[p].review_index \in Nat /\ page[p].shown \in SUBSET Nat
          /\ page[p].review_index <= quest.next_review_index
      BY LoadKinds DEF ViewsUpTo, PageType
    <2>4. EffectsStand'
      BY <2>2, <2>3, RequestKeepsEffects
    <2> QED
      BY <1>1, <1>3, <2>2, <2>4 DEF ClientInv, Request
  <1>9. CASE \E k \in DOMAIN requests : Run(k)
    <2>1. PICK k \in DOMAIN requests : Run(k)
      BY <1>9
    <2> DEFINE r == requests[k]
    <2>2. CASE Review(r.signer, r.want, r.index)
      <3>1. /\ r.want \in {"Approved", "Rejected"} /\ r.index \in DOMAIN submissions
            /\ NextInLine(r.index)
        BY <2>2 DEF Review, ApproveSubmission, ApproveAndPay, RejectSubmission
      <3>2. submissions'[r.index].status = r.want
        <4>1. r.signer \in Users
          BY SignersArePages
        <4> QED
          BY <1>1, <2>2, <4>1, ApprovalLeavesOthers, RejectionLeavesOthers
             DEF Review, ApproveSubmission
      <3>3. EffectsStand'
        BY <1>1, <2>1, <3>1, <3>2, RunKeepsEffects
      <3> QED
        BY <1>1, <1>3, <2>1, <3>3 DEF ClientInv, Run
    <2>3. CASE /\ r.want = "Pending" /\ r.signer \in Submitters
               /\ IsNextAddress(r.index) /\ SubmitProof(r.signer)
      <3>1. /\ r.index = quest.next_submission_index
            /\ r.index \in DOMAIN submissions'
            /\ submissions'[r.index].submitter = r.signer
        BY <1>1, <2>3, SubmissionLeavesOthers DEF IsNextAddress
      <3>2. EffectsStand'
        BY <1>1, <2>1, <2>3, <3>1, RunKeepsEffects
      <3> QED
        BY <1>1, <1>3, <2>1, <3>2 DEF ClientInv, Run
    <2> QED
      BY <2>1, <2>2, <2>3 DEF Run
  <1>10. CASE \E k \in DOMAIN requests : Confirm(k)
    <2>1. PICK k \in DOMAIN requests : Confirm(k)
      BY <1>10
    <2>2. requests[k].signer \in Pages
      BY SignersArePages
    <2>3. PagesAreBehind'
      BY <2>1, <2>2, BeginKeepsPagesBehind DEF Confirm, vars, accounts
    <2> QED
      BY <1>1, <2>1, <2>3, ConfirmKeepsEffects DEF ClientInv
  <1> QED
    BY <1>4, <1>5, <1>6, <1>7, <1>8, <1>9, <1>10 DEF ClientNext

\* It holds before any page loads anything.
LEMMA ClientInitHasInv == ClientInit => ClientInv
  <1> SUFFICES ASSUME ClientInit PROVE ClientInv
    OBVIOUS
  <1>1. Inv
    BY InitHasInv DEF ClientInit
  <1>2. quest.next_review_index = 0
    BY DEF ClientInit, Init, NoQuest
  <1>3. PagesAreBehind
    <2>1. [status |-> "Absent", can_submit |-> FALSE, review_index |-> 0,
           shown |-> {}] \in ViewsUpTo(0)
      BY DEF ViewsUpTo, PageType, Statuses
    <2>2. <<>> \in Seq(LoadsUpTo(0))
      BY EmptySeq
    <2> QED
      BY <1>2, <2>1, <2>2 DEF ClientInit, PagesAreBehind
  <1>4. EffectsStand
    <2>1. requests = <<>> /\ requests \in Seq(RequestType) /\ DOMAIN requests = {}
      BY EmptySeq DEF ClientInit
    <2> QED
      BY <2>1 DEF EffectsStand, TookEffect
  <1> QED
    BY <1>1, <1>3, <1>4 DEF ClientInv

-----------------------------------------------------------------------------
\* The client's invariant: the quest's own, and pages and requests are behind it.
THEOREM ClientInvariance == ClientSpec => []ClientInv
  <1> QED
    BY ClientInitHasInv, ClientNextKeepsInv, PTL DEF ClientSpec

\* A page, its loads and the requests keep their types: the index a page offers is
\* a natural number whatever it read, and when.
THEOREM ClientTypeCorrect == ClientSpec => []ClientTypeOK
  <1>1. ClientInv => ClientTypeOK
    <2> SUFFICES ASSUME ClientInv
                 PROVE  ClientTypeOK
      OBVIOUS
    <2>1. page \in [Pages -> PageType] /\ DOMAIN loads = Pages
      BY DEF ClientInv, PagesAreBehind, ViewsUpTo
    <2>2. \A p \in Pages, k \in 1 .. MAX_LOADS :
            k \in DOMAIN loads[p] => loads[p][k] \in LoadType
      BY LoadKinds DEF LoadsUpTo
    <2>3. \A k \in DOMAIN requests : requests[k] \in RequestType
      BY DEF ClientInv, EffectsStand
    <2> QED
      BY <2>1, <2>2, <2>3 DEF ClientTypeOK
  <1> QED
    BY <1>1, ClientInvariance, PTL

\* Whatever the pages do, the quest behaves as Quest says, so every theorem about
\* Spec holds of it.
THEOREM ClientDrivesQuest == ClientSpec => Spec
  <1>1. ClientInit => Init
    BY DEF ClientInit
  <1>2. ClientInv /\ [ClientNext]_<<vars, clientVars>> => [Next]_vars
    BY ClientStepsAreNext
  <1> QED
    BY <1>1, <1>2, ClientInvariance, PTL DEF ClientSpec, Spec

\* No late, repeated or contrary review changes a decided submission.
THEOREM DecisionIsFinal == ClientSpec => DecisionsStand
  <1>1. Inv /\ [Next]_vars =>
          [\A i \in DOMAIN submissions :
             submissions[i].status # "Pending" => submissions'[i] = submissions[i]]_vars
    BY NextKeepsSubmissions DEF SubmissionsStay
  <1> QED
    BY <1>1, ClientDrivesQuest, Invariance, PTL DEF Spec, DecisionsStand

\* One transaction at most sends or decides a submission, and it has had its way.
THEOREM OneRequestActs == ClientSpec => []RequestsActOnce
  <1>1. ClientInv => RequestsActOnce
    BY DEF ClientInv, EffectsStand, RequestsActOnce, HadItsWay, Submits
  <1> QED
    BY <1>1, ClientInvariance, PTL

\* No page sends a request for a submission whose turn is still to come.
THEOREM RequestsLagBehind == ClientSpec => []RequestsAreNeverAhead
  <1>1. ClientInv => RequestsAreNeverAhead
    BY DEF ClientInv, EffectsStand, RequestsAreNeverAhead, IsBehind, Submits
  <1> QED
    BY <1>1, ClientInvariance, PTL
=============================================================================
