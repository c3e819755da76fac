------------------------------- MODULE Escrow -------------------------------
(***************************************************************************)
(* What a quest promises the people who work for it, without pools, fees,  *)
(* clocks, cycles or reviewers: a claim is admitted only while the money   *)
(* that can pay it is there, claims are decided in the order they came in, *)
(* a paid claim brings its owner the full price and a decision stands.     *)
(* Money may come in at any time. What can pay claims leaves in two other  *)
(* ways only: what no waiting claim needs may go when the escrow stops     *)
(* admitting, and the rest when no claim waits.                            *)
(***************************************************************************)
EXTENDS Integers

CONSTANTS
  Claimants,   \* who may claim
  Payees       \* the claimants who get money from this escrow and nowhere else

VARIABLES
  phase,       \* "Absent", "Open", "Closing", "Closed"
  price,       \* what a paid claim brings
  claims,      \* whose claim it is and what became of it, in order of admission
  admitted,    \* how many claims came in
  decided,     \* how many of them were paid or refused
  payable,     \* the money claims can be paid from
  received     \* what each payee got

escrowVars == <<phase, price, claims, admitted, decided, payable, received>>

Waiting == admitted - decided

Init ==
  /\ phase = "Absent"
  /\ price = 0
  /\ claims = [i \in {} |-> "None"]
  /\ admitted = 0
  /\ decided = 0
  /\ payable = 0
  /\ received = [o \in Payees |-> 0]

Open ==
  /\ phase = "Absent"
  /\ phase' = "Open"
  /\ price' > 0
  /\ payable' >= price'
  /\ UNCHANGED <<claims, admitted, decided, received>>

\* Anybody may add money in any phase.
Deposit ==
  /\ payable' >= payable
  /\ UNCHANGED <<phase, price, claims, admitted, decided, received>>

Claim(o) ==
  /\ phase = "Open"
  /\ payable >= (Waiting + 1) * price
  /\ claims' = [i \in 0 .. admitted |->
                 IF i = admitted
                 THEN [owner |-> o, state |-> "Waiting"]
                 ELSE claims[i]]
  /\ admitted' = admitted + 1
  /\ UNCHANGED <<phase, price, decided, payable, received>>

\* A payment may be the last one an open escrow makes before it stops.
PayAndStop ==
  /\ phase = "Open"
  /\ phase' = "Closing"
  /\ payable' \in (Waiting - 1) * price .. payable - price

\* The head of the queue is decided, and no other claim changes.
DecideHead(state) ==
  /\ phase \in {"Open", "Closing"}
  /\ Waiting > 0
  /\ claims' = [claims EXCEPT ![decided] = [@ EXCEPT !.state = state]]
  /\ decided' = decided + 1
  /\ UNCHANGED <<price, admitted>>

Pay ==
  /\ DecideHead("Paid")
  /\ \/ phase' = phase /\ payable' = payable - price
     \/ PayAndStop
  /\ received' = [o \in Payees |->
                   IF o = claims[decided].owner
                   THEN received[o] + price
                   ELSE received[o]]

Refuse == DecideHead("Refused") /\ UNCHANGED <<phase, payable, received>>

Stop ==
  /\ phase = "Open"
  /\ phase' = "Closing"
  /\ payable' \in Waiting * price .. payable
  /\ UNCHANGED <<price, claims, admitted, decided, received>>

Settle ==
  /\ phase \in {"Open", "Closing"}
  /\ Waiting = 0
  /\ phase' = "Closed"
  /\ payable' = 0
  /\ UNCHANGED <<price, claims, admitted, decided, received>>

Next ==
  \/ Open
  \/ Deposit
  \/ \E o \in Claimants : Claim(o)
  \/ Pay
  \/ Refuse
  \/ Stop
  \/ Settle

Spec == Init /\ [][Next]_escrowVars
=============================================================================
