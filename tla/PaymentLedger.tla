---------------------------- MODULE PaymentLedger -----------------------------
(***************************************************************************)
(* What the service promises about payments, without its threads, queue,   *)
(* retries and connections: a payment that was submitted stays open until  *)
(* it is booked under a processor that really charged it, or is dropped    *)
(* because some processor charged it already.                              *)
(***************************************************************************)
CONSTANTS Payments, Processors

VARIABLES
  status,    \* per payment: new, open, booked or dropped
  charges,   \* per processor: the payments it accepted
  books      \* per processor: the payments the service recorded under it

ledger == <<status, charges, books>>

Init ==
  /\ status = [p \in Payments |-> "new"]
  /\ charges = [q \in Processors |-> {}]
  /\ books = [q \in Processors |-> {}]

Submit(p) ==
  /\ status[p] = "new"
  /\ status' = [status EXCEPT ![p] = "open"]
  /\ UNCHANGED <<charges, books>>

Charge(q, p) ==
  /\ status[p] = "open"
  /\ p \notin charges[q]
  /\ charges' = [charges EXCEPT ![q] = @ \cup {p}]
  /\ UNCHANGED <<status, books>>

Book(q, p) ==
  /\ status[p] = "open"
  /\ p \in charges[q]
  /\ status' = [status EXCEPT ![p] = "booked"]
  /\ books' = [books EXCEPT ![q] = @ \cup {p}]
  /\ UNCHANGED charges

Drop(p) ==
  /\ status[p] = "open"
  /\ \E q \in Processors : p \in charges[q]
  /\ status' = [status EXCEPT ![p] = "dropped"]
  /\ UNCHANGED <<charges, books>>

Next ==
  \E p \in Payments :
    \/ Submit(p)
    \/ Drop(p)
    \/ \E q \in Processors : Charge(q, p) \/ Book(q, p)

Spec == Init /\ [][Next]_ledger
==============================================================================
