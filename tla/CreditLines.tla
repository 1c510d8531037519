----------------------------- MODULE CreditLines -----------------------------
(***************************************************************************)
(* What the whitelist promises, without the counter it keeps: the debts of *)
(* a borrower, market by market, grow only while the borrower is admitted  *)
(* and only while all of them together fit the capacity, and a borrower is *)
(* struck off only when nothing is owed anywhere.                          *)
(***************************************************************************)
EXTENDS Totals

CONSTANTS Borrowers, Nonces

VARIABLES status, capacity, debt   \* per borrower, per borrower, per market

line == <<status, capacity, debt>>

\* The debts of b, per market.
DebtsOf(b) == [nonce \in Nonces |-> debt[<<b, nonce>>]]

Owes(b) == \E nonce \in Nonces : debt[<<b, nonce>>] > 0

Opened ==
    /\ status \in [Borrowers -> Nat] /\ capacity \in [Borrowers -> Nat]
    /\ debt = [k \in Borrowers \X Nonces |-> 0]

\* Only the debt of b in the market of this nonce changes.
OnlyIn(b, nonce) ==
    /\ debt' = [debt EXCEPT ![<<b, nonce>>] = debt'[<<b, nonce>>]]
    /\ UNCHANGED <<status, capacity>>

Draw(b, nonce) ==
    /\ status[b] = 1
    /\ debt'[<<b, nonce>>] \in Nat /\ debt'[<<b, nonce>>] > debt[<<b, nonce>>]
    /\ OnlyIn(b, nonce)
    /\ Total(DebtsOf(b)') <= capacity[b]

PayBack(b, nonce) ==
    /\ debt'[<<b, nonce>>] \in 0 .. (debt[<<b, nonce>>] - 1)
    /\ OnlyIn(b, nonce)

\* Any status byte and any capacity, but 0 strikes off nobody in debt.
Review(b) ==
    /\ status'[b] \in Nat /\ capacity'[b] \in Nat
    /\ status'[b] = 1 => capacity'[b] > 0
    /\ status'[b] = 0 => ~Owes(b)
    /\ status' = [status EXCEPT ![b] = status'[b]]
    /\ capacity' = [capacity EXCEPT ![b] = capacity'[b]]
    /\ UNCHANGED debt

Next ==
    \E b \in Borrowers :
        Review(b) \/ \E nonce \in Nonces : Draw(b, nonce) \/ PayBack(b, nonce)

Lines == Opened /\ [][Next]_line
=============================================================================
