----------------------------- MODULE MCInvoice -----------------------------
EXTENDS Invoice
CONSTANTS p1, v1
MCReservations == {[from |-> 1, to |-> 5], [from |-> 0, to |-> 6]}
MCRateCards == {{1, 4}}
\* A node-month is 5 or 7 micro-dollars of 2 a cent: its parts are not whole cents.
MCPrice(kind, date) == IF kind = "gpu" THEN 3 ELSE IF date = 4 THEN 7 ELSE 5
MCUnits == [u \in {p1, v1} |-> IF u = p1 THEN 2 ELSE 3]
MCDaysIn == <<1, 2>>
=============================================================================
