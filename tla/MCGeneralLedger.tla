-------------------------- MODULE MCGeneralLedger --------------------------
(* Instances of GeneralLedger for TLC. *)
EXTENDS GeneralLedger

Row(key, amount, memo, balance) ==
  [key |-> key, amount |-> amount, memo |-> memo, balance |-> balance]

\* Two postings of one identity; the same in the other order, with other balances; one
\* posting twice and another identity; more rows than there may be room for
Twins == <<Row(1, 3, 1, 10), Row(1, 5, 1, 20)>>
Swapped == <<Row(1, 5, 1, 10), Row(1, 3, 1, 20)>>
Doubled == <<Row(1, 3, 1, 10), Row(1, 3, 1, 20), Row(2, 7, 1, 30)>>
Wide == <<Row(1, 4, 1, 10), Row(1, 3, 2, 20), Row(1, 5, 1, 20), Row(2, 7, 1, 30)>>

\* What QBO has from export to export
History == <<Twins, Swapped, Doubled, Wide>>
HistoryReports == [n \in DOMAIN History |-> {History[n]}]

\* Nothing, or a month that was stored in two blocks around another
AnyStored ==
  LET Old(month) == [run |-> 0, month |-> month]
  IN {<<>>, <<Old(1), Old(Months), Old(1)>>}
AllHazards == {"crash", "error"}
=============================================================================
