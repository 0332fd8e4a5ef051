----------------------------- MODULE CardInvoices -----------------------------
(***************************************************************************)
(* Invoices of a credit card and their payment (services/card_invoices.py, *)
(* services/card_invoice_posting.py).  There is no invoice table: an       *)
(* invoice is the cycle of dates that ends on a close date, and is derived *)
(* from the charges in the cycle and the transfers tagged with its close.  *)
(*                                                                         *)
(* A payment locks the card's row and derives the invoice under the lock.  *)
(* The nightly run loads the card first, lists what is due without a lock, *)
(* and pays each invoice like a user would, on the copy of the card it     *)
(* loaded.  A date is its number; months have the lengths of MonthLengths, *)
(* over and over.                                                          *)
(***************************************************************************)
EXTENDS Integers, Sequences, FiniteSets, FiniteSetsExt

CONSTANTS
  MonthLengths,    \* days of the months
  LastMonth,       \* bound: months of the calendar
  CardDays,        \* dates on which something happens
  ClosingDays,     \* closing_day the user chooses from
  DueDay,          \* due_day
  ChargeDates,     \* dates of charges
  PlannedDates,    \* those among them of occurrences to come
  PayDates,        \* dates a user gives a payment
  UserTags,        \* close dates a user gives a transfer, as any other column
  Payers,          \* requests that pay
  Nightly,         \* the nightly run
  AutoPayWindow,   \* AUTO_PAY_WINDOW_DAYS
  MaxCharges,      \* bound
  MaxPayments      \* bound

ASSUME CardAssumption ==
  /\ MonthLengths \in Seq(Nat \ {0}) /\ MonthLengths # <<>>
  /\ LastMonth \in Nat \ {0}
  /\ CardDays \subseteq Nat /\ CardDays # {} /\ PlannedDates \subseteq ChargeDates
  /\ ChargeDates \subseteq Nat /\ IsFiniteSet(ChargeDates) /\ PayDates \subseteq Nat
  /\ UserTags \subseteq Nat \ {0}
  /\ \A d \in CardDays \cup ChargeDates \cup PayDates : d > 0 /\ 2 * d + 5 <= LastMonth
  /\ ClosingDays \subseteq Nat \ {0} /\ DueDay \in Nat \ {0}
  /\ Nightly \notin Payers /\ "free" \notin Payers \cup {Nightly} /\ AutoPayWindow \in Nat
  /\ MaxCharges \in Nat /\ MaxPayments \in Nat

VARIABLES
  closingDay,      \* closing_day of the row of the card, which has auto_pay set
  charges,         \* date -> expenses of that date, less refunds
  planned,         \* dates with an occurrence of a recurring rule to come
  payments,        \* transfers to the card; kept: the tag is that of pay_invoice
  cardLock,        \* who holds the row of the card
  paying,          \* request or nightly run -> what it is at
  recut,           \* the change of the closing day in progress
  cardToday,
  adjusted,        \* history: did charges shrink, did the user transfer money
                   \* or raise or re-tag a payment, or date one outside of the
                   \* cycles that are read whenever its invoice is derived?
  redrawn,         \* history: was the closing day changed after a payment?
  slipped          \* history: did a payment and a change of the day overlap?

cardHistory == <<adjusted, redrawn, slipped>>
cardVars == <<closingDay, charges, planned, payments, cardLock, paying, recut,
              cardToday, cardHistory>>

--------------------------------------------------------------------------------
(* Cycles. *)

DaysIn(m) == MonthLengths[((m - 1) % Len(MonthLengths)) + 1]

DaysBefore[m \in 1 .. LastMonth] ==
  IF m = 1 THEN 0 ELSE DaysBefore[m - 1] + DaysIn(m - 1)

Months == [d \in 1 .. DaysBefore[LastMonth] |->
             CHOOSE m \in 1 .. LastMonth :
               DaysBefore[m] < d /\ d <= DaysBefore[m] + DaysIn(m)]

MonthOf(d) == Months[d]

(* _clamp_day *)
ClampDay(m, day) == DaysBefore[m] + Min({day, DaysIn(m)})

(* cycle_close_for *)
CycleCloseFor(charge, closing) ==
  LET this == ClampDay(MonthOf(charge), closing)
  IN  IF this >= charge THEN this ELSE ClampDay(MonthOf(charge) + 1, closing)

(* due_date_for *)
DueDateFor(close, due) ==
  LET same == ClampDay(MonthOf(close), due)
  IN  IF same > close THEN same ELSE ClampDay(MonthOf(close) + 1, due)

--------------------------------------------------------------------------------
(* list_invoices: the close dates around today, and what each invoice says. *)

Closes(closing, today, back, ahead) ==
  LET current == MonthOf(CycleCloseFor(today, closing))
  IN  {ClampDay(m, closing) : m \in Max({1, current - back}) .. current + ahead}

Owed(closing, close) ==
  SumFunctionOnSet(charges, {d \in ChargeDates : CycleCloseFor(d, closing) = close})

(* Occurrences after today count in the cycles that are not over. *)
Projected(closing, close, today) ==
  IF close < today THEN 0
  ELSE Cardinality({d \in planned : CycleCloseFor(d, closing) = close /\ d > today})

(* A transfer settles the invoice of its tag, or that of its date; those    *)
(* dated outside of the listed cycles are not read.                         *)
Target(p, closing) == IF p.tag # 0 THEN p.tag ELSE CycleCloseFor(p.date, closing)

Listed(date, closing, today, back, ahead) ==
  LET current == MonthOf(CycleCloseFor(today, closing)) IN
  /\ current - back > 1 => date > ClampDay(current - back - 1, closing)
  /\ date <= ClampDay(current + ahead, closing)

Total(ps) == SumFunction([p \in ps |-> p.amount])

Paid(closing, close, today, back, ahead) ==
  Total({p \in payments : /\ Target(p, closing) = close
                          /\ Listed(p.date, closing, today, back, ahead)})

Remaining(closing, close, today, back, ahead) ==
  Owed(closing, close) + Projected(closing, close, today)
    - Paid(closing, close, today, back, ahead)

(* pay_invoice: the invoice exists, has begun, and is not settled. *)
Span(close, today) ==
  Max({MonthOf(close) - MonthOf(today), MonthOf(today) - MonthOf(close)}) + 2

Payable(closing, close, today) ==
  LET span == Span(close, today)
  IN  {n \in 1 .. (MaxCharges + Cardinality(ChargeDates)) :
         /\ close \in Closes(closing, today, span, span)
         /\ MonthOf(close) <= MonthOf(CycleCloseFor(today, closing))
         /\ n <= Remaining(closing, close, today, span, span)}

--------------------------------------------------------------------------------
NotPaying == [at |-> "idle", copy |-> 0, today |-> 0, todo |-> {}, close |-> 0,
         amount |-> 0, date |-> 0]

NoRecut == [at |-> "idle", closing |-> 0]

CardInit ==
  /\ closingDay \in ClosingDays
  /\ charges = [d \in ChargeDates |-> 0]
  /\ planned \in SUBSET PlannedDates
  /\ payments = {}
  /\ cardLock = "free"
  /\ paying = [s \in Payers \cup {Nightly} |-> NotPaying]
  /\ recut = NoRecut
  /\ cardToday = Min(CardDays)
  /\ adjusted = FALSE
  /\ redrawn = FALSE
  /\ slipped = FALSE

UnusedIds == (1 .. MaxPayments + 1) \ {p.id : p \in payments}

Book(p) ==
  /\ UnusedIds # {}
  /\ payments' = payments \cup {[id |-> Min(UnusedIds), tag |-> p.tag,
                                 date |-> p.date, amount |-> p.amount,
                                 kept |-> p.kept]}

(* A payment of that date counts whenever its invoice is derived again. *)
StaysListed(date, close) ==
  \A t \in CardDays :
    t >= cardToday => Listed(date, closingDay, t, Span(close, t), Span(close, t))

(* pay_invoice by a user, up to the transfer: the row is locked, the        *)
(* invoice derived, the amount chosen.                                      *)
PayInvoice(s, close, amount, date) ==
  /\ paying[s].at = "idle"
  /\ cardLock = "free"
  /\ Cardinality(payments) < MaxPayments
  /\ amount \in Payable(closingDay, close, cardToday)
  /\ cardLock' = s
  /\ paying' = [paying EXCEPT ![s] = [NotPaying EXCEPT !.at = "post", !.close = close,
                                                  !.amount = amount, !.date = date]]
  /\ adjusted' = (adjusted \/ ~StaysListed(date, close))
  /\ UNCHANGED <<closingDay, charges, planned, payments, recut, cardToday,
                 redrawn, slipped>>

(* create_transaction commits the transfer. *)
PostPayment(s) ==
  LET r == paying[s] IN
  /\ r.at = "post"
  /\ Book([tag |-> r.close, date |-> r.date, amount |-> r.amount, kept |-> TRUE])
  /\ cardLock' = "free"
  /\ paying' = [paying EXCEPT ![s] = IF s # Nightly THEN NotPaying
       ELSE [r EXCEPT !.at = "next", !.close = 0, !.amount = 0, !.date = 0]]
  /\ slipped' = (slipped \/ recut.at = "commit" \/ (s = Nightly /\ r.copy # closingDay))
  /\ UNCHANGED <<closingDay, charges, planned, recut, cardToday, adjusted, redrawn>>

--------------------------------------------------------------------------------
(* The nightly run. *)

(* post_all_due_invoice_payments loads the card, post_due_invoice_payments  *)
(* lists what fell due in the last days.                                    *)
StartAutoPay ==
  LET c == closingDay
      due == {x \in Closes(c, cardToday, 2, 0) :
                /\ Remaining(c, x, cardToday, 2, 0) > 0
                /\ DueDateFor(x, DueDay) <= cardToday
                /\ DueDateFor(x, DueDay) >= cardToday - AutoPayWindow}
  IN
  /\ paying[Nightly].at = "idle"
  /\ due # {}
  /\ paying' = [paying EXCEPT ![Nightly] =
       [NotPaying EXCEPT !.at = "next", !.copy = c, !.today = cardToday, !.todo = due]]
  /\ UNCHANGED <<closingDay, charges, planned, payments, cardLock, recut, cardToday,
                 cardHistory>>

(* mutant: what was listed is paid, and not derived again *)
AutoPayStale ==
  LET r == paying[Nightly]
      close == Min(r.todo) IN
  /\ r.at = "next"
  /\ r.todo # {}
  /\ cardLock = "free"
  /\ Cardinality(payments) < MaxPayments
  /\ cardLock' = Nightly
  /\ paying' = [paying EXCEPT ![Nightly] =
       [r EXCEPT !.at = "post", !.todo = r.todo \ {close}, !.close = close,
                 !.amount = Max({1, Owed(r.copy, close)}), !.date = r.today]]
  /\ UNCHANGED <<closingDay, charges, planned, payments, recut, cardToday, cardHistory>>

(* The next of them is paid in full, on the loaded copy of the card; one    *)
(* that is settled meanwhile, or by a transfer the list did not read,       *)
(* raises and ends the card's turn.                                         *)
AutoPay ==
  LET r == paying[Nightly]
      close == Min(r.todo)
      amounts == Payable(r.copy, close, r.today) IN
  /\ r.at = "next"
  /\ r.todo # {}
  /\ cardLock = "free"
  /\ Cardinality(payments) < MaxPayments
  /\ IF amounts = {}
     THEN paying' = [paying EXCEPT ![Nightly] = NotPaying] /\ UNCHANGED cardLock
     ELSE /\ cardLock' = Nightly
          /\ paying' = [paying EXCEPT ![Nightly] =
               [r EXCEPT !.at = "post", !.todo = r.todo \ {close}, !.close = close,
                         !.amount = Max(amounts), !.date = r.today]]
  /\ UNCHANGED <<closingDay, charges, planned, payments, recut, cardToday, cardHistory>>

AutoPayEnds ==
  /\ paying[Nightly].at = "next"
  /\ paying[Nightly].todo = {}
  /\ paying' = [paying EXCEPT ![Nightly] = NotPaying]
  /\ UNCHANGED <<closingDay, charges, planned, payments, cardLock, recut, cardToday,
                 cardHistory>>

--------------------------------------------------------------------------------
(* What else the user does. *)

AddCharge(d) ==
  /\ SumFunction(charges) < MaxCharges
  /\ charges' = [charges EXCEPT ![d] = charges[d] + 1]
  /\ UNCHANGED <<closingDay, planned, payments, cardLock, paying, recut, cardToday,
                 cardHistory>>

(* A charge is deleted, or refunded. *)
DropCharge(d) ==
  /\ charges[d] > 0
  /\ charges' = [charges EXCEPT ![d] = charges[d] - 1]
  /\ adjusted' = TRUE
  /\ UNCHANGED <<closingDay, planned, payments, cardLock, paying, recut, cardToday,
                 redrawn, slipped>>

(* The recurring rule is deleted. *)
DropPlanned(d) ==
  /\ d \in planned
  /\ planned' = planned \ {d}
  /\ adjusted' = TRUE
  /\ UNCHANGED <<closingDay, charges, payments, cardLock, paying, recut, cardToday,
                 redrawn, slipped>>

(* The recurring rule posts what it had planned. *)
PostPlanned(d) ==
  /\ d \in planned
  /\ d <= cardToday
  /\ planned' = planned \ {d}
  /\ charges' = [charges EXCEPT ![d] = charges[d] + 1]
  /\ UNCHANGED <<closingDay, payments, cardLock, paying, recut, cardToday, cardHistory>>

(* A transfer to the card, made as any other transaction or moved over from *)
(* another account: a close date is a column like the others.               *)
Transfer(tag) ==
  /\ Cardinality(payments) < MaxPayments
  /\ Book([tag |-> tag, date |-> cardToday, amount |-> 1, kept |-> FALSE])
  /\ adjusted' = TRUE
  /\ UNCHANGED <<closingDay, charges, planned, cardLock, paying, recut, cardToday,
                 redrawn, slipped>>

(* A payment is edited as any other transaction, which takes no lock.       *)
EditPayment(p, tag, date, amount) ==
  /\ <<tag, date, amount>> # <<p.tag, p.date, p.amount>>
  /\ payments' = (payments \ {p}) \cup
       {[id |-> p.id, tag |-> tag, date |-> date, amount |-> amount,
         kept |-> p.kept /\ tag = p.tag]}
  /\ adjusted' = (adjusted \/ tag # p.tag \/ amount > p.amount \/ ~StaysListed(date, tag))
  /\ UNCHANGED <<closingDay, charges, planned, cardLock, paying, recut, cardToday,
                 redrawn, slipped>>

(* It is deleted, or moved to another account. *)
DeletePayment(p) ==
  /\ payments' = payments \ {p}
  /\ UNCHANGED <<closingDay, charges, planned, cardLock, paying, recut, cardToday,
                 cardHistory>>

(* mutant: a tag inside a cycle of the new day will do *)
StillClosesSameMonth(closing) ==
  \A p \in payments :
    p.tag # 0 => MonthOf(CycleCloseFor(p.tag, closing)) = MonthOf(p.tag)

(* _validate_closing_day_change *)
StillCloses(closing) ==
  \A p \in payments : p.tag # 0 => CycleCloseFor(p.tag, closing) = p.tag

(* update_account with another closing day: the tags are looked at first ... *)
ChangeClosingDay(closing) ==
  /\ recut.at = "idle"
  /\ closing # closingDay
  /\ StillCloses(closing)
  /\ recut' = [at |-> "commit", closing |-> closing]
  /\ UNCHANGED <<closingDay, charges, planned, payments, cardLock, paying, cardToday,
                 cardHistory>>

(* ... and the row is written when no payment holds it. *)
CommitClosingDay ==
  /\ recut.at = "commit"
  /\ cardLock = "free"
  /\ closingDay' = recut.closing
  /\ redrawn' = (redrawn \/ payments # {} \/ paying[Nightly].at # "idle")
  /\ recut' = NoRecut
  /\ UNCHANGED <<charges, planned, payments, cardLock, paying, cardToday, adjusted,
                 slipped>>

(* The nightly run is over, or killed, minutes after it began. *)
CardDayPasses ==
  /\ paying[Nightly].at = "idle"
  /\ \E d \in CardDays : d > cardToday
  /\ cardToday' = Min({d \in CardDays : d > cardToday})
  /\ UNCHANGED <<closingDay, charges, planned, payments, cardLock, paying, recut,
                 cardHistory>>

CardNext ==
  \/ \E s \in Payers, c \in Closes(closingDay, cardToday, 2, 1),
        a \in 1 .. MaxCharges, d \in PayDates \cup {cardToday} : PayInvoice(s, c, a, d)
  \/ \E s \in Payers \cup {Nightly} : PostPayment(s)
  \/ StartAutoPay
  \/ AutoPay
  \/ AutoPayEnds
  \/ \E d \in ChargeDates : \/ AddCharge(d)
                             \/ DropCharge(d)
                             \/ DropPlanned(d)
                             \/ PostPlanned(d)
  \/ \E t \in {0} \cup UserTags : Transfer(t)
  \/ \E p \in payments :
       \/ \E t \in {0, p.tag} \cup UserTags, d \in PayDates \cup {p.date},
             a \in 1 .. MaxCharges : EditPayment(p, t, d, a)
       \/ DeletePayment(p)
  \/ \E c \in ClosingDays : ChangeClosingDay(c)
  \/ CommitClosingDay
  \/ CardDayPasses

CardSpec == CardInit /\ [][CardNext]_cardVars

--------------------------------------------------------------------------------
(* Users, and the nightly run on its copy of the card, race for the same    *)
(* invoice: what is paid towards a cycle never exceeds what was charged, or *)
(* is planned, in it, unless the user took charges away, transferred money  *)
(* by hand, raised or re-tagged a payment or dated one out of sight, or     *)
(* moved the closing day under payments.                                    *)
InvoiceNotOverpaid ==
  ~adjusted /\ ~redrawn =>
    \A c \in {p.tag : p \in payments} :
      Total({p \in payments : p.tag = c})
        <= Owed(closingDay, c)
             + Cardinality({d \in planned : CycleCloseFor(d, closingDay) = c})

(* A payment counts only while its tag is the close of a cycle: however the *)
(* closing day is moved back and forth, the tag that pay_invoice gave a      *)
(* payment stays one as long as its user does not set another, unless the    *)
(* payment was on its way while the day was being changed.                   *)
TagsAreCloses ==
  ~slipped => \A p \in payments : p.kept => CycleCloseFor(p.tag, closingDay) = p.tag
================================================================================
