------------------------- MODULE OrderAccountsProofs -------------------------
(***************************************************************************)
(* The accounts of each order of a backtest, and the theorems that follow  *)
(* from them.  The order manager, the client's book, the channel, and the  *)
(* ledger each hold a part of what happened to an order: what it traded    *)
(* and has still to trade, the reports on their way, the trades to book,   *)
(* the messages to tell.  Account says how the parts fit together; the     *)
(* lemmas follow it through every operation, and AccountsInv through every *)
(* step.  What the strategy must not submit is a hypothesis of a theorem.  *)
(***************************************************************************)
EXTENDS BacktestPipelineProofs

-----------------------------------------------------------------------------
(***************************************************************************)
(* What the strategy does and does not submit.  These are the hypotheses   *)
(* of the theorems.                                                        *)
(***************************************************************************)

NoDayOrders == \A m \in Moves : \A k \in DOMAIN m.orders : m.orders[k].tif # "Day"
NoNextBarDay ==
    \A m \in Moves : \A k \in DOMAIN m.orders :
        m.orders[k].tif = "Day" => m.orders[k].offset = 0
NoDayBrackets == \A m \in Moves : m.exits # {} => m.orders[1].tif # "Day"
Unpaired == \A m \in Moves : ~m.oco /\ m.exits # Exits
NoBrackets == \A m \in Moves : m.exits = {}
ExitsReduce == \A m \in Moves : m.exits # {} => m.orders[1].effect # "Open"
NoTimers == Timers = {}
NeverVanishes == "vanish" \notin Verdicts
AlwaysAffordable == "unaffordable" \notin Verdicts

-----------------------------------------------------------------------------
(***************************************************************************)
(* The accounts of one order.                                              *)
(***************************************************************************)

\* What the order manager shows of the order.
Shown(s, i) == Snapshot(s.om, i)

\* What was traded of it, booked or about to be.
Traded(s, i) == s.ledger.unbooked[i] + s.ledger.booked[i]

\* It was archived at most once, and is not both active and archived; its fills
\* are within its quantity while it works.
Kept(s, i) ==
    /\ Len(s.om.history[i]) <= 1
    /\ s.om.status[i] # Absent => s.om.history[i] = <<>>
    /\ s.om.status[i] \in {Absent, "New"} => s.om.filled[i] = 0
    /\ s.om.status[i] # "Submitted"
    /\ s.om.status[i] \in Live => s.om.filled[i] < s.ord[i].qty
    /\ s.ord[i] \in Order /\ s.ord[i].tif = "Day" =>
          ~NoDayOrders /\ (NoNextBarDay => s.ord[i].offset = 0)

\* Its trades are those it shows.
Balanced(s, i) ==
    \/ Shown(s, i).status = "Rejected" /\ ~AlwaysAffordable
    \/ /\ Traded(s, i) <= Shown(s, i).filled
       /\ s.ord[i] \in Order /\ ~s.ord[i].resize => Traded(s, i) = Shown(s, i).filled

\* Its rejection was noted once, and no other.
Noted(s, i) ==
    s.ledger.rejected[i] + s.ledger.rejectsTold[i]
        = IF Shown(s, i).status = "Rejected" THEN 1 ELSE 0

\* The report r continues what the order manager holds of its order.
Continues(s, r) ==
    LET i == r.id IN
    /\ s.om.history[i] = <<>>
    /\ s.om.status[i] \in Live \cup {Absent, "Cancelled"}
    /\ s.om.status[i] = Absent => r.status = "Rejected"
    /\ Unpaired /\ s.om.status[i] = "Cancelled" => r.status = "Cancelled"
    /\ r.status \in Finished \cup {"PartiallyFilled"}
    /\ r.status = "Filled" => r.filled = s.ord[i].qty
    /\ r.status = "PartiallyFilled" => r.filled < s.ord[i].qty /\ r.trade > 0
    /\ r.status \in {"Filled", "PartiallyFilled"} =>
          /\ s.om.filled[i] + r.trade <= r.filled
          /\ ~s.ord[i].resize => s.om.filled[i] + r.trade = r.filled
    /\ r.status \in {"Cancelled", "Expired"} => r.trade = 0 /\ r.filled = s.om.filled[i]
    /\ r.status = "Rejected" => /\ r.trade = 0 /\ r.filled = 0
                                /\ AlwaysAffordable => s.om.filled[i] = 0
    /\ i \in Active(s.book) => s.book.filled[i] = r.filled

\* Its requests on their way, and its reports.
Asked(s, pending, i) ==
    i \in ToSet(pending) \/ \E m \in ToSet(s.channel) : m.id = i /\ m.kind # "Report"
ReportsOf(s, reports, i) ==
    {m \in ToSet(s.channel) \cup reports : m.id = i /\ m.kind = "Report"}

\* All of it, when asked says whether a request of it and R which reports of it
\* are on their way.
Account(s, i, asked, R) ==
    /\ Kept(s, i)
    /\ NoDayOrders \/ AlwaysAffordable => Balanced(s, i)
    /\ NoDayOrders => Noted(s, i)
    /\ s.ledger.untold[i] + s.ledger.told[i] = s.ledger.booked[i]
    /\ asked \/ s.ord[i] \notin Order => s.om.history[i] = <<>>
    /\ \A r \in R : Continues(s, r)
    /\ i \in Active(s.book) =>
          s.om.status[i] \in Live /\ (R = {} => s.book.filled[i] = s.om.filled[i])
    /\ s.ord[i] \in Order =>
          asked \/ R # {} \/ s.om.status[i] # Absent \/ s.om.history[i] # <<>>
    /\ Unpaired /\ NeverVanishes /\ s.om.status[i] \in Live =>
          i \in Active(s.book) \/ \E r \in R : r.status \in Finished

\* Which moves bind what.
Plain(s) ==
    /\ Unpaired =>
          /\ s.suppressed = {}
          /\ \A i \in OrderIds : s.om.oco.groupOf[i] = NoGroup /\ s.om.plans[i] # Exits
    /\ NoBrackets => \A i \in OrderIds : s.om.plans[i] = {}

Even(s, pending, reports) ==
    /\ \A i \in OrderIds : Account(s, i, Asked(s, pending, i), ReportsOf(s, reports, i))
    /\ Plain(s)

-----------------------------------------------------------------------------

\* The order is the same in s and t, but for the place of its trades and messages.
Alike(s, t, i) ==
    /\ t.om.status[i] = s.om.status[i] /\ t.om.filled[i] = s.om.filled[i]
    /\ t.om.history[i] = s.om.history[i]
    /\ t.ord[i] = s.ord[i]
    /\ Traded(t, i) = Traded(s, i)
    /\ t.ledger.rejected[i] + t.ledger.rejectsTold[i]
         = s.ledger.rejected[i] + s.ledger.rejectsTold[i]
    /\ t.ledger.untold[i] + t.ledger.told[i] = t.ledger.booked[i]
    /\ i \in Active(t.book) <=> i \in Active(s.book)
    /\ i \in Active(s.book) => t.book.filled[i] = s.book.filled[i]

LEMMA AlikeAccount ==
    ASSUME NEW s \in StateType, NEW t \in StateType, NEW i \in OrderIds, Alike(s, t, i),
           NEW asked, NEW R, \A r \in R : r.id = i, Account(s, i, asked, R)
    PROVE  Account(t, i, asked, R)
<1>1. Shown(t, i) = Shown(s, i)
  BY DEF Shown, Snapshot, Alike
<1>2. Kept(t, i)
  BY DEF Alike, Account, Kept
<1>3. Balanced(s, i) => Balanced(t, i)
  BY <1>1 DEF Balanced, Alike
<1>4. Noted(s, i) => Noted(t, i)
  BY <1>1 DEF Noted, Alike
<1>5. \A r \in R : Continues(t, r)
  BY DEF Account, Alike, Continues
<1> QED BY <1>2, <1>3, <1>4, <1>5 DEF Account, Alike

-----------------------------------------------------------------------------
(***************************************************************************)
(* One report.                                                             *)
(***************************************************************************)

LEMMA Amounts ==
    ASSUME NEW s \in StateType, NEW i \in OrderIds
    PROVE  /\ s.om.filled[i] \in Nat /\ s.om.status[i] \in Status \cup {Absent}
           /\ s.om.history[i] \in Seq(Row) /\ Len(s.om.history[i]) \in Nat
           /\ s.om.history[i] = <<>> => Len(s.om.history[i]) = 0
           /\ s.book.filled[i] \in Nat
           /\ s.ledger.unbooked[i] \in Nat /\ s.ledger.booked[i] \in Nat
           /\ s.ledger.untold[i] \in Nat /\ s.ledger.told[i] \in Nat
           /\ s.ledger.rejected[i] \in Nat /\ s.ledger.rejectsTold[i] \in Nat
           /\ Traded(s, i) \in Nat
           /\ Shown(s, i).filled \in Nat
           /\ s.om.history[i] = <<>> => /\ Shown(s, i).status = s.om.status[i]
                                        /\ Shown(s, i).filled = s.om.filled[i]
<1>1. s.om \in RegistryType /\ s.book \in BookType /\ s.ledger \in LedgerType
  BY DEF StateType
<1>2. /\ s.om.filled[i] \in Nat /\ s.om.status[i] \in Status \cup {Absent}
      /\ s.om.history[i] \in Seq(Row) /\ s.book.filled[i] \in Nat
  BY <1>1 DEF RegistryType, BookType
<1>3. /\ s.ledger.unbooked[i] \in Nat /\ s.ledger.booked[i] \in Nat
      /\ s.ledger.untold[i] \in Nat /\ s.ledger.told[i] \in Nat
      /\ s.ledger.rejected[i] \in Nat /\ s.ledger.rejectsTold[i] \in Nat
  BY <1>1 DEF LedgerType, Counts
<1>4. /\ Snapshot(s.om, i).filled \in Nat
      /\ s.om.history[i] = <<>> => /\ Snapshot(s.om, i).status = s.om.status[i]
                                   /\ Snapshot(s.om, i).filled = s.om.filled[i]
  BY <1>1, SnapshotTyped
<1>5. \A q \in Seq(Row) : Len(q) \in Nat /\ (q = <<>> => Len(q) = 0)
  OBVIOUS
<1>6. Len(s.om.history[i]) \in Nat /\ (s.om.history[i] = <<>> => Len(s.om.history[i]) = 0)
  BY <1>2, <1>5
<1>7. Traded(s, i) \in Nat
  BY <1>3 DEF Traded
<1>8. /\ Shown(s, i).filled \in Nat
      /\ s.om.history[i] = <<>> => /\ Shown(s, i).status = s.om.status[i]
                                   /\ Shown(s, i).filled = s.om.filled[i]
  BY <1>4 DEF Shown
<1> QED BY <1>2, <1>3, <1>6, <1>7, <1>8

\* The order of the report.
LEMMA ReportedAccount ==
    ASSUME NEW s \in StateType, NEW t \in StateType, NEW r \in ReportType,
           NEW k, NEW P, Applied(s, r, t, k, P), Plain(s), NEW i, i = r.id, i \notin P,
           t.ord[i] = s.ord[i], s.ord[i] \in Order, NEW asked,
           Active(t.book) = Active(s.book) \ P, t.book.filled = s.book.filled,
           r.status \in Finished => i \notin Active(s.book), Account(s, i, asked, {r})
    PROVE  Account(t, i, asked, {})
<1>1. /\ i \in OrderIds /\ r.filled \in Nat /\ r.trade \in Nat /\ r.status \in Status
  BY DEF ReportType
<1>2. Continues(s, r)
  BY DEF Account
<1>3. s.om.history[i] = <<>> /\ t.om.history[i] = <<>>
  BY <1>1, <1>2 DEF Continues, Applied
<1>4. ~Ignored(s, r)
  BY <1>2, StatusFacts DEF Ignored, Continues
<1>5. i \in Active(t.book) <=> i \in Active(s.book)
  BY <1>1
<1>6. Unpaired => s.suppressed = {}
  BY DEF Plain
<1>7. CASE Dropped(s, r)
  <2>1. /\ t.om.status[i] = s.om.status[i] /\ t.om.filled[i] = s.om.filled[i]
        /\ \A j \in OrderIds : t.ledger.unbooked[j] = s.ledger.unbooked[j]
                               /\ t.ledger.rejected[j] = s.ledger.rejected[j]
    BY <1>1, <1>7 DEF Applied
  <2>2. Alike(s, t, i)
    <3>1. Traded(t, i) = Traded(s, i)
      BY <1>1, <2>1 DEF Traded, Applied
    <3>2. t.ledger.untold[i] + t.ledger.told[i] = t.ledger.booked[i]
      BY DEF Account, Applied
    <3>3. t.ledger.rejected[i] + t.ledger.rejectsTold[i]
            = s.ledger.rejected[i] + s.ledger.rejectsTold[i]
      BY <1>1, <2>1 DEF Applied
    <3> QED BY <1>3, <1>5, <2>1, <3>1, <3>2, <3>3 DEF Alike
  <2>3. Account(t, i, asked, {r})
    BY <1>1, <2>2, AlikeAccount
  <2>4. r.status = "Filled" /\ ~Unpaired /\ i \notin Active(t.book)
    BY <1>5, <1>6, <1>7, StatusFacts DEF Dropped
  <2>5. s.om.status[i] # Absent /\ t.om.status[i] # Absent
    BY <1>2, <2>1, <2>4 DEF Continues
  <2> QED BY <2>3, <2>4, <2>5 DEF Account
<1>8. CASE ~Dropped(s, r)
  <2>1. t.om.status[i] = r.status /\ t.om.filled[i] = r.filled
    BY <1>4, <1>8 DEF Applied
  <2>2. /\ t.ledger.unbooked[i] = s.ledger.unbooked[i] + r.trade
        /\ t.ledger.rejected[i] = IF r.status = "Rejected" THEN s.ledger.rejected[i] + 1
                                  ELSE s.ledger.rejected[i]
        /\ t.ledger.booked[i] = s.ledger.booked[i] /\ t.ledger.untold[i] = s.ledger.untold[i]
        /\ t.ledger.told[i] = s.ledger.told[i]
        /\ t.ledger.rejectsTold[i] = s.ledger.rejectsTold[i]
    <3>1. Snapshot(t.om, i).status = r.status
      BY <1>1, <1>3, <2>1, Amounts DEF Shown
    <3> QED BY <1>1, <1>8, <3>1 DEF Applied
  <2>3. /\ s.ledger.unbooked[i] \in Nat /\ s.ledger.booked[i] \in Nat /\ s.om.filled[i] \in Nat
        /\ s.ledger.rejected[i] \in Nat /\ s.ledger.rejectsTold[i] \in Nat
        /\ Shown(s, i).status = s.om.status[i] /\ Shown(s, i).filled = s.om.filled[i]
        /\ Shown(t, i).status = r.status /\ Shown(t, i).filled = r.filled
    BY <1>1, <1>3, <2>1, Amounts
  <2>4. Kept(t, i)
    BY <1>2, <1>3, <2>1, Amounts, <1>1, StatusFacts DEF Kept, Continues, Account, Finished, Live, Absent
  <2>5. s.om.status[i] # "Rejected"
    BY <1>2 DEF Continues, Live, Absent
  <2>6. Balanced(s, i) => Balanced(t, i)
    <3> HAVE Balanced(s, i)
    <3>1. /\ Traded(s, i) <= s.om.filled[i]
          /\ ~s.ord[i].resize => Traded(s, i) = s.om.filled[i]
      BY <2>3, <2>5 DEF Balanced
    <3>2. Traded(t, i) = Traded(s, i) + r.trade /\ Traded(s, i) \in Nat
      BY <2>2, <2>3, <1>1 DEF Traded
    <3>3. CASE r.status = "Rejected" /\ ~AlwaysAffordable
      BY <2>3, <3>3 DEF Balanced
    <3>4. CASE r.status = "Rejected" /\ AlwaysAffordable
      <4>1. r.trade = 0 /\ r.filled = 0 /\ s.om.filled[i] = 0
        BY <1>2, <3>4 DEF Continues
      <4> QED BY <4>1, <3>1, <3>2, <2>3 DEF Balanced
    <3>5. CASE r.status # "Rejected"
      <4>1. /\ s.om.filled[i] + r.trade <= r.filled
            /\ ~s.ord[i].resize => s.om.filled[i] + r.trade = r.filled
        BY <1>1, <1>2, <2>3, <3>5 DEF Continues, Finished
      <4>2. /\ Traded(t, i) <= r.filled
            /\ ~s.ord[i].resize => Traded(t, i) = r.filled
        BY <1>1, <2>3, <3>1, <3>2, <4>1
      <4> QED BY <4>2, <2>3 DEF Balanced
    <3> QED BY <3>3, <3>4, <3>5
  <2>7. Noted(s, i) => Noted(t, i)
    BY <2>2, <2>3, <2>5 DEF Noted
  <2>8. i \in Active(t.book) => t.om.status[i] \in Live /\ t.book.filled[i] = t.om.filled[i]
    BY <1>2, <1>5, <2>1, StatusFacts DEF Continues
  <2>9. Unpaired /\ NeverVanishes /\ t.om.status[i] \in Live => i \in Active(t.book)
    <3> HAVE Unpaired /\ NeverVanishes /\ t.om.status[i] \in Live
    <3>1. r.status \notin Finished
      BY <2>1, StatusFacts
    <3>2. s.om.status[i] \in Live
      BY <1>2, <3>1 DEF Continues, Finished
    <3> QED BY <3>1, <3>2, <1>5 DEF Account
  <2>10. t.om.status[i] # Absent
    BY <1>1, <2>1, StatusFacts
  <2>11. t.ledger.untold[i] + t.ledger.told[i] = t.ledger.booked[i]
    BY <2>2 DEF Account
  <2>12. NoDayOrders \/ AlwaysAffordable => Balanced(t, i)
    BY <2>6 DEF Account
  <2>13. NoDayOrders => Noted(t, i)
    BY <2>7 DEF Account
  <2> QED BY <1>3, <2>4, <2>8, <2>9, <2>10, <2>11, <2>12, <2>13 DEF Account
<1> QED BY <1>7, <1>8

\* An order that its peer's fill cancels.
LEMMA CancelledAccount ==
    ASSUME NEW s \in StateType, NEW t \in StateType, NEW i \in OrderIds, ~Unpaired,
           t.om.status[i] = IF s.om.status[i] \in Live THEN "Cancelled" ELSE s.om.status[i],
           t.om.filled[i] = s.om.filled[i], t.om.history[i] = s.om.history[i],
           t.ord[i] = s.ord[i], t.ledger.unbooked[i] = s.ledger.unbooked[i],
           t.ledger.booked[i] = s.ledger.booked[i], t.ledger.untold[i] = s.ledger.untold[i],
           t.ledger.told[i] = s.ledger.told[i], t.ledger.rejected[i] = s.ledger.rejected[i],
           t.ledger.rejectsTold[i] = s.ledger.rejectsTold[i],
           i \notin Active(t.book), NEW asked, NEW R, \A r \in R : r.id = i,
           Account(s, i, asked, R)
    PROVE  Account(t, i, asked, R)
<1>1. /\ Shown(t, i).filled = Shown(s, i).filled
      /\ Shown(t, i).status = "Rejected" <=> Shown(s, i).status = "Rejected"
  BY StatusFacts DEF Shown, Snapshot, Live
<1>2. Kept(t, i)
  BY StatusFacts DEF Kept, Account, Absent, Finished, Live
<1>3. (Balanced(s, i) => Balanced(t, i)) /\ (Noted(s, i) => Noted(t, i))
  BY <1>1 DEF Balanced, Noted, Traded
<1>4. \A r \in R : Continues(t, r)
  <2> TAKE r \in R
  <2>1. Continues(s, r) /\ r.id = i
    BY DEF Account
  <2>2. t.om.status[i] \in Live \cup {Absent, "Cancelled"}
    BY <2>1 DEF Continues
  <2>3. t.om.status[i] = Absent => s.om.status[i] = Absent
    BY DEF Absent
  <2> QED BY <2>1, <2>2, <2>3 DEF Continues
<1>5. s.om.status[i] # Absent => t.om.status[i] # Absent
  BY DEF Absent
<1> QED BY <1>2, <1>3, <1>4, <1>5 DEF Account

\* An order that the report brings.
LEMMA NewAccount ==
    ASSUME NEW s \in StateType, NEW t \in StateType, NEW i \in OrderIds, s.ord[i] \notin Order,
           t.ord[i] \in Order, t.ord[i].tif = "Day" =>
              ~NoDayOrders /\ (NoNextBarDay => t.ord[i].offset = 0),
           s.om.status[i] = Absent,
           t.om.status[i] = s.om.status[i],
           t.om.filled[i] = s.om.filled[i], t.om.history[i] = s.om.history[i],
           Traded(t, i) = Traded(s, i),
           t.ledger.untold[i] + t.ledger.told[i] = t.ledger.booked[i],
           t.ledger.rejected[i] + t.ledger.rejectsTold[i]
             = s.ledger.rejected[i] + s.ledger.rejectsTold[i],
           i \notin Active(t.book), NEW asked, NEW R, Account(s, i, asked, R)
    PROVE  Account(t, i, TRUE, {})
<1>1. s.om.history[i] = <<>> /\ s.om.filled[i] = 0
  BY DEF Account, Kept
<1>2. /\ Shown(s, i).status = Absent /\ Shown(s, i).filled = 0
      /\ Shown(t, i).status = Absent /\ Shown(t, i).filled = 0
  BY <1>1, Amounts
<1>3. Kept(t, i)
  BY <1>1, Amounts, StatusFacts DEF Kept, Live, Absent
<1>4. Balanced(s, i) => Balanced(t, i)
  <2> HAVE Balanced(s, i)
  <2>1. Traded(s, i) <= 0 /\ Traded(s, i) \in Nat /\ Traded(t, i) = Traded(s, i)
    BY <1>2, Amounts DEF Balanced, Absent
  <2>2. Traded(t, i) = 0
    BY <2>1
  <2> QED BY <1>2, <2>2 DEF Balanced
<1>5. Noted(s, i) => Noted(t, i)
  BY <1>2 DEF Noted
<1>6. t.om.status[i] \notin Live
  BY StatusFacts DEF Live, Absent
<1> QED BY <1>1, <1>3, <1>4, <1>5, <1>6 DEF Account

LEMMA ToSetConcat ==
    ASSUME NEW T, NEW c \in Seq(T), NEW d \in Seq(T)
    PROVE  ToSet(c \o d) = ToSet(c) \cup ToSet(d)
<1>1. /\ DOMAIN (c \o d) = 1 .. Len(c) + Len(d) /\ DOMAIN c = 1 .. Len(c) /\ DOMAIN d = 1 .. Len(d)
      /\ Len(c) \in Nat /\ Len(d) \in Nat
      /\ \A x \in 1 .. Len(c) + Len(d) : (c \o d)[x] = IF x <= Len(c) THEN c[x] ELSE d[x - Len(c)]
  OBVIOUS
<1>2. \A x \in 1 .. Len(c) : x \in 1 .. Len(c) + Len(d) /\ (c \o d)[x] = c[x]
  BY <1>1
<1>3. \A x \in 1 .. Len(d) : Len(c) + x \in 1 .. Len(c) + Len(d) /\ (c \o d)[Len(c) + x] = d[x]
  BY <1>1
<1>4. ToSet(c \o d) \subseteq ToSet(c) \cup ToSet(d)
  <2> SUFFICES ASSUME NEW x \in 1 .. Len(c) + Len(d)
               PROVE  (c \o d)[x] \in ToSet(c) \cup ToSet(d)
    BY <1>1 DEF ToSet
  <2>1. CASE x <= Len(c)
    BY <1>1, <2>1 DEF ToSet
  <2>2. CASE ~ (x <= Len(c))
    <3>1. x - Len(c) \in 1 .. Len(d)
      BY <1>1, <2>2
    <3> QED BY <1>1, <2>2, <3>1 DEF ToSet
  <2> QED BY <2>1, <2>2
<1>5. ToSet(c) \subseteq ToSet(c \o d) /\ ToSet(d) \subseteq ToSet(c \o d)
  <2> DEFINE e == c \o d
  <2>1. /\ \A x \in DOMAIN c : x \in DOMAIN e /\ e[x] = c[x]
        /\ \A x \in DOMAIN d : \E y \in DOMAIN e : e[y] = d[x]
    BY <1>1, <1>2, <1>3
  <2> HIDE DEF e
  <2>2. ToSet(c) \subseteq ToSet(e) /\ ToSet(d) \subseteq ToSet(e)
    BY <2>1 DEF ToSet
  <2> QED BY <2>2 DEF e
<1> QED BY <1>4, <1>5

\* Messages and reports of orders.
LEMMA MessageFacts ==
    ASSUME NEW s, NEW pending, NEW reports, Good(s, pending, reports), NEW i \in OrderIds
    PROVE  /\ \A r \in ReportsOf(s, reports, i) :
                 /\ r \in ReportType /\ r.id = i /\ MessageSound(s, r) /\ s.ord[i] \in Order
                 /\ ReportsOf(s, reports, i) = {r} /\ ~Asked(s, pending, i)
           /\ Asked(s, pending, i) => /\ ReportsOf(s, reports, i) = {} /\ s.ord[i] \in Order
                                      /\ s.om.status[i] = Absent /\ i \notin Active(s.book)
           /\ \A r \in reports : r.id = i => r \in ReportsOf(s, reports, i)
<1>1. \A m \in ToSet(s.channel) : m \in MessageType /\ m.id \in OrderIds
  BY MessageIds
<1>2. \A r \in reports : r \in ReportType /\ r.id \in OrderIds /\ r.kind = "Report"
  BY MessageIds DEF ReportType
<1>3. \A m \in ToSet(s.channel) \cup reports : MessageSound(s, m)
  BY DEF Good
<1>4. \A m, d \in ToSet(s.channel) : m.id = d.id => m = d
  BY DEF Good, InOnePlace, ToSet
<1>5. /\ \A m \in ToSet(s.channel) : m.id \notin ToSet(pending) /\ \A r \in reports : m.id # r.id
      /\ \A r, q \in reports : r.id \notin ToSet(pending) /\ (r.id = q.id => r = q)
  BY DEF Good, InOnePlace
<1>6. \A m \in MessageType : m.kind = "Report" => m \in ReportType
  BY DEF MessageType, ReportType
<1>7. \A j \in Active(s.book) : j \in ToSet(s.book.queue)
  BY DEF Good, BookSound
<1>8. ASSUME NEW r \in ReportsOf(s, reports, i)
      PROVE  /\ r \in ReportType /\ r.id = i /\ MessageSound(s, r) /\ s.ord[i] \in Order
             /\ ReportsOf(s, reports, i) = {r} /\ ~Asked(s, pending, i)
  <2>1. r \in ToSet(s.channel) \cup reports /\ r.id = i /\ r.kind = "Report"
    BY DEF ReportsOf
  <2>2. \A q \in ReportsOf(s, reports, i) : q = r
    BY <1>4, <1>5, <2>1 DEF ReportsOf
  <2>3. ~Asked(s, pending, i)
    BY <1>4, <1>5, <2>1 DEF Asked
  <2> QED BY <1>1, <1>2, <1>3, <1>6, <2>1, <2>2, <2>3 DEF MessageSound
<1>9. ASSUME Asked(s, pending, i)
      PROVE  /\ ReportsOf(s, reports, i) = {} /\ s.ord[i] \in Order
             /\ s.om.status[i] = Absent /\ i \notin Active(s.book)
  <2>1. ReportsOf(s, reports, i) = {}
    BY <1>8, <1>9
  <2>2. s.ord[i] \in Order /\ s.om.status[i] = Absent /\ i \notin ToSet(s.book.queue)
    BY <1>3, <1>9 DEF Asked, Good, RequestSound, MessageSound
  <2> QED BY <1>7, <2>1, <2>2
<1>10. \A r \in reports : r.id = i => r \in ReportsOf(s, reports, i)
  BY <1>2 DEF ReportsOf
<1> QED BY <1>8, <1>9, <1>10

LEMMA PlainLoosened ==
    ASSUME NEW s \in StateType, NEW t \in StateType, Plain(s),
           Unpaired => t.suppressed = {} /\ \A i \in OrderIds : t.om.oco.groupOf[i] = NoGroup,
           \A i \in OrderIds : t.om.plans[i] \subseteq s.om.plans[i]
    PROVE  Plain(t)
<1>1. \A i \in OrderIds : s.om.plans[i] \subseteq Exits
  BY DEF StateType, RegistryType
<1>2. \A i \in OrderIds : s.om.plans[i] # Exits => t.om.plans[i] # Exits
  BY <1>1
<1> QED BY <1>2 DEF Plain

\* A report is applied.
LEMMA ReportEven ==
    ASSUME NEW s, NEW pending, NEW reports, Good(s, pending, reports),
           Even(s, pending, reports), NEW r \in reports, NEW t, t = ApplyReport(s, r)
    PROVE  Even(t, pending, reports \ {r})
<1>1. /\ s \in StateType /\ r \in ReportType /\ s.ord[r.id] \in Order /\ Drawn(s) \in Nat
      /\ Drawn(s) + Cardinality(Planned(s.om)) <= Cardinality(OrderIds)
      /\ Used(s.ord) = 1 .. Drawn(s) /\ r.id \in OrderIds /\ r.kind = "Report"
  BY UsedFacts, MessageIds DEF Good, MessageSound, ReportType
<1>2. \E k \in Nat, P \in SUBSET OrderIds : Applied(s, r, t, k, P)
  BY ReportKeeps
<1>3. PICK k \in Nat, P \in SUBSET OrderIds : Applied(s, r, t, k, P)
  BY <1>2
<1> DEFINE n == Drawn(s)
           new == Requests(n, k)
<1>4. t \in StateType /\ Extended(s, t, k) /\ t.channel = s.channel \o new
  BY <1>3 DEF Applied, Extended
<1>5. /\ \A i \in OrderIds : s.ord[i] \in Order => t.ord[i] = s.ord[i]
      /\ \A j \in n + 1 .. n + k : j \in OrderIds /\ s.ord[j] \notin Order /\ t.ord[j] \in Order
      /\ \A j \in OrderIds \ (n + 1 .. n + k) : t.ord[j] = s.ord[j]
  <2>1. /\ \A i \in OrderIds : s.ord[i] \in Order => t.ord[i] = s.ord[i]
        /\ \A j \in n + 1 .. n + k : j \in OrderIds /\ s.ord[j] \notin Order /\ t.ord[j] \in Order
    BY <1>1, <1>4, ExtendedProperties
  <2>2. \A j \in OrderIds \ (n + 1 .. n + k) : t.ord[j] = s.ord[j]
    BY <1>4 DEF Extended
  <2> QED BY <2>1, <2>2
<1> HIDE DEF n
<1>6. ToSet(t.channel) = ToSet(s.channel) \cup {[kind |-> "Request", id |-> j] : j \in n + 1 .. n + k}
  <2>1. new \in Seq(MessageType) /\ ToSet(new) = {[kind |-> "Request", id |-> j] : j \in n + 1 .. n + k}
    <3>1. \A j \in n + 1 .. n + k : [kind |-> "Request", id |-> j] \in MessageType
      BY <1>5 DEF MessageType
    <3>2. n \in Nat
      BY <1>1 DEF n
    <3>3. \A j \in 1 .. k : n + j \in n + 1 .. n + k
      BY <3>2
    <3>4. \A j \in n + 1 .. n + k : j - n \in 1 .. k /\ n + (j - n) = j
      BY <3>2
    <3>5. new \in Seq(MessageType)
      BY <3>1, <3>3 DEF Requests
    <3>6. \A m \in ToSet(new) : \E j \in n + 1 .. n + k : m = [kind |-> "Request", id |-> j]
      BY <3>3 DEF Requests, ToSet
    <3>7. ASSUME NEW j \in n + 1 .. n + k PROVE [kind |-> "Request", id |-> j] \in ToSet(new)
      <4>1. new[j - n] = [kind |-> "Request", id |-> j] /\ j - n \in DOMAIN new
        BY <3>4 DEF Requests
      <4> QED BY <4>1 DEF ToSet
    <3> QED BY <3>5, <3>6, <3>7
  <2>2. s.channel \in Seq(MessageType)
    BY <1>1 DEF StateType
  <2> HIDE DEF new
  <2>3. ToSet(s.channel \o new) = ToSet(s.channel) \cup ToSet(new)
    BY <2>1, <2>2, ToSetConcat
  <2> QED BY <1>4, <2>1, <2>3
<1>7. t.book.filled = s.book.filled /\ Active(t.book) = Active(s.book) \ P
  <2>1. t.book = OnCancel(s.book, P) /\ s.book \in BookType
    BY <1>1, <1>3 DEF Applied, StateType
  <2> QED BY <2>1, OnCancelProperties
<1>8. \A i \in OrderIds : Asked(t, pending, i) <=> Asked(s, pending, i) \/ i \in n + 1 .. n + k
  <2> TAKE i \in OrderIds
  <2> DEFINE N == {[kind |-> "Request", id |-> j] : j \in n + 1 .. n + k}
  <2>1. (\E m \in N : m.id = i /\ m.kind # "Report") <=> i \in n + 1 .. n + k
    <3>1. \A m \in N : m.kind = "Request" /\ m.id \in n + 1 .. n + k
      OBVIOUS
    <3>2. ASSUME i \in n + 1 .. n + k PROVE \E m \in N : m.id = i /\ m.kind = "Request"
      <4>1. [kind |-> "Request", id |-> i] \in N
        BY <3>2
      <4> HIDE DEF N
      <4> QED BY <4>1
    <3> HIDE DEF N
    <3>3. "Request" # "Report"
      OBVIOUS
    <3> QED BY <3>1, <3>2, <3>3
  <2> HIDE DEF N
  <2>2. ToSet(t.channel) = ToSet(s.channel) \cup N
    BY <1>6 DEF N
  <2> QED BY <2>1, <2>2 DEF Asked
<1>9. \A i \in OrderIds : ReportsOf(t, reports \ {r}, i) = ReportsOf(s, reports, i) \ {r}
  <2>1. \A m \in ToSet(s.channel) : m # r
    BY DEF Good, InOnePlace
  <2> QED BY <1>6, <2>1 DEF ReportsOf
<1>10. \A i \in OrderIds : Account(s, i, Asked(s, pending, i), ReportsOf(s, reports, i))
  BY DEF Even
<1>11. Plain(s) /\ (Unpaired => P = {})
  <2>1. Plain(s)
    BY DEF Even
  <2> QED BY <2>1, <1>3 DEF Plain, Applied
<1>12. r.id \notin P
  BY <1>3 DEF Applied
<1>13. ASSUME NEW i \in OrderIds, i = r.id
       PROVE  Account(t, i, Asked(t, pending, i), ReportsOf(t, reports \ {r}, i))
  <2>1. ReportsOf(s, reports, i) = {r} /\ MessageSound(s, r) /\ ~Asked(s, pending, i)
    BY <1>13, MessageFacts
  <2>2. ReportsOf(t, reports \ {r}, i) = {} /\ ~Asked(t, pending, i) /\ t.ord[i] = s.ord[i]
    BY <1>1, <1>5, <1>8, <1>9, <1>13, <2>1
  <2>3. Account(s, i, FALSE, {r})
    BY <1>10, <2>1 DEF Account
  <2>4. r.status \in Finished => i \notin Active(s.book)
    BY <1>1, <1>13, <2>1 DEF MessageSound
  <2>5. Account(t, i, FALSE, {})
    BY <1>1, <1>3, <1>4, <1>7, <1>11, <1>12, <1>13, <2>2, <2>3, <2>4, ReportedAccount
  <2> QED BY <2>2, <2>5 DEF Account
<1>14. \A i \in OrderIds : \A q \in ReportsOf(s, reports, i) : q.id = i
  BY DEF ReportsOf
<1>15. ASSUME NEW i \in OrderIds, i # r.id
       PROVE  /\ ReportsOf(t, reports \ {r}, i) = ReportsOf(s, reports, i)
              /\ t.om.history[i] = s.om.history[i] /\ t.om.filled[i] = s.om.filled[i]
              /\ t.om.status[i] = IF i \in P /\ s.om.status[i] \in Live THEN "Cancelled"
                                  ELSE s.om.status[i]
              /\ t.ledger.unbooked[i] = s.ledger.unbooked[i]
              /\ t.ledger.booked[i] = s.ledger.booked[i]
              /\ t.ledger.untold[i] = s.ledger.untold[i]
              /\ t.ledger.told[i] = s.ledger.told[i]
              /\ t.ledger.rejected[i] = s.ledger.rejected[i]
              /\ t.ledger.rejectsTold[i] = s.ledger.rejectsTold[i]
  <2>1. ReportsOf(t, reports \ {r}, i) = ReportsOf(s, reports, i)
    BY <1>9, <1>14, <1>15
  <2>2. /\ t.om.history = s.om.history /\ t.ledger.booked = s.ledger.booked
        /\ t.ledger.untold = s.ledger.untold /\ t.ledger.told = s.ledger.told
        /\ t.ledger.rejectsTold = s.ledger.rejectsTold
    BY <1>3 DEF Applied
  <2>3. /\ t.om.filled[i] = s.om.filled[i]
        /\ t.om.status[i] = IF i \in P /\ s.om.status[i] \in Live THEN "Cancelled"
                            ELSE s.om.status[i]
    BY <1>3, <1>15 DEF Applied
  <2>4. t.ledger.unbooked[i] = s.ledger.unbooked[i] /\ t.ledger.rejected[i] = s.ledger.rejected[i]
    BY <1>3, <1>15 DEF Applied
  <2> QED BY <2>1, <2>2, <2>3, <2>4
<1>16. ASSUME NEW i \in OrderIds, i \in n + 1 .. n + k
       PROVE  Account(t, i, Asked(t, pending, i), ReportsOf(t, reports \ {r}, i))
  <2>1. i # r.id /\ s.ord[i] \notin Order /\ t.ord[i] \in Order
        /\ ExitTerms(t.ord[i], s.ord[r.id])
    BY <1>1, <1>3, <1>5, <1>16 DEF Applied, ExitsOnly
  <2>9. t.ord[i].tif = "Day" => ~NoDayOrders /\ (NoNextBarDay => t.ord[i].offset = 0)
    <3>1. Kept(s, r.id)
      BY <1>1, <1>10 DEF Account
    <3> QED BY <1>1, <2>1, <3>1 DEF Kept, ExitTerms
  <2>2. Asked(t, pending, i) /\ ReportsOf(s, reports, i) = {} /\ ReportsOf(t, reports \ {r}, i) = {}
    BY <1>8, <1>15, <1>16, <2>1, MessageFacts
  <2>3. s.om.status[i] = Absent /\ i \notin Active(s.book)
    BY <2>1 DEF Good, BookSound
  <2>4. i \notin Active(t.book) /\ t.om.status[i] = s.om.status[i]
    BY <1>7, <1>15, <2>1, <2>3, StatusFacts
  <2>5. Account(s, i, Asked(s, pending, i), {})
    BY <1>10, <2>2
  <2>6. t.ledger.untold[i] + t.ledger.told[i] = t.ledger.booked[i]
    BY <1>15, <2>1, <2>5 DEF Account
  <2>8. Traded(t, i) = Traded(s, i)
    BY <1>15, <2>1 DEF Traded
  <2>7. Account(t, i, TRUE, {})
    BY <2>8, <1>1, <1>4, <1>15, <2>1, <2>3, <2>4, <2>5, <2>6, <2>9, NewAccount
  <2> QED BY <2>2, <2>7
<1>17. ASSUME NEW i \in OrderIds, i # r.id, i \notin n + 1 .. n + k
       PROVE  Account(t, i, Asked(t, pending, i), ReportsOf(t, reports \ {r}, i))
  <2>1. (Asked(t, pending, i) <=> Asked(s, pending, i)) /\ t.ord[i] = s.ord[i]
    BY <1>5, <1>8, <1>17
  <2> DEFINE asked == Asked(s, pending, i)
             R == ReportsOf(s, reports, i)
  <2>2. Account(s, i, asked, R) /\ \A q \in R : q.id = i
    BY <1>10, <1>14
  <2> HIDE DEF asked, R, Account
  <2>5. R = ReportsOf(t, reports \ {r}, i) /\ (asked <=> Asked(t, pending, i))
    BY <1>15, <1>17, <2>1 DEF asked, R
  <2>6. Account(t, i, asked, R) => Account(t, i, Asked(t, pending, i), R)
    BY <2>5 DEF Account
  <2>3. CASE i \in P
    <3>1. ~Unpaired /\ i \notin Active(t.book)
      BY <1>7, <1>11, <2>3
    <3>2. Account(t, i, asked, R)
      BY <1>1, <1>4, <1>15, <1>17, <2>1, <2>2, <2>3, <3>1, CancelledAccount
    <3> QED BY <3>2, <2>5, <2>6
  <2>4. CASE i \notin P
    <3>1. Alike(s, t, i)
      BY <1>7, <1>15, <1>17, <2>1, <2>2, <2>4 DEF Alike, Traded, Account
    <3>2. Account(t, i, asked, R)
      BY <1>1, <1>4, <2>2, <3>1, AlikeAccount
    <3> QED BY <3>2, <2>5, <2>6
  <2> QED BY <2>3, <2>4
<1>18. Plain(t)
  <2>1. Unpaired => t.suppressed = {} /\ \A i \in OrderIds : t.om.oco.groupOf[i] = NoGroup
    BY <1>3, <1>11 DEF Plain, Applied
  <2>2. \A i \in OrderIds : t.om.plans[i] \subseteq s.om.plans[i]
    BY <1>3 DEF Applied
  <2> QED BY <1>1, <1>4, <1>11, <2>1, <2>2, PlainLoosened
<1>19. \A i \in OrderIds : Account(t, i, Asked(t, pending, i), ReportsOf(t, reports \ {r}, i))
  BY <1>13, <1>16, <1>17
<1> QED BY <1>18, <1>19 DEF Even

-----------------------------------------------------------------------------
(***************************************************************************)
(* The life of one order.                                                  *)
(***************************************************************************)

\* The order as OrderLifecycle has it.
LifeStatus(r, i) ==
    IF r.history[i] # <<>> \/ r.status[i] # Absent THEN Snapshot(r, i).status ELSE "Unknown"
LifeFilled(r, i) ==
    IF r.history[i] # <<>> \/ r.status[i] # Absent THEN Snapshot(r, i).filled ELSE 0

SameRow(r, u, i) ==
    u.status[i] = r.status[i] /\ u.filled[i] = r.filled[i] /\ u.history[i] = r.history[i]

\* From r to u the order i of quantity q rests, or makes one step of its life.
Lives(r, u, q, i) ==
    LET a == LifeStatus(r, i)
        b == LifeStatus(u, i)
        f == LifeFilled(r, i)
        g == LifeFilled(u, i)
    IN  \/ b = a /\ g = f
        \/ a = "Unknown" /\ b \in {"New", "Rejected"} /\ g = 0
        \/ a \in Live /\ g > f /\ g <= q /\ b = IF g = q THEN "Filled" ELSE "PartiallyFilled"
        \/ a \in Live /\ b \in Finished \ {"Filled"} /\ g = IF b = "Rejected" THEN 0 ELSE f

LEMMA RestLives ==
    ASSUME NEW r, NEW u, NEW q, NEW i, SameRow(r, u, i)
    PROVE  Lives(r, u, q, i)
BY DEF Lives, SameRow, LifeStatus, LifeFilled, Snapshot

\* What rests before or after a step of the order does not undo it.
LEMMA LivesOn ==
    ASSUME NEW r, NEW u, NEW w, NEW q, NEW i
    PROVE  /\ Lives(r, u, q, i) /\ SameRow(u, w, i) => Lives(r, w, q, i)
           /\ SameRow(r, u, i) /\ Lives(u, w, q, i) => Lives(r, w, q, i)
<1>1. ASSUME NEW a, NEW b, SameRow(a, b, i)
      PROVE  LifeStatus(b, i) = LifeStatus(a, i) /\ LifeFilled(b, i) = LifeFilled(a, i)
  BY <1>1 DEF SameRow, LifeStatus, LifeFilled, Snapshot
<1> QED BY <1>1 DEF Lives

\* An order that was not archived.
LEMMA UnarchivedLife ==
    ASSUME NEW r, NEW i, r.history[i] = <<>>
    PROVE  /\ r.status[i] # Absent => LifeStatus(r, i) = r.status[i] /\ LifeFilled(r, i) = r.filled[i]
           /\ r.status[i] = Absent => LifeStatus(r, i) = "Unknown" /\ LifeFilled(r, i) = 0
BY DEF LifeStatus, LifeFilled, Snapshot

\* A working order is cancelled.
LEMMA CancelledLives ==
    ASSUME NEW r, NEW u, NEW q, NEW i, r.history[i] = <<>>, r.status[i] \in Live,
           u.status[i] = "Cancelled", u.filled[i] = r.filled[i], u.history[i] = r.history[i]
    PROVE  Lives(r, u, q, i)
<1>1. r.status[i] # Absent /\ "Cancelled" # Absent
  BY StatusFacts
<1>2. LifeStatus(r, i) = r.status[i] /\ LifeFilled(r, i) = r.filled[i]
  BY <1>1, UnarchivedLife
<1>3. LifeStatus(u, i) = "Cancelled" /\ LifeFilled(u, i) = r.filled[i]
  BY <1>1, UnarchivedLife
<1> QED BY <1>2, <1>3 DEF Lives, Finished

\* A report is applied.
LEMMA ReportLives ==
    ASSUME Unpaired, NEW s, NEW pending, NEW reports, Good(s, pending, reports),
           Even(s, pending, reports), NEW r \in reports, NEW t, t = ApplyReport(s, r)
    PROVE  /\ \A i \in OrderIds \ {r.id} : SameRow(s.om, t.om, i)
           /\ r.id \in OrderIds => Lives(s.om, t.om, s.ord[r.id].qty, r.id)
<1>1. PICK k \in Nat, P \in SUBSET OrderIds : Applied(s, r, t, k, P)
  BY ReportKeeps
<1>2. /\ s \in StateType /\ r \in ReportType /\ s.ord[r.id] \in Order /\ r.id \in OrderIds
      /\ r.kind = "Report" /\ MessageSound(s, r)
  BY MessageIds DEF Good, MessageSound, ReportType
<1>3. P = {} /\ s.suppressed = {}
  BY <1>1 DEF Even, Plain, Applied
<1>4. \A i \in OrderIds \ {r.id} : SameRow(s.om, t.om, i)
  BY <1>1, <1>3 DEF Applied, SameRow
<1> DEFINE i == r.id
<1>5. Account(s, i, Asked(s, pending, i), ReportsOf(s, reports, i)) /\ r \in ReportsOf(s, reports, i)
  BY <1>2 DEF Even, ReportsOf
<1>6. Continues(s, r) /\ Kept(s, i)
  BY <1>5 DEF Account
<1>7. ~Dropped(s, r) /\ ~Ignored(s, r)
  BY <1>3, <1>6, StatusFacts DEF Dropped, Ignored, Continues
<1>8. /\ t.om.status[i] = r.status /\ t.om.filled[i] = r.filled
      /\ s.om.history[i] = <<>> /\ t.om.history[i] = <<>>
  BY <1>1, <1>6, <1>7 DEF Applied, Continues
<1>9. /\ r.status \in Status /\ r.filled \in Nat /\ r.trade \in Nat
      /\ s.om.filled[i] \in Nat /\ s.ord[i].qty \in Nat
  BY <1>2, Amounts DEF ReportType, Order
<1>10. LifeStatus(t.om, i) = r.status /\ LifeFilled(t.om, i) = r.filled
  BY <1>8, <1>9, UnarchivedLife, StatusFacts
<1>11. Lives(s.om, t.om, s.ord[i].qty, i)
  <2>1. CASE s.om.status[i] = Absent
    <3>1. LifeStatus(s.om, i) = "Unknown"
      BY <1>8, <2>1, UnarchivedLife
    <3>2. r.status = "Rejected" /\ r.filled = 0
      BY <1>6, <2>1 DEF Continues
    <3> QED BY <1>10, <3>1, <3>2 DEF Lives
  <2>2. CASE s.om.status[i] # Absent
    <3>1. LifeStatus(s.om, i) = s.om.status[i] /\ LifeFilled(s.om, i) = s.om.filled[i]
      BY <1>8, <2>2, UnarchivedLife
    <3>2. CASE s.om.status[i] = "Cancelled"
      <4>1. r.status = "Cancelled" /\ r.filled = s.om.filled[i]
        BY <1>6, <3>2 DEF Continues
      <4> QED BY <1>10, <3>1, <3>2, <4>1 DEF Lives
    <3>3. CASE s.om.status[i] \in Live
      <4>1. s.om.filled[i] < s.ord[i].qty
        BY <1>6, <3>3 DEF Kept
      <4>2. CASE r.status = "Filled"
        BY <1>6, <1>9, <1>10, <3>1, <3>3, <4>1, <4>2 DEF Lives, Continues
      <4>3. CASE r.status = "PartiallyFilled"
        BY <1>6, <1>9, <1>10, <3>1, <3>3, <4>3 DEF Lives, Continues
      <4>4. CASE r.status \in Finished \ {"Filled"}
        <5>1. r.filled = IF r.status = "Rejected" THEN 0 ELSE s.om.filled[i]
          BY <1>6, <4>4 DEF Continues, Finished
        <5> QED BY <1>10, <3>1, <3>3, <4>4, <5>1 DEF Lives
      <4>5. r.status \in Finished \cup {"PartiallyFilled"}
        BY <1>6 DEF Continues
      <4> QED BY <4>2, <4>3, <4>4, <4>5
    <3> QED BY <1>6, <2>2, <3>2, <3>3 DEF Continues
  <2> QED BY <2>1, <2>2
<1> QED BY <1>4, <1>11

-----------------------------------------------------------------------------
(***************************************************************************)
(* Requests and messages that move.                                        *)
(***************************************************************************)

LEMMA HeadAndTail ==
    ASSUME NEW T, NEW c \in Seq(T), c # <<>>
    PROVE  ToSet(c) = {Head(c)} \cup ToSet(Tail(c))
<1> DEFINE e == Tail(c)
<1>1. /\ Len(c) \in Nat \ {0} /\ DOMAIN c = 1 .. Len(c) /\ DOMAIN e = 1 .. Len(c) - 1
      /\ Head(c) = c[1] /\ \A x \in 1 .. Len(c) - 1 : e[x] = c[x + 1]
  OBVIOUS
<1> HIDE DEF e
<1>2. \A x \in DOMAIN e : x + 1 \in DOMAIN c /\ e[x] = c[x + 1]
  BY <1>1
<1>3. \A x \in DOMAIN c : c[x] = Head(c) \/ \E y \in DOMAIN e : e[y] = c[x]
  <2> TAKE x \in DOMAIN c
  <2>1. CASE x = 1
    BY <1>1, <2>1
  <2>2. CASE x # 1
    <3>1. x - 1 \in DOMAIN e /\ (x - 1) + 1 = x
      BY <1>1, <2>2
    <3> QED BY <1>2, <3>1
  <2> QED BY <2>1, <2>2
<1>4. 1 \in DOMAIN c
  BY <1>1
<1>5. ToSet(c) = {Head(c)} \cup ToSet(e)
  <2>1. ToSet(c) \subseteq {Head(c)} \cup ToSet(e)
    BY <1>3 DEF ToSet
  <2>2. Head(c) \in ToSet(c)
    BY <1>1, <1>4 DEF ToSet
  <2>3. ToSet(e) \subseteq ToSet(c)
    <3> SUFFICES ASSUME NEW y \in DOMAIN e PROVE e[y] \in ToSet(c)
      BY DEF ToSet
    <3>1. y + 1 \in DOMAIN c /\ e[y] = c[y + 1]
      BY <1>2
    <3> QED BY <3>1 DEF ToSet
  <2> QED BY <2>1, <2>2, <2>3
<1> QED BY <1>5 DEF e

LEMMA ToSetAppend ==
    ASSUME NEW T, NEW q \in Seq(T), NEW x \in T
    PROVE  ToSet(Append(q, x)) = ToSet(q) \cup {x}
<1> DEFINE a == Append(q, x)
<1>1. /\ Len(q) \in Nat /\ DOMAIN q = 1 .. Len(q) /\ DOMAIN a = 1 .. Len(q) + 1
      /\ a[Len(q) + 1] = x /\ \A y \in 1 .. Len(q) : a[y] = q[y]
  OBVIOUS
<1> HIDE DEF a
<1>2. ToSet(a) = ToSet(q) \cup {x}
  <2>1. Len(q) + 1 \in DOMAIN a
    BY <1>1
  <2>2. \A y \in DOMAIN q : y \in DOMAIN a /\ a[y] = q[y]
    BY <1>1
  <2>3. \A y \in DOMAIN a : y \in DOMAIN q \/ y = Len(q) + 1
    BY <1>1
  <2> QED BY <1>1, <2>1, <2>2, <2>3 DEF ToSet
<1> QED BY <1>2 DEF a

\* An account says the same of the same request and reports.
LEMMA AccountSame ==
    ASSUME NEW s, NEW i, NEW a, NEW b, NEW R, NEW Q, Account(s, i, a, R), a <=> b, Q = R
    PROVE  Account(s, i, b, Q)
BY DEF Account

\* Every order is the same; messages may move.
LEMMA EvenMoved ==
    ASSUME NEW s \in StateType, NEW t \in StateType, NEW p, NEW q, NEW R, NEW Q, Even(s, p, R),
           Plain(t), \A i \in OrderIds : Alike(s, t, i),
           \A i \in OrderIds : Asked(t, q, i) <=> Asked(s, p, i),
           \A i \in OrderIds : ReportsOf(t, Q, i) = ReportsOf(s, R, i)
    PROVE  Even(t, q, Q)
<1>1. ASSUME NEW i \in OrderIds PROVE Account(t, i, Asked(t, q, i), ReportsOf(t, Q, i))
  <2> DEFINE a == Asked(s, p, i)
             S == ReportsOf(s, R, i)
  <2>1. Account(s, i, a, S) /\ \A r \in S : r.id = i
    BY DEF Even, ReportsOf
  <2>2. ReportsOf(t, Q, i) = S /\ (Asked(t, q, i) <=> a)
    OBVIOUS
  <2> HIDE DEF a, S
  <2>3. Account(t, i, a, S)
    BY <2>1, AlikeAccount
  <2>4. Account(t, i, Asked(t, q, i), S)
    BY <2>2, <2>3 DEF Account
  <2> QED BY <2>2, <2>4
<1> QED BY <1>1 DEF Even

LEMMA PoppedProperties ==
    ASSUME NEW s \in StateType, s.channel # <<>>, NEW u, u = Popped(s)
    PROVE  /\ u \in StateType /\ u.om = s.om /\ u.book = s.book /\ u.ord = s.ord
           /\ u.ledger = s.ledger /\ u.suppressed = s.suppressed
           /\ u.channel = Tail(s.channel)
           /\ ToSet(s.channel) = {Head(s.channel)} \cup ToSet(u.channel)
<1> DEFINE q == Tail(s.channel)
<1>1. s.channel \in Seq(MessageType)
  BY DEF StateType
<1>2. q \in Seq(MessageType)
  BY <1>1
<1>3. u = [s EXCEPT !.channel = q]
  BY DEF Popped
<1>4. ToSet(s.channel) = {Head(s.channel)} \cup ToSet(q)
  <2> DEFINE c == s.channel
  <2>1. c \in Seq(MessageType) /\ c # <<>>
    BY <1>1
  <2> HIDE DEF c
  <2>2. ToSet(c) = {Head(c)} \cup ToSet(Tail(c))
    BY <2>1, HeadAndTail
  <2> QED BY <2>2 DEF c
<1> HIDE DEF q
<1>5. /\ u \in StateType /\ u.om = s.om /\ u.book = s.book /\ u.ord = s.ord
      /\ u.ledger = s.ledger /\ u.suppressed = s.suppressed /\ u.channel = q
  BY <1>2, <1>3 DEF StateType
<1> QED BY <1>4, <1>5 DEF q

\* What the ledger says of the trades told is part of every account.
LEMMA ToldFacts ==
    ASSUME NEW s, NEW p, NEW R, Even(s, p, R), NEW i \in OrderIds
    PROVE  s.ledger.untold[i] + s.ledger.told[i] = s.ledger.booked[i]
BY DEF Even, Account

\* The order of a validation starts to work.
LEMMA ValidatedAccount ==
    ASSUME NEW s \in StateType, NEW t \in StateType, NEW i \in OrderIds, s.ord[i] \in Order,
           s.om.status[i] = Absent, t.om.status[i] = "New", t.om.filled[i] = 0,
           t.om.history[i] = s.om.history[i],
           t.ord[i] = s.ord[i], t.ledger = s.ledger, i \in Active(t.book), t.book.filled[i] = 0,
           Account(s, i, TRUE, {})
    PROVE  Account(t, i, FALSE, {})
<1>1. s.om.history[i] = <<>> /\ s.om.filled[i] = 0
  BY DEF Account, Kept
<1>2. /\ Shown(s, i).status = Absent /\ Shown(s, i).filled = 0
      /\ Shown(t, i).status = "New" /\ Shown(t, i).filled = 0
  BY <1>1, Amounts
<1>3. Kept(t, i)
  <2>1. 0 < s.ord[i].qty
    BY DEF Order
  <2> QED BY <1>1, <2>1, Amounts, StatusFacts DEF Kept, Live, Absent, Account
<1>4. Balanced(s, i) => Balanced(t, i)
  BY <1>2 DEF Balanced, Traded, Absent
<1>5. Noted(s, i) => Noted(t, i)
  BY <1>2 DEF Noted, Absent
<1> QED BY <1>1, <1>3, <1>4, <1>5, StatusFacts DEF Account, Absent

LEMMA ReceiveEven ==
    ASSUME NEW s, NEW pending, Good(s, pending, {}), Even(s, pending, {}), s.channel # <<>>,
           NEW m, m = Head(s.channel), NEW u, u = Popped(s),
           NEW t, t \in StateType, m.kind = "Request" => t = u,
           m.kind = "Validated" => t = WithOrder(u, m.id),
           m.kind = "Report" => t = ApplyReport(u, m)
    PROVE  /\ Even(t, IF m.kind = "Request" THEN Append(pending, m.id) ELSE pending, {})
           /\ Unpaired => \A i \in OrderIds : Lives(s.om, t.om, s.ord[i].qty, i)
<1>1. s \in StateType
  BY DEF Good
<1>2. /\ u \in StateType /\ u.om = s.om /\ u.book = s.book /\ u.ord = s.ord
      /\ u.ledger = s.ledger /\ u.suppressed = s.suppressed
      /\ u.channel = Tail(s.channel)
      /\ ToSet(s.channel) = {m} \cup ToSet(u.channel)
  BY <1>1, PoppedProperties
<1>3. /\ m \in MessageType /\ m.id \in OrderIds /\ MessageSound(u, m)
      /\ m.id \notin ToSet(pending) /\ \A d \in ToSet(u.channel) : d.id # m.id
      /\ Good(u, pending, {})
  <2>1. \A mm, uu : /\ mm = Head(s.channel) /\ uu \in StateType
                    /\ uu.om = s.om /\ uu.book = s.book /\ uu.ord = s.ord
                    /\ uu.channel = Tail(s.channel)
                    => /\ mm \in MessageType /\ mm.id \in OrderIds /\ MessageSound(uu, mm)
                       /\ mm.id \notin ToSet(pending)
                       /\ \A d \in ToSet(uu.channel) : d.id # mm.id
                       /\ Good(uu, pending, {})
    BY HeadTaken
  <2> QED BY <1>2, <2>1
<1>4. m.kind \in {"Request", "Validated", "Report"}
  BY <1>3 DEF MessageType, ReportType
<1>5. Plain(u)
  BY <1>2 DEF Even, Plain
<1>6. \A i \in OrderIds : Alike(s, u, i)
  BY <1>2, ToldFacts DEF Alike, Traded
<1>7. CASE m.kind = "Request"
  <2> DEFINE q == Append(pending, m.id)
  <2>1. ToSet(q) = ToSet(pending) \cup {m.id}
    BY <1>3, ToSetAppend DEF Good, InOnePlace
  <2> HIDE DEF q
  <2>2. \A i \in OrderIds : Asked(u, q, i) <=> Asked(s, pending, i)
    BY <1>2, <1>7, <2>1 DEF Asked
  <2>3. \A i \in OrderIds : ReportsOf(u, {}, i) = ReportsOf(s, {}, i)
    BY <1>2, <1>7 DEF ReportsOf
  <2>4. Even(u, q, {})
    BY <1>1, <1>2, <1>5, <1>6, <2>2, <2>3, EvenMoved
  <2>5. \A i \in OrderIds : SameRow(s.om, t.om, i)
    BY <1>2, <1>7 DEF SameRow
  <2> QED BY <1>7, <2>4, <2>5, RestLives DEF q
<1>8. CASE m.kind = "Report"
  <2> DEFINE R == {m}
  <2>1. m \in R /\ R \ {m} = {} /\ m \in ReportType
    BY <1>3, <1>8 DEF MessageType
  <2>2. Good(u, pending, R)
    BY <1>3, <2>1 DEF Good, InOnePlace
  <2>3. \A i \in OrderIds : Asked(u, pending, i) <=> Asked(s, pending, i)
    BY <1>2, <1>8 DEF Asked
  <2>4. \A i \in OrderIds : ReportsOf(u, R, i) = ReportsOf(s, {}, i)
    BY <1>2 DEF ReportsOf
  <2> HIDE DEF R
  <2>5. Even(u, pending, R)
    BY <1>1, <1>2, <1>5, <1>6, <2>3, <2>4, EvenMoved
  <2>6. Even(t, pending, R \ {m})
    BY <1>8, <2>1, <2>2, <2>5, ReportEven
  <2>7. ASSUME Unpaired, NEW i \in OrderIds PROVE Lives(s.om, t.om, s.ord[i].qty, i)
    <3>1. /\ \A j \in OrderIds \ {m.id} : SameRow(u.om, t.om, j)
          /\ m.id \in OrderIds => Lives(u.om, t.om, u.ord[m.id].qty, m.id)
      BY <1>8, <2>1, <2>2, <2>5, <2>7, ReportLives
    <3> QED BY <1>2, <3>1, RestLives
  <2> QED BY <1>8, <2>1, <2>6, <2>7
<1>9. CASE m.kind = "Validated"
  <2> DEFINE i == m.id
             b == OnOrder(u.book, i)
             r == AddActive(u.om, i)
  <2>1. t = [u EXCEPT !.book = b, !.om = r]
    BY <1>9 DEF WithOrder
  <2>2. RequestSound(u, i)
    BY <1>3, <1>9 DEF MessageSound, RequestSound
  <2>3. \A j \in OrderIds : /\ b.status[j] = IF j = i THEN "Submitted" ELSE u.book.status[j]
                            /\ b.filled[j] = IF j = i THEN 0 ELSE u.book.filled[j]
    <3> DEFINE c == u.book
               o == u.ord
    <3>1. BookSound(c, o) /\ i \in OrderIds /\ i \notin ToSet(c.queue) /\ o[i] \in Order
      BY <1>3, <2>2 DEF Good, RequestSound
    <3>2. b = OnOrder(c, i)
      OBVIOUS
    <3> HIDE DEF b, c, o
    <3>3. \A j \in OrderIds : /\ b.status[j] = IF j = i THEN "Submitted" ELSE c.status[j]
                              /\ b.filled[j] = IF j = i THEN 0 ELSE c.filled[j]
      BY <3>1, <3>2, OnOrderProperties
    <3> QED BY <3>3 DEF c
  <2>4. /\ r.history = u.om.history /\ r.plans = u.om.plans /\ r.oco = u.om.oco
        /\ \A j \in OrderIds : /\ r.status[j] = IF j = i THEN "New" ELSE u.om.status[j]
                               /\ r.filled[j] = IF j = i THEN 0 ELSE u.om.filled[j]
    <3> DEFINE v == u.om
    <3>1. v \in RegistryType /\ i \in OrderIds /\ r = AddActive(v, i)
      BY <1>2, <1>3 DEF StateType
    <3> HIDE DEF r, v
    <3>2. /\ r.history = v.history /\ r.plans = v.plans /\ r.oco = v.oco
          /\ \A j \in OrderIds : /\ r.status[j] = IF j = i THEN "New" ELSE v.status[j]
                                 /\ r.filled[j] = IF j = i THEN 0 ELSE v.filled[j]
      BY <3>1, AddActiveProperties
    <3> QED BY <3>2 DEF v
  <2> HIDE DEF r, b
  <2>5. /\ t.om = r /\ t.book = b /\ t.ord = u.ord /\ t.channel = u.channel
        /\ t.ledger = u.ledger /\ t.suppressed = u.suppressed
    BY <1>2, <2>1 DEF StateType
  <2>6. i \in OrderIds /\ i \notin ToSet(pending) /\ \A d \in ToSet(u.channel) : d.id # i
    BY <1>3
  <2>7. Plain(t)
    BY <1>5, <2>4, <2>5 DEF Plain
  <2>8. \A j \in OrderIds : ReportsOf(t, {}, j) = ReportsOf(s, {}, j)
    BY <1>2, <1>9, <2>5 DEF ReportsOf
  <2>9. \A j \in OrderIds \ {i} : Asked(t, pending, j) <=> Asked(s, pending, j)
    BY <1>2, <2>5 DEF Asked
  <2>10. Asked(s, pending, i) /\ ~Asked(t, pending, i)
    BY <1>2, <1>9, <2>5, <2>6 DEF Asked
  <2>11. Account(t, i, Asked(t, pending, i), ReportsOf(t, {}, i))
    <3>1. ReportsOf(s, {}, i) = {} /\ s.ord[i] \in Order /\ s.om.status[i] = Absent
      BY <2>6, <2>10, MessageFacts
    <3>2. Account(s, i, Asked(s, pending, i), ReportsOf(s, {}, i))
      BY <2>6 DEF Even
    <3>3. Account(s, i, TRUE, {})
      BY <2>10, <3>1, <3>2 DEF Account
    <3>4. i \in Active(t.book) /\ t.book.filled[i] = 0
      BY <2>3, <2>5, <2>6, StatusFacts DEF Active
    <3>5. /\ t.om.status[i] = "New" /\ t.om.filled[i] = 0 /\ t.om.history[i] = s.om.history[i]
          /\ t.ord[i] = s.ord[i] /\ t.ledger = s.ledger
      BY <1>2, <2>4, <2>5, <2>6
    <3>6. Account(t, i, FALSE, {})
      BY <1>1, <2>6, <3>1, <3>3, <3>4, <3>5, ValidatedAccount
    <3> QED BY <2>8, <2>10, <3>1, <3>6, <2>6 DEF Account
  <2>12. ASSUME NEW j \in OrderIds, j # i
         PROVE  Account(t, j, Asked(t, pending, j), ReportsOf(t, {}, j))
    <3> DEFINE a == Asked(s, pending, j)
               S == ReportsOf(s, {}, j)
    <3>1. Alike(s, t, j)
      BY <1>2, <2>3, <2>4, <2>5, <2>12, ToldFacts DEF Alike, Traded, Active
    <3>2. Account(s, j, a, S) /\ \A d \in S : d.id = j
      BY DEF Even, ReportsOf
    <3>3. ReportsOf(t, {}, j) = S /\ (Asked(t, pending, j) <=> a)
      BY <2>8, <2>9, <2>12
    <3> HIDE DEF a, S
    <3>4. Account(t, j, a, S)
      BY <1>1, <3>1, <3>2, AlikeAccount
    <3>5. Account(t, j, Asked(t, pending, j), S)
      BY <3>3, <3>4 DEF Account
    <3> QED BY <3>3, <3>5
  <2>13. Even(t, pending, {})
    BY <2>7, <2>11, <2>12 DEF Even
  <2>14. ASSUME NEW j \in OrderIds PROVE Lives(s.om, t.om, s.ord[j].qty, j)
    <3>1. CASE j = i
      <4>1. s.om.status[i] = Absent /\ s.om.history[i] = <<>>
        <5>1. Account(s, i, Asked(s, pending, i), ReportsOf(s, {}, i))
          BY <2>6 DEF Even
        <5> QED BY <2>6, <2>10, <5>1, MessageFacts, SMTT(40) DEF Account
      <4>2. LifeStatus(s.om, i) = "Unknown"
        BY <4>1, UnarchivedLife
      <4>3. t.om.status[i] = "New" /\ t.om.filled[i] = 0 /\ t.om.history[i] = <<>>
        BY <1>2, <2>4, <2>5, <2>6, <4>1
      <4>4. LifeStatus(t.om, i) = "New" /\ LifeFilled(t.om, i) = 0
        BY <4>3, UnarchivedLife, StatusFacts
      <4> QED BY <3>1, <4>2, <4>4 DEF Lives
    <3>2. CASE j # i
      <4>1. SameRow(s.om, t.om, j)
        BY <1>2, <2>4, <2>5, <3>2 DEF SameRow
      <4> QED BY <4>1, RestLives
    <3> QED BY <3>1, <3>2
  <2> QED BY <1>9, <2>13, <2>14
<1> QED BY <1>4, <1>7, <1>8, <1>9

-----------------------------------------------------------------------------
(***************************************************************************)
(* The client.                                                             *)
(***************************************************************************)

\* What of an account the client's book does not touch.
LEMMA BookAccount ==
    ASSUME NEW s \in StateType, NEW t \in StateType, NEW i \in OrderIds, t.om = s.om,
           t.ord[i] = s.ord[i], t.ledger = s.ledger, NEW asked, NEW R, NEW Q,
           Account(s, i, asked, R), R = {} \/ Q # {},
           \A r \in Q : Continues(t, r),
           i \in Active(t.book) =>
              s.om.status[i] \in Live /\ (Q = {} => t.book.filled[i] = s.om.filled[i]),
           Unpaired /\ NeverVanishes /\ s.om.status[i] \in Live =>
              i \in Active(t.book) \/ \E r \in Q : r.status \in Finished
    PROVE  Account(t, i, asked, Q)
<1>1. Shown(t, i) = Shown(s, i)
  BY DEF Shown
<1>2. Kept(t, i) /\ (Balanced(s, i) => Balanced(t, i)) /\ (Noted(s, i) => Noted(t, i))
  BY <1>1 DEF Kept, Account, Balanced, Noted, Traded
<1> QED BY <1>2 DEF Account

\* The client answers a call: its reports wait to be applied.
LEMMA CallEven ==
    ASSUME NEW s, NEW pending, Good(s, pending, {}), Even(s, pending, {}), NEW times, NEW done,
           CallSound(s.book, s.ord, times, done),
           \A m \in ToSet(s.channel) : m.id \notin Active(s.book),
           NEW t \in StateType, t.om = s.om, t.ord = s.ord, t.channel = s.channel,
           t.book = done.book, t.ledger = s.ledger, t.suppressed = s.suppressed
    PROVE  Even(t, pending, ToSet(done.reports))
<1> DEFINE b == s.book
           c == done.book
           R == ToSet(done.reports)
<1>1. s \in StateType /\ Plain(t)
  BY DEF Good, Even, Plain
<1>2. /\ \A r \in R : r \in ReportType /\ r.kind = "Report" /\ Genuine(b, s.ord, c, r)
      /\ \A r, q \in R : r.id = q.id => r = q
      /\ \A i \in Active(c) : i \in Active(b)
      /\ \A i \in OrderIds : (\A r \in R : r.id # i) =>
            /\ i \in Active(c) => c.filled[i] = b.filled[i]
            /\ "vanish" \notin Verdicts /\ i \in Active(b) => i \in Active(c)
  <2>1. done.reports \in Seq(ReportType) /\ Outcome(b, s.ord, c, done.reports)
    BY DEF CallSound
  <2>2. \A r \in R : \E k \in DOMAIN done.reports : done.reports[k] = r
    BY DEF ToSet
  <2>3. \A k \in DOMAIN done.reports : done.reports[k] \in R
    BY DEF ToSet
  <2>4. \A k \in DOMAIN done.reports : done.reports[k] \in ReportType
    BY <2>1
  <2>5. \A i : (\A r \in R : r.id # i) => ~Reported(done.reports, i)
    BY <2>3 DEF Reported
  <2>6. /\ \A k, l \in DOMAIN done.reports : done.reports[k].id = done.reports[l].id => k = l
        /\ \A k \in DOMAIN done.reports : Genuine(b, s.ord, c, done.reports[k])
        /\ \A i \in Active(c) : i \in Active(b)
        /\ \A i \in OrderIds : ~Reported(done.reports, i) =>
              /\ i \in Active(c) => c.filled[i] = b.filled[i]
              /\ "vanish" \notin Verdicts /\ i \in Active(b) => i \in Active(c)
    BY <2>1 DEF Outcome
  <2>7. \A r \in R : r \in ReportType /\ r.kind = "Report" /\ Genuine(b, s.ord, c, r)
    BY <2>2, <2>4, <2>6 DEF ReportType
  <2>8. \A r, q \in R : r.id = q.id => r = q
    BY <2>2, <2>6
  <2> HIDE DEF R, b, c
  <2> QED BY <2>5, <2>6, <2>7, <2>8
<1>3. t.book = c
  OBVIOUS
<1> HIDE DEF R, c
<1>4. \A i \in OrderIds : /\ Account(s, i, Asked(s, pending, i), ReportsOf(s, {}, i))
                          /\ (Asked(t, pending, i) <=> Asked(s, pending, i))
  BY DEF Even, Asked
<1>5. ASSUME NEW i \in OrderIds, NEW r \in R, r.id = i
      PROVE  Account(t, i, Asked(t, pending, i), ReportsOf(t, R, i))
  <2>1. Genuine(b, s.ord, c, r) /\ i \in Active(b) /\ r \in ReportType /\ r.kind = "Report"
    BY <1>2, <1>5 DEF Genuine
  <2>2. ReportsOf(s, {}, i) = {} /\ ReportsOf(t, R, i) = {r}
    BY <1>2, <1>5, <2>1 DEF ReportsOf
  <2>3. /\ s.om.status[i] \in Live /\ b.filled[i] = s.om.filled[i] /\ Kept(s, i)
        /\ Unpaired /\ NeverVanishes => i \in Active(b)
    BY <1>4, <2>1, <2>2 DEF Account
  <2>4. s.om.history[i] = <<>>
    BY <2>3, StatusFacts DEF Kept
  <2>5. s.om.filled[i] \in Nat /\ r.filled \in Nat /\ r.trade \in Nat
    BY <1>1, <2>1, Amounts DEF ReportType
  <2>6. /\ r.status \in Finished \cup {"PartiallyFilled"}
        /\ r.status = "Filled" => r.filled = s.ord[i].qty
        /\ r.status = "PartiallyFilled" => r.filled < s.ord[i].qty /\ r.trade > 0
        /\ r.status \in {"Filled", "PartiallyFilled"} =>
              /\ s.om.filled[i] + r.trade <= r.filled
              /\ ~s.ord[i].resize => s.om.filled[i] + r.trade = r.filled
        /\ r.status \in {"Cancelled", "Expired"} => r.trade = 0 /\ r.filled = s.om.filled[i]
        /\ r.status = "Rejected" => r.trade = 0 /\ r.filled = 0 /\ ~AlwaysAffordable
    BY <1>5, <2>1, <2>3 DEF Genuine, AlwaysAffordable
  <2>7. /\ i \in Active(c) => c.filled[i] = r.filled
        /\ i \in Active(c) \/ r.status \in Finished
    BY <1>5, <2>1 DEF Genuine
  <2>8. Continues(t, r)
    <3>1. s.om.status[i] # Absent /\ s.om.status[i] # "Cancelled"
      BY <2>3, StatusFacts DEF Live, Absent
    <3> QED BY <1>3, <1>5, <2>3, <2>4, <2>6, <2>7, <3>1 DEF Continues
  <2>9. Account(s, i, Asked(t, pending, i), {})
    BY <1>4, <2>2 DEF Account
  <2> DEFINE Q == {r}
             a == Asked(t, pending, i)
  <2>10. Account(s, i, a, {}) /\ Q # {} /\ (\A q \in Q : Continues(t, q)) /\ r \in Q
    BY <2>8, <2>9
  <2> HIDE DEF Q, a
  <2>11. Account(t, i, a, Q)
    BY <1>1, <1>3, <2>3, <2>7, <2>10, BookAccount
  <2> QED BY <2>2, <2>11 DEF Q, a
<1>6. ASSUME NEW i \in OrderIds, \A r \in R : r.id # i
      PROVE  Account(t, i, Asked(t, pending, i), ReportsOf(t, R, i))
  <2> DEFINE Q == ReportsOf(s, {}, i)
             a == Asked(t, pending, i)
  <2>1. ReportsOf(t, R, i) = Q
    BY <1>6 DEF ReportsOf
  <2>2. Account(s, i, a, Q)
    BY <1>4 DEF Account
  <2>3. i \in Active(b) => Q = {}
    BY DEF ReportsOf
  <2>4. \A r \in Q : r.id = i
    BY DEF ReportsOf
  <2> HIDE DEF Q, a
  <2>5. /\ i \in Active(c) => i \in Active(b) /\ c.filled[i] = b.filled[i]
        /\ "vanish" \notin Verdicts /\ i \in Active(b) => i \in Active(c)
    BY <1>2, <1>6
  <2>6. \A r \in Q : Continues(t, r)
    BY <1>3, <2>2, <2>3, <2>4, <2>5 DEF Account, Continues
  <2>7. i \in Active(c) => s.om.status[i] \in Live /\ c.filled[i] = s.om.filled[i]
    BY <2>2, <2>3, <2>5 DEF Account
  <2>8. Unpaired /\ NeverVanishes /\ s.om.status[i] \in Live =>
          i \in Active(c) \/ \E r \in Q : r.status \in Finished
    BY <2>2, <2>5 DEF Account, NeverVanishes
  <2>9. Account(t, i, a, Q)
    BY <1>1, <1>3, <2>2, <2>6, <2>7, <2>8, BookAccount
  <2> QED BY <2>1, <2>9 DEF a
<1>7. \A i \in OrderIds : Account(t, i, Asked(t, pending, i), ReportsOf(t, R, i))
  BY <1>5, <1>6
<1>8. Even(t, pending, R)
  BY <1>1, <1>7 DEF Even
<1> QED BY <1>8 DEF R

\* Reports that waited enter the channel; the ledger may book trades meanwhile.
LEMMA ReportsEnqueuedEven ==
    ASSUME NEW s, NEW pending, NEW R \in Seq(ReportType), Good(s, pending, ToSet(R)),
           Even(s, pending, ToSet(R)),
           NEW t \in StateType, t.om = s.om, t.ord = s.ord, t.channel = s.channel \o R,
           t.book = s.book, t.suppressed = s.suppressed,
           \A i \in OrderIds : Alike(s, t, i)
    PROVE  Even(t, pending, {})
<1>1. s \in StateType /\ Plain(t)
  BY DEF Good, Even, Plain
<1>2. ToSet(t.channel) = ToSet(s.channel) \cup ToSet(R)
  <2>1. s.channel \in Seq(MessageType) /\ R \in Seq(MessageType)
    BY <1>1 DEF StateType, MessageType
  <2> QED BY <2>1, ToSetConcat
<1>3. \A r \in ToSet(R) : r.kind = "Report"
  BY MessageIds DEF ReportType
<1>4. \A i \in OrderIds : Asked(t, pending, i) <=> Asked(s, pending, i)
  BY <1>2, <1>3 DEF Asked
<1>5. \A i \in OrderIds : ReportsOf(t, {}, i) = ReportsOf(s, ToSet(R), i)
  BY <1>2 DEF ReportsOf
<1> QED BY <1>1, <1>4, <1>5, EvenMoved

-----------------------------------------------------------------------------
(***************************************************************************)
(* Requests that are answered.                                             *)
(***************************************************************************)

\* A request is answered, or still waits: its order may be reduced.
LEMMA AnsweredAccount ==
    ASSUME NEW s \in StateType, NEW t \in StateType, NEW i \in OrderIds, s.ord[i] \in Order,
           s.om.status[i] = Absent, t.om = s.om, t.ord[i] \in Order,
           t.ord[i].tif = s.ord[i].tif, t.ord[i].offset = s.ord[i].offset,
           Traded(t, i) = Traded(s, i),
           t.ledger.rejected[i] + t.ledger.rejectsTold[i]
             = s.ledger.rejected[i] + s.ledger.rejectsTold[i],
           t.ledger.untold[i] + t.ledger.told[i] = t.ledger.booked[i],
           i \notin Active(t.book), Account(s, i, TRUE, {}),
           NEW asked, NEW R, asked \/ R # {},
           \A r \in R : r.id = i /\ r.status = "Rejected" /\ r.trade = 0 /\ r.filled = 0
    PROVE  Account(t, i, asked, R)
<1>1. s.om.history[i] = <<>> /\ s.om.filled[i] = 0
  BY DEF Account, Kept
<1>2. /\ Shown(s, i).status = Absent /\ Shown(s, i).filled = 0
      /\ Shown(t, i).status = Absent /\ Shown(t, i).filled = 0
  BY <1>1, Amounts
<1>3. Kept(t, i)
  BY <1>1, Amounts, StatusFacts DEF Kept, Live, Absent, Account
<1>4. Balanced(s, i) => Balanced(t, i)
  <2> HAVE Balanced(s, i)
  <2>1. Traded(s, i) <= 0 /\ Traded(s, i) \in Nat
    BY <1>2, Amounts DEF Balanced, Absent
  <2>2. Traded(t, i) = 0
    BY <2>1
  <2> QED BY <1>2, <2>2 DEF Balanced
<1>5. Noted(s, i) => Noted(t, i)
  BY <1>2 DEF Noted
<1>6. t.om.status[i] \notin Live
  BY StatusFacts DEF Live, Absent
<1>7. \A r \in R : Continues(t, r)
  BY <1>1, StatusFacts DEF Continues, Finished, Absent
<1> QED BY <1>1, <1>3, <1>4, <1>5, <1>6, <1>7 DEF Account

\* The requests ids of the pending ones are checked; the rest waits.
LEMMA RequestsCheckedEven ==
    ASSUME NEW s, NEW pending, Good(s, pending, {}), Even(s, pending, {}), s.channel = <<>>,
           NEW ids \in Seq(OrderIds), IsInjective(ids), NEW rest \in Seq(OrderIds),
           ToSet(ids) \cup ToSet(rest) = ToSet(pending), ToSet(ids) \cap ToSet(rest) = {},
           NEW risk, \A i \in ToSet(ids) : risk[i] \in Nat, NEW at \in Nat,
           NEW t \in StateType, t.om = s.om, t.book = s.book,
           t.channel = Answers(ids, risk, at), t.ord = Reduced(s.ord, ids, risk),
           t.suppressed = s.suppressed,
           \A i \in OrderIds : Traded(t, i) = Traded(s, i),
           \A i \in OrderIds : t.ledger.rejected[i] + t.ledger.rejectsTold[i]
             = s.ledger.rejected[i] + s.ledger.rejectsTold[i],
           \A i \in OrderIds : t.ledger.untold[i] + t.ledger.told[i] = t.ledger.booked[i]
    PROVE  Even(t, rest, {})
<1>1. s \in StateType /\ Plain(t) /\ ToSet(pending) \subseteq OrderIds
  BY MessageIds DEF Good, Even, Plain
<1>2. s.ord \in [OrderIds -> Order \cup {NoOrder}] /\ \A i \in ToSet(ids) : s.ord[i] \in Order
  BY <1>1 DEF StateType, Good, RequestSound
<1>3. /\ \A i \in OrderIds \ ToSet(ids) : t.ord[i] = s.ord[i]
      /\ \A i \in OrderIds : /\ t.ord[i] \in Order <=> s.ord[i] \in Order
                             /\ s.ord[i] \in Order => /\ t.ord[i].offset = s.ord[i].offset
                                                      /\ t.ord[i].tif = s.ord[i].tif
  <2> DEFINE o == s.ord
             new == t.ord
  <2>1. o \in [OrderIds -> Order \cup {NoOrder}] /\ \A i \in ToSet(ids) : o[i] \in Order
    BY <1>2
  <2>2. new = Reduced(o, ids, risk)
    OBVIOUS
  <2> HIDE DEF o, new
  <2>3. /\ \A i \in OrderIds \ ToSet(ids) : new[i] = o[i]
        /\ \A i \in OrderIds : /\ new[i] \in Order <=> o[i] \in Order
                               /\ o[i] \in Order => /\ new[i].offset = o[i].offset
                                                    /\ new[i].tif = o[i].tif
    BY <2>1, <2>2, ReducedProperties
  <2> QED BY <2>3 DEF o, new
<1> DEFINE c == t.channel
<1>4. DOMAIN c = DOMAIN ids /\
      \A k \in DOMAIN c : c[k] = IF risk[ids[k]] = 0 THEN Report(ids[k], "Rejected", 0, 0, at)
                                 ELSE [kind |-> "Validated", id |-> ids[k]]
  BY DEF Answers
<1> HIDE DEF c
<1>5. \A k \in DOMAIN c : /\ c[k].id = ids[k]
                          /\ c[k].kind = IF risk[ids[k]] = 0 THEN "Report" ELSE "Validated"
                          /\ c[k].kind = "Report" => c[k].status = "Rejected" /\ c[k].trade = 0
                                                     /\ c[k].filled = 0
  BY <1>4 DEF Report
<1>6. /\ \A m \in ToSet(c) : /\ m.id \in ToSet(ids)
                             /\ m.kind = "Report" => m.status = "Rejected" /\ m.trade = 0
                                                     /\ m.filled = 0
      /\ \A i \in ToSet(ids) : \E m \in ToSet(c) : m.id = i
  BY <1>4, <1>5 DEF ToSet
<1>7. ToSet(s.channel) = {}
  BY DEF ToSet
<1>8. \A i \in OrderIds : Account(s, i, Asked(s, pending, i), ReportsOf(s, {}, i))
  BY DEF Even
<1>9. ASSUME NEW i \in OrderIds, i \in ToSet(pending)
      PROVE  Account(t, i, Asked(t, rest, i), ReportsOf(t, {}, i))
  <2>1. Asked(s, pending, i)
    BY <1>9 DEF Asked
  <2>2. ReportsOf(s, {}, i) = {} /\ s.ord[i] \in Order /\ s.om.status[i] = Absent
        /\ i \notin Active(s.book)
    BY <1>9, <2>1, MessageFacts
  <2>3. Account(s, i, TRUE, {})
    BY <1>8, <2>1, <2>2 DEF Account
  <2> DEFINE a == Asked(t, rest, i)
             R == ReportsOf(t, {}, i)
  <2>4. \A r \in R : r.id = i /\ r.status = "Rejected" /\ r.trade = 0 /\ r.filled = 0
    BY <1>6 DEF ReportsOf, c
  <2>5. a \/ R # {}
    <3>1. CASE i \in ToSet(rest)
      BY <3>1 DEF Asked
    <3>2. CASE i \in ToSet(ids)
      <4>1. PICK m \in ToSet(c) : m.id = i
        BY <1>6, <3>2
      <4>2. m.kind # "Report" \/ m \in ReportsOf(t, {}, i)
        BY <4>1 DEF ReportsOf, c
      <4> QED BY <4>1, <4>2 DEF Asked, c
    <3> QED BY <1>9, <3>1, <3>2
  <2> HIDE DEF a, R
  <2>6. Account(t, i, a, R)
    BY <1>1, <1>3, <2>2, <2>3, <2>4, <2>5, AnsweredAccount
  <2> QED BY <2>6 DEF a, R
<1>10. ASSUME NEW i \in OrderIds, i \notin ToSet(pending)
       PROVE  Account(t, i, Asked(t, rest, i), ReportsOf(t, {}, i))
  <2>1. ~Asked(s, pending, i) /\ ReportsOf(s, {}, i) = {}
    BY <1>7, <1>10 DEF Asked, ReportsOf
  <2>2. \A m \in ToSet(c) : m.id # i
    BY <1>6, <1>10
  <2>3. ~Asked(t, rest, i) /\ ReportsOf(t, {}, i) = {} /\ t.ord[i] = s.ord[i]
    BY <1>3, <1>10, <2>2 DEF Asked, ReportsOf, c
  <2>4. Account(s, i, FALSE, {})
    BY <1>8, <2>1 DEF Account
  <2>5. Alike(s, t, i)
    BY <2>3 DEF Alike
  <2>6. Account(t, i, FALSE, {})
    BY <1>1, <2>4, <2>5, AlikeAccount
  <2> QED BY <2>3, <2>6 DEF Account
<1>11. \A i \in OrderIds : Account(t, i, Asked(t, rest, i), ReportsOf(t, {}, i))
  BY <1>9, <1>10
<1> QED BY <1>1, <1>11 DEF Even

-----------------------------------------------------------------------------
(***************************************************************************)
(* The callbacks of the strategy.                                          *)
(***************************************************************************)

\* A working order that the strategy cancels.
LEMMA WithdrawnAccount ==
    ASSUME NEW s \in StateType, NEW t \in StateType, NEW i \in OrderIds,
           s.om.status[i] \in Live, t.om.status[i] = "Cancelled",
           t.om.filled[i] = s.om.filled[i], t.om.history[i] = s.om.history[i],
           t.ord[i] = s.ord[i], Traded(t, i) = Traded(s, i),
           t.ledger.rejected[i] + t.ledger.rejectsTold[i]
             = s.ledger.rejected[i] + s.ledger.rejectsTold[i],
           t.ledger.untold[i] + t.ledger.told[i] = t.ledger.booked[i],
           i \notin Active(t.book), NEW asked, Account(s, i, asked, {}),
           NEW r \in ReportType, r.id = i, r.status = "Cancelled", r.trade = 0,
           r.filled = s.om.filled[i]
    PROVE  Account(t, i, asked, {r})
<1>1. s.om.history[i] = <<>>
  BY StatusFacts DEF Account, Kept, Absent
<1>2. /\ Shown(s, i).status = s.om.status[i] /\ Shown(s, i).filled = s.om.filled[i]
      /\ Shown(t, i).status = "Cancelled" /\ Shown(t, i).filled = s.om.filled[i]
  BY <1>1, Amounts
<1>3. Kept(t, i)
  BY <1>1, Amounts, StatusFacts DEF Kept, Live, Finished, Absent, Account
<1>4. s.om.status[i] # "Rejected"
  BY DEF Live
<1>5. (Balanced(s, i) => Balanced(t, i)) /\ (Noted(s, i) => Noted(t, i))
  BY <1>2, <1>4 DEF Balanced, Noted
<1>6. Continues(t, r)
  BY <1>1, StatusFacts DEF Continues, Absent
<1> DEFINE R == {r}
<1>7. R # {} /\ \A q \in R : Continues(t, q)
  BY <1>6
<1> HIDE DEF R
<1>8. Account(t, i, asked, R)
  BY <1>1, <1>3, <1>5, <1>7, StatusFacts DEF Account, Live
<1> QED BY <1>8 DEF R

\* What a ledger says of each order stays, whoever holds it.
Conserved(l, k) ==
    \A i \in OrderIds : /\ k.unbooked[i] + k.booked[i] = l.unbooked[i] + l.booked[i]
                        /\ k.rejected[i] + k.rejectsTold[i] = l.rejected[i] + l.rejectsTold[i]
                        /\ k.untold[i] + k.told[i] = k.booked[i]

\* t is s with the orders of N new and requested, and those of S cancelled, told
\* with the reports C.
Submitted(s, t, S, N, C) ==
    /\ \A i \in S : i \in OrderIds /\ s.om.status[i] \in Live
    /\ C \subseteq ToSet(t.channel)
    /\ \A x \in ToSet(t.channel) : x \in C \/ (x.kind = "Request" /\ x.id \in N)
    /\ \A j \in N : \E x \in ToSet(t.channel) : x.kind = "Request" /\ x.id = j
    /\ \A r \in C : /\ r \in ReportType /\ r.id \in S /\ r.status = "Cancelled"
                     /\ r.trade = 0 /\ r.filled = s.om.filled[r.id]
    /\ \A r, q \in C : r.id = q.id => r = q
    /\ \A i \in S : \E r \in C : r.id = i
    /\ t.om.history = s.om.history /\ t.om.filled = s.om.filled
    /\ \A i \in OrderIds : t.om.status[i] = IF i \in S THEN "Cancelled" ELSE s.om.status[i]
    /\ Active(t.book) = Active(s.book) \ S /\ t.book.filled = s.book.filled
    /\ \A i \in OrderIds :
          IF i \in N
          THEN /\ s.ord[i] \notin Order /\ t.ord[i] \in Order
               /\ t.ord[i].tif = "Day" => ~NoDayOrders /\ (NoNextBarDay => t.ord[i].offset = 0)
          ELSE t.ord[i] = s.ord[i]
    /\ Conserved(s.ledger, t.ledger)

LEMMA SubmittedEven ==
    ASSUME NEW s, Good(s, <<>>, {}), Even(s, <<>>, {}), s.channel = <<>>,
           NEW t \in StateType, Plain(t), NEW S, NEW N, NEW C, Submitted(s, t, S, N, C)
    PROVE  Even(t, <<>>, {})
<1>1. s \in StateType
  BY DEF Good
<1>2. \A r \in C : r.kind = "Report"
  BY DEF ReportType, Submitted
<1>3. \A i \in OrderIds : ReportsOf(t, {}, i) = {r \in C : r.id = i}
  BY <1>2, "Request" # "Report" DEF ReportsOf, Submitted
<1>4. \A i \in OrderIds : Asked(t, <<>>, i) <=> i \in N
  <2>1. ToSet(<<>>) = {}
    BY DEF ToSet
  <2> QED BY <1>2, <2>1, "Request" # "Report" DEF Asked, Submitted
<1>5. \A i \in OrderIds : /\ ReportsOf(s, {}, i) = {} /\ ~Asked(s, <<>>, i)
                          /\ Account(s, i, FALSE, {})
  <2>1. ToSet(<<>>) = {}
    BY DEF ToSet
  <2>2. \A i \in OrderIds : ReportsOf(s, {}, i) = {} /\ ~Asked(s, <<>>, i)
    BY <2>1 DEF ReportsOf, Asked
  <2> QED BY <2>2 DEF Even, Account
<1>6. \A i \in OrderIds : /\ Traded(t, i) = Traded(s, i)
                          /\ t.ledger.rejected[i] + t.ledger.rejectsTold[i]
                               = s.ledger.rejected[i] + s.ledger.rejectsTold[i]
                          /\ t.ledger.untold[i] + t.ledger.told[i] = t.ledger.booked[i]
  BY DEF Conserved, Traded, Submitted
<1>7. ASSUME NEW i \in OrderIds, i \in N
      PROVE  Account(t, i, Asked(t, <<>>, i), ReportsOf(t, {}, i))
  <2>1. t.ord[i] \in Order /\ s.ord[i] \notin Order
        /\ (t.ord[i].tif = "Day" => ~NoDayOrders /\ (NoNextBarDay => t.ord[i].offset = 0))
    BY <1>7 DEF Submitted
  <2>2. s.om.status[i] = Absent /\ i \notin Active(s.book) /\ i \notin S
    BY <2>1, StatusFacts DEF Good, BookSound, Submitted
  <2>3. t.om.status[i] = s.om.status[i] /\ i \notin Active(t.book)
    BY <2>2 DEF Submitted
  <2>6. t.om.filled[i] = s.om.filled[i] /\ t.om.history[i] = s.om.history[i]
    BY DEF Submitted
  <2>5. Account(t, i, TRUE, {})
    BY <1>1, <1>5, <1>6, <2>1, <2>2, <2>3, <2>6, NewAccount
  <2>7. ReportsOf(t, {}, i) = {} /\ Asked(t, <<>>, i)
    BY <1>3, <1>4, <1>7, <2>2 DEF Submitted
  <2> QED BY <2>5, <2>7 DEF Account
<1>8. ASSUME NEW i \in OrderIds, i \in S
      PROVE  Account(t, i, Asked(t, <<>>, i), ReportsOf(t, {}, i))
  <2>1. s.ord[i] \in Order
    BY <1>8, StatusFacts DEF Good, Submitted
  <2>2. PICK r \in C : r.id = i
    BY <1>8 DEF Submitted
  <2>3. ReportsOf(t, {}, i) = {r} /\ ~Asked(t, <<>>, i) /\ t.ord[i] = s.ord[i]
    BY <1>3, <1>4, <2>1, <2>2 DEF Submitted
  <2>4. /\ s.om.status[i] \in Live /\ t.om.status[i] = "Cancelled"
        /\ t.om.filled[i] = s.om.filled[i] /\ t.om.history[i] = s.om.history[i]
        /\ i \notin Active(t.book)
    BY <1>8 DEF Submitted
  <2>5. /\ r \in ReportType /\ r.status = "Cancelled" /\ r.trade = 0
        /\ r.filled = s.om.filled[i]
    BY <2>2 DEF Submitted
  <2>6. Account(t, i, FALSE, {r})
    BY <1>1, <1>5, <1>6, <2>2, <2>3, <2>4, <2>5, WithdrawnAccount
  <2> QED BY <2>3, <2>6 DEF Account
<1>9. ASSUME NEW i \in OrderIds, i \notin S, i \notin N
      PROVE  Account(t, i, Asked(t, <<>>, i), ReportsOf(t, {}, i))
  <2>1. ReportsOf(t, {}, i) = {} /\ ~Asked(t, <<>>, i)
    BY <1>3, <1>4, <1>9 DEF Submitted
  <2>2. Alike(s, t, i)
    BY <1>6, <1>9 DEF Alike, Submitted
  <2>3. Account(t, i, FALSE, {})
    BY <1>1, <1>5, <2>2, AlikeAccount
  <2> QED BY <2>1, <2>3 DEF Account
<1>10. \A i \in OrderIds : Account(t, i, Asked(t, <<>>, i), ReportsOf(t, {}, i))
  BY <1>7, <1>8, <1>9
<1> QED BY <1>10 DEF Even

\* A callback submits orders, binds them and cancels others.
LEMMA CallbackEven ==
    ASSUME NEW s, Good(s, <<>>, {}), Even(s, <<>>, {}), s.om = om, s.book = book, s.ord = ord,
           s.channel = <<>>, channel = <<>>, Now \in Nat, NEW m \in Moves,
           NEW S \in SUBSET {i \in OrderIds : om.status[i] \in Live}, Room(m), Callback(m, S),
           NEW l \in LedgerType, Conserved(s.ledger, l),
           NEW t \in StateType, t.om = om', t.book = book', t.ord = ord', t.channel = channel',
           t.ledger = l, t.suppressed = {}
    PROVE  /\ Even(t, <<>>, {})
           /\ \A i \in OrderIds : Lives(om, om', ord[i].qty, i)
<1> DEFINE n == Cardinality(Used(ord))
           k == Len(m.orders)
           p == Requests(n, k)
           c == Cancellations(S, Now)
           bound == LinkOrders(m, n)
<1>1. /\ s \in StateType /\ om \in RegistryType /\ ord \in [OrderIds -> Order \cup {NoOrder}]
      /\ book \in BookType /\ BookSound(book, ord)
  BY DEF Good, StateType
<1>2. t \in StateType
  OBVIOUS
<1>3. /\ t.om = om' /\ t.book = book' /\ t.ord = ord' /\ t.channel = channel'
      /\ t.ledger = l /\ t.suppressed = {}
  OBVIOUS
<1>4. k \in Nat /\ n \in Nat /\ n + k <= Cardinality(OrderIds) /\ n = Drawn(s)
      /\ Cardinality(OrderIds) \in Nat
  <2>1. k \in Nat /\ n = Drawn(s) /\ Drawn(s) \in Nat
    BY <1>1, MovesAssumption, UsedFacts DEF Drawn
  <2>2. IsFiniteSet(m.exits)
    <3>1. m.exits \in SUBSET Exits
      BY MovesAssumption
    <3>2. IsFiniteSet({}) /\ IsFiniteSet({} \cup {"StopLoss"})
      BY FS_EmptySet, FS_AddElement
    <3>3. IsFiniteSet(({} \cup {"StopLoss"}) \cup {"TakeProfit"})
      BY <3>2, FS_AddElement
    <3>4. ({} \cup {"StopLoss"}) \cup {"TakeProfit"} = Exits
      BY DEF Exits
    <3> QED BY <3>1, <3>3, <3>4, FS_Subset
  <2> DEFINE a == Cardinality(Planned(om))
             b == Cardinality(m.exits)
             N == Cardinality(OrderIds)
  <2>3. a \in Nat /\ b \in Nat /\ N \in Nat
    BY <1>1, <2>2, FS_CardinalityType, PlannedFacts, IdFacts
  <2>4. n + k + a + b <= N
    BY DEF Room
  <2>5. n \in Nat
    BY <2>1
  <2> HIDE DEF a, b, n, k, N
  <2>6. n + k <= N
    BY <2>1, <2>3, <2>4, <2>5
  <2> QED BY <2>1, <2>3, <2>5, <2>6 DEF N
<1>5. /\ bound \in RegistryType /\ bound.status = om.status /\ bound.filled = om.filled
      /\ bound.history = om.history /\ (~m.oco => bound.oco = om.oco)
      /\ \A i \in OrderIds : bound.plans[i] \in {om.plans[i], m.exits}
  <2> HIDE DEF n
  <2>1. n \in Nat /\ n + Len(m.orders) <= Cardinality(OrderIds)
    BY <1>4
  <2>2. bound = LinkOrders(m, n)
    OBVIOUS
  <2> HIDE DEF bound
  <2> QED BY <1>1, <2>1, <2>2, LinkOrdersProperties
<1>6. t.om = CancelEach(bound, S) /\ t.book = OnCancel(book, S)
  BY <1>3 DEF Callback
<1> HIDE DEF bound
<1>7. /\ t.om.history = om.history /\ t.om.filled = om.filled /\ t.om.plans = bound.plans
      /\ \A i \in OrderIds : t.om.status[i] = IF i \in S THEN "Cancelled" ELSE om.status[i]
      /\ \A i \in OrderIds : t.om.oco.groupOf[i] \in {bound.oco.groupOf[i], NoGroup}
  <2> DEFINE om2 == t.om
  <2>1. om2 = CancelEach(bound, S)
    BY <1>6
  <2> HIDE DEF om2
  <2>2. Loosens(bound, om2) /\ om2.plans = bound.plans /\ om2.history = bound.history
        /\ om2.filled = bound.filled
        /\ om2.status = [i \in OrderIds |-> IF i \in S /\ bound.status[i] \in Live
                                             THEN "Cancelled" ELSE bound.status[i]]
    BY <1>5, <2>1, CancelEachLoosens
  <2>3. \A i \in OrderIds : om2.status[i] = IF i \in S THEN "Cancelled" ELSE om.status[i]
    BY <1>5, <2>2
  <2> QED BY <1>5, <2>2, <2>3 DEF Loosens, om2
<1>8. Active(t.book) = Active(book) \ S /\ t.book.filled = book.filled
  <2> DEFINE b2 == t.book
  <2>1. b2 = OnCancel(book, S)
    BY <1>6
  <2> HIDE DEF b2
  <2>2. Active(b2) = Active(book) \ S /\ b2.filled = book.filled
    BY <1>1, <2>1, OnCancelProperties
  <2> QED BY <2>2 DEF b2
<1>9. \A i \in OrderIds : IF i \in n + 1 .. n + k
                          THEN t.ord[i] \in Order /\ \E j \in DOMAIN m.orders :
                                             /\ t.ord[i].offset = m.orders[j].offset
                                             /\ t.ord[i].tif = m.orders[j].tif
                          ELSE t.ord[i] = ord[i]
  <2> DEFINE new == t.ord
  <2>1. new = WithNew(m, n)
    BY <1>3 DEF Callback, WithNew
  <2>2. n + Len(m.orders) <= Cardinality(OrderIds) /\ n \in Nat
    BY <1>4
  <2> HIDE DEF new, n
  <2>3. /\ \A i \in OrderIds : IF i \in n + 1 .. n + Len(m.orders)
                                  THEN new[i] \in Order /\ new[i].created = Now
                                       /\ \E j \in DOMAIN m.orders :
                                             /\ new[i].offset = m.orders[j].offset
                                             /\ new[i].tif = m.orders[j].tif
                                  ELSE new[i] = ord[i]
    BY <1>1, <2>1, <2>2, CallbackOrders
  <2> QED BY <2>3 DEF new
<1>10. ToSet(p) = {[kind |-> "Request", id |-> j] : j \in n + 1 .. n + k} /\ p \in Seq(MessageType)
  <2> HIDE DEF n, k
  <2>1. \A j \in 1 .. k : n + j \in n + 1 .. n + k
    BY <1>4
  <2>2. \A j \in n + 1 .. n + k : j - n \in 1 .. k /\ n + (j - n) = j
    BY <1>4
  <2>3. \A x \in ToSet(p) : \E j \in n + 1 .. n + k : x = [kind |-> "Request", id |-> j]
    BY <2>1 DEF Requests, ToSet
  <2>4. ASSUME NEW j \in n + 1 .. n + k PROVE [kind |-> "Request", id |-> j] \in ToSet(p)
    <3>1. p[j - n] = [kind |-> "Request", id |-> j] /\ j - n \in DOMAIN p
      BY <2>2 DEF Requests
    <3> QED BY <3>1 DEF ToSet
  <2>5. n + 1 .. n + k \subseteq OrderIds
    BY <1>4, IdFacts
  <2>6. p \in Seq(MessageType)
    BY <2>1, <2>5, <1>4 DEF Requests, MessageType
  <2> QED BY <2>3, <2>4, <2>6
<1>11. /\ c \in Seq(ReportType) /\ c \in Seq(MessageType)
       /\ \A r \in ToSet(c) : r \in ReportType /\ r.id \in S /\ r.status = "Cancelled"
                              /\ r.trade = 0 /\ r.filled = om.filled[r.id]
       /\ \A r, q \in ToSet(c) : r.id = q.id => r = q
       /\ \A i \in S : \E r \in ToSet(c) : r.id = i
  <2>1. S \in SUBSET OrderIds
    OBVIOUS
  <2>2. /\ c \in Seq(ReportType)
        /\ \A j \in DOMAIN c : c[j].id \in S /\ c[j].status = "Cancelled" /\ c[j].trade = 0
                               /\ c[j].filled = om.filled[c[j].id]
        /\ \A i, j \in DOMAIN c : c[i].id = c[j].id => i = j
        /\ \A i \in S : \E j \in DOMAIN c : c[j].id = i
    BY <1>1, <2>1, CancellationsProperties
  <2> HIDE DEF c
  <2>3. \A j \in DOMAIN c : c[j] \in ReportType /\ c[j] \in MessageType
    BY <2>2 DEF MessageType
  <2>4. c \in Seq(MessageType)
    BY <2>2, <2>3
  <2>5. \A r \in ToSet(c) : \E j \in DOMAIN c : c[j] = r
    BY DEF ToSet
  <2>6. \A j \in DOMAIN c : c[j] \in ToSet(c)
    BY DEF ToSet
  <2> QED BY <2>2, <2>3, <2>4, <2>5, <2>6
<1>12. ToSet(t.channel) = ToSet(p) \cup ToSet(c)
  <2>1. p = [j \in DOMAIN m.orders |-> [kind |-> "Request", id |-> n + j]]
    <3>1. DOMAIN m.orders = 1 .. Len(m.orders)
      BY MovesAssumption
    <3> QED BY <3>1 DEF Requests
  <2>2. channel' = (<<>> \o p) \o c
    BY <2>1 DEF Callback, Cancellations
  <2> HIDE DEF p, c
  <2>3. channel' = p \o c
    BY <2>2, <1>10
  <2> QED BY <1>3, <1>10, <1>11, <2>3, ToSetConcat
<1> HIDE DEF c, p
<1> DEFINE N == n + 1 .. n + k
           C == ToSet(c)
<1>13. \A i \in N : i \in OrderIds => s.ord[i] \notin Order
  <2>1. Used(s.ord) = 1 .. Drawn(s)
    BY DEF Good
  <2>2. \A j \in OrderIds : s.ord[j] \in Order => j \in 1 .. Drawn(s)
    BY <1>1, <2>1, UsedFacts
  <2> HIDE DEF n, k
  <2>3. \A j \in n + 1 .. n + k : j \notin 1 .. Drawn(s)
    BY <1>4
  <2> QED BY <2>2, <2>3
<1>14. \A i \in OrderIds :
          IF i \in N
          THEN /\ s.ord[i] \notin Order /\ t.ord[i] \in Order
               /\ t.ord[i].tif = "Day" => ~NoDayOrders /\ (NoNextBarDay => t.ord[i].offset = 0)
          ELSE t.ord[i] = s.ord[i]
  <2> SUFFICES ASSUME NEW i \in OrderIds
               PROVE  IF i \in N
                      THEN /\ s.ord[i] \notin Order /\ t.ord[i] \in Order
                           /\ t.ord[i].tif = "Day" => ~NoDayOrders /\ (NoNextBarDay => t.ord[i].offset = 0)
                      ELSE t.ord[i] = s.ord[i]
    OBVIOUS
  <2>1. CASE i \in N
    <3>1. PICK j \in DOMAIN m.orders : t.ord[i].offset = m.orders[j].offset
                                       /\ t.ord[i].tif = m.orders[j].tif
      BY <1>9, <2>1
    <3>2. t.ord[i] \in Order /\ s.ord[i] \notin Order
      BY <1>9, <1>13, <2>1
    <3> QED BY <2>1, <3>1, <3>2 DEF NoDayOrders, NoNextBarDay
  <2>2. CASE i \notin N
    BY <1>9, <2>2
  <2> QED BY <2>1, <2>2
<1>15. /\ C \subseteq ToSet(t.channel)
       /\ \A x \in ToSet(t.channel) : x \in C \/ (x.kind = "Request" /\ x.id \in N)
       /\ \A j \in N : \E x \in ToSet(t.channel) : x.kind = "Request" /\ x.id = j
  <2>1. \A x \in ToSet(p) : x.kind = "Request" /\ x.id \in N
    BY <1>10
  <2>2. ASSUME NEW j \in N PROVE \E x \in ToSet(p) : x.kind = "Request" /\ x.id = j
    <3>1. [kind |-> "Request", id |-> j] \in ToSet(p)
      BY <1>10
    <3> QED BY <3>1
  <2> HIDE DEF N
  <2> QED BY <1>12, <2>1, <2>2
<1>16. Plain(t)
  <2>1. Plain(s)
    BY DEF Even
  <2>2. Unpaired => \A i \in OrderIds : t.om.oco.groupOf[i] = NoGroup /\ t.om.plans[i] # Exits
    BY <1>5, <1>7, <2>1 DEF Plain, Unpaired
  <2>3. NoBrackets => \A i \in OrderIds : t.om.plans[i] = {}
    BY <1>5, <1>7, <2>1 DEF Plain, NoBrackets
  <2> QED BY <1>3, <2>2, <2>3 DEF Plain
<1>17. /\ \A i \in S : i \in OrderIds /\ s.om.status[i] \in Live
       /\ t.om.history = s.om.history /\ t.om.filled = s.om.filled
       /\ \A i \in OrderIds : t.om.status[i] = IF i \in S THEN "Cancelled" ELSE s.om.status[i]
       /\ Active(t.book) = Active(s.book) \ S /\ t.book.filled = s.book.filled
       /\ Conserved(s.ledger, t.ledger)
  BY <1>3, <1>7, <1>8
<1>18. /\ \A r \in C : r \in ReportType /\ r.id \in S /\ r.status = "Cancelled"
                       /\ r.trade = 0 /\ r.filled = s.om.filled[r.id]
       /\ \A r, q \in C : r.id = q.id => r = q
       /\ \A i \in S : \E r \in C : r.id = i
  BY <1>11
<1> HIDE DEF N, C
<1>19. Submitted(s, t, S, N, C)
  BY <1>14, <1>15, <1>17, <1>18 DEF Submitted
<1>20. Even(t, <<>>, {})
  BY <1>2, <1>16, <1>19, SubmittedEven
<1>21. ASSUME NEW i \in OrderIds PROVE Lives(om, om', ord[i].qty, i)
  <2> DEFINE u == t.om
  <2>1. /\ u.history[i] = om.history[i] /\ u.filled[i] = om.filled[i] /\ u = om'
        /\ u.status[i] = IF i \in S THEN "Cancelled" ELSE om.status[i]
    BY <1>7
  <2>2. CASE i \in S
    <3>1. om.status[i] \in Live /\ om.status[i] # Absent
      BY <2>2, StatusFacts
    <3>2. Kept(s, i)
      BY DEF Even, Account
    <3>3. om.history[i] = <<>>
      BY <3>1, <3>2 DEF Kept
    <3> HIDE DEF u
    <3> QED BY <2>1, <2>2, <3>1, <3>3, CancelledLives
  <2>3. CASE i \notin S
    <3> HIDE DEF u
    <3> QED BY <2>1, <2>3, RestLives DEF SameRow
  <2> QED BY <2>2, <2>3
<1> QED BY <1>20, <1>21

-----------------------------------------------------------------------------
(***************************************************************************)
(* The ledger, the cleanup and the settlement.                             *)
(***************************************************************************)

LEMMA FlushConserves ==
    ASSUME NEW l \in LedgerType, \A i \in OrderIds : l.untold[i] + l.told[i] = l.booked[i]
    PROVE  Conserved(l, Flush(l))
<1> DEFINE f == Flush(l)
<1>1. /\ \A i \in OrderIds : f.booked[i] = l.booked[i] + l.unbooked[i]
      /\ \A i \in OrderIds : f.untold[i] = l.untold[i] + l.unbooked[i]
      /\ f.told = l.told /\ f.rejected = l.rejected /\ f.rejectsTold = l.rejectsTold
      /\ \A i \in OrderIds : f.unbooked[i] = 0
  BY FlushProperties DEF None
<1> HIDE DEF f
<1>2. \A i \in OrderIds : /\ l.unbooked[i] \in Nat /\ l.booked[i] \in Nat
                          /\ l.untold[i] \in Nat /\ l.told[i] \in Nat
  BY DEF LedgerType, Counts
<1>3. Conserved(l, f)
  <2> SUFFICES ASSUME NEW i \in OrderIds
               PROVE  /\ f.unbooked[i] + f.booked[i] = l.unbooked[i] + l.booked[i]
                      /\ f.untold[i] + f.told[i] = f.booked[i]
    BY <1>1 DEF Conserved
  <2>1. f.unbooked[i] = 0 /\ f.booked[i] = l.booked[i] + l.unbooked[i]
    BY <1>1
  <2>2. f.untold[i] = l.untold[i] + l.unbooked[i] /\ f.told[i] = l.told[i]
    BY <1>1
  <2> QED BY <2>1, <2>2, <1>2
<1> QED BY <1>3 DEF f

LEMMA TellConserves ==
    ASSUME NEW l \in LedgerType, \A i \in OrderIds : l.untold[i] + l.told[i] = l.booked[i]
    PROVE  Conserved(l, Tell(l))
<1> DEFINE f == Tell(l)
<1>1. /\ f.unbooked = l.unbooked /\ f.booked = l.booked
      /\ \A i \in OrderIds : f.untold[i] = 0 /\ f.rejected[i] = 0
      /\ \A i \in OrderIds : f.told[i] = l.told[i] + l.untold[i]
      /\ \A i \in OrderIds : f.rejectsTold[i] = l.rejectsTold[i] + l.rejected[i]
  BY TellProperties DEF None
<1> HIDE DEF f
<1>2. \A i \in OrderIds : /\ l.unbooked[i] \in Nat /\ l.booked[i] \in Nat
                          /\ l.untold[i] \in Nat /\ l.told[i] \in Nat
                          /\ l.rejected[i] \in Nat /\ l.rejectsTold[i] \in Nat
  BY DEF LedgerType, Counts
<1>3. Conserved(l, f)
  <2> SUFFICES ASSUME NEW i \in OrderIds
               PROVE  /\ f.rejected[i] + f.rejectsTold[i] = l.rejected[i] + l.rejectsTold[i]
                      /\ f.untold[i] + f.told[i] = f.booked[i]
    BY <1>1 DEF Conserved
  <2>1. f.rejected[i] = 0 /\ f.rejectsTold[i] = l.rejectsTold[i] + l.rejected[i]
    BY <1>1
  <2>2. f.untold[i] = 0 /\ f.told[i] = l.told[i] + l.untold[i] /\ f.booked[i] = l.booked[i]
    BY <1>1
  <2> QED BY <2>1, <2>2, <1>2
<1> QED BY <1>3 DEF f

\* A ledger that hands trades or rejections on.
LEMMA LedgerEven ==
    ASSUME NEW s \in StateType, NEW t \in StateType, NEW p, NEW R, Even(s, p, R),
           t.om = s.om, t.book = s.book, t.ord = s.ord, t.channel = s.channel,
           t.suppressed \subseteq s.suppressed, Conserved(s.ledger, t.ledger)
    PROVE  Even(t, p, R)
<1>1. Plain(t)
  BY DEF Even, Plain
<1>2. \A i \in OrderIds : Alike(s, t, i)
  BY DEF Conserved, Alike, Traded
<1>3. \A i \in OrderIds : Asked(t, p, i) <=> Asked(s, p, i)
  BY DEF Asked
<1>4. \A i \in OrderIds : ReportsOf(t, R, i) = ReportsOf(s, R, i)
  BY DEF ReportsOf
<1> QED BY <1>1, <1>2, <1>3, <1>4, EvenMoved

\* An order that is archived with the status x.
LEMMA ArchivedAccount ==
    ASSUME NEW s \in StateType, NEW t \in StateType, NEW i \in OrderIds,
           s.om.status[i] # Absent, NEW x \in Finished,
           t.om.status[i] = Absent, t.om.filled[i] = 0,
           t.om.history[i] = Append(s.om.history[i], [status |-> x, filled |-> s.om.filled[i]]),
           t.ord[i] = s.ord[i], t.ledger = s.ledger, i \notin Active(t.book),
           s.ord[i] \in Order, x = s.om.status[i] \/ (x = "Expired" /\ ~NoDayOrders),
           Account(s, i, FALSE, {})
    PROVE  Account(t, i, FALSE, {})
<1>1. s.om.history[i] = <<>>
  BY DEF Account, Kept
<1> DEFINE row == [status |-> x, filled |-> s.om.filled[i]]
<1>2. row \in Row /\ row.status = x /\ row.filled = s.om.filled[i]
  BY Amounts, StatusFacts DEF Row
<1> HIDE DEF row
<1>3. t.om.history[i] = <<row>> /\ Len(t.om.history[i]) = 1 /\ t.om.history[i] # <<>>
      /\ Head(t.om.history[i]) = row
  BY <1>1, <1>2 DEF row
<1>4. Shown(t, i) = row
  BY <1>3 DEF Shown, Snapshot
<1>5. Shown(s, i).status = s.om.status[i] /\ Shown(s, i).filled = s.om.filled[i]
  BY <1>1, Amounts
<1>6. Traded(t, i) = Traded(s, i)
  BY DEF Traded
<1>7. Kept(t, i)
  BY <1>3, StatusFacts DEF Kept, Account, Absent
<1>8. NoDayOrders \/ AlwaysAffordable => Balanced(t, i)
  <2> HAVE NoDayOrders \/ AlwaysAffordable
  <2>1. Balanced(s, i)
    BY DEF Account
  <2>2. CASE x = s.om.status[i]
    BY <2>1, <2>2, <1>2, <1>4, <1>5, <1>6 DEF Balanced
  <2>3. CASE ~NoDayOrders
    BY <2>1, <2>3, <1>2, <1>4, <1>5, <1>6 DEF Balanced
  <2> QED BY <2>2, <2>3
<1>9. NoDayOrders => Noted(t, i)
  BY <1>2, <1>4, <1>5 DEF Noted, Account
<1> QED BY <1>3, <1>7, <1>8, <1>9, StatusFacts DEF Account, Absent

\* The order manager archives the orders of S.
LEMMA ArchivedEven ==
    ASSUME NEW s, Good(s, <<>>, {}), Even(s, <<>>, {}), NEW t \in StateType, Plain(t),
           t.ord = s.ord, t.channel = s.channel, t.ledger = s.ledger,
           t.book.filled = s.book.filled, NEW S,
           \A i \in OrderIds : i \in S =>
              /\ s.om.status[i] # Absent /\ ReportsOf(s, {}, i) = {} /\ i \notin Active(t.book)
              /\ t.om.status[i] = Absent /\ t.om.filled[i] = 0
              /\ \E x \in Finished :
                    /\ x = s.om.status[i] \/ (x = "Expired" /\ ~NoDayOrders)
                    /\ t.om.history[i]
                         = Append(s.om.history[i], [status |-> x, filled |-> s.om.filled[i]]),
           \A i \in OrderIds : i \notin S =>
              /\ t.om.status[i] = s.om.status[i] /\ t.om.filled[i] = s.om.filled[i]
              /\ t.om.history[i] = s.om.history[i]
              /\ i \in Active(t.book) <=> i \in Active(s.book)
    PROVE  Even(t, <<>>, {})
<1>1. s \in StateType
  BY DEF Good
<1>2. \A i \in OrderIds : /\ Account(s, i, Asked(s, <<>>, i), ReportsOf(s, {}, i))
                          /\ (Asked(t, <<>>, i) <=> Asked(s, <<>>, i))
                          /\ ReportsOf(t, {}, i) = ReportsOf(s, {}, i)
  BY DEF Even, Asked, ReportsOf
<1>3. ASSUME NEW i \in OrderIds, i \in S
      PROVE  Account(t, i, Asked(t, <<>>, i), ReportsOf(t, {}, i))
  <2>1. ~Asked(s, <<>>, i) /\ ReportsOf(s, {}, i) = {} /\ s.ord[i] \in Order
    BY <1>3, MessageFacts DEF Good
  <2>2. Account(s, i, FALSE, {})
    BY <1>2, <2>1 DEF Account
  <2>3. PICK x \in Finished :
           /\ x = s.om.status[i] \/ (x = "Expired" /\ ~NoDayOrders)
           /\ t.om.history[i] = Append(s.om.history[i], [status |-> x, filled |-> s.om.filled[i]])
    BY <1>3
  <2>4. Account(t, i, FALSE, {})
    BY <1>1, <1>3, <2>1, <2>2, <2>3, ArchivedAccount
  <2>5. ~Asked(t, <<>>, i) /\ ReportsOf(t, {}, i) = {}
    BY <1>2, <2>1
  <2> QED BY <2>4, <2>5 DEF Account
<1>4. ASSUME NEW i \in OrderIds, i \notin S
      PROVE  Account(t, i, Asked(t, <<>>, i), ReportsOf(t, {}, i))
  <2>1. Alike(s, t, i)
    BY <1>4, ToldFacts DEF Alike, Traded
  <2> DEFINE R == ReportsOf(s, {}, i)
             a == Asked(s, <<>>, i)
  <2>2. Account(s, i, a, R) /\ \A r \in R : r.id = i
    BY <1>2 DEF ReportsOf
  <2>3. (a <=> Asked(t, <<>>, i)) /\ R = ReportsOf(t, {}, i)
    BY <1>2
  <2> HIDE DEF R, a
  <2>4. Account(t, i, a, R)
    BY <1>1, <2>1, <2>2, AlikeAccount
  <2> QED BY <2>3, <2>4, AccountSame
<1> QED BY <1>3, <1>4 DEF Even

\* The finished orders leave; none has a report on its way.
LEMMA CleanupEven ==
    ASSUME NEW s, Good(s, <<>>, {}), Even(s, <<>>, {}),
           \A m \in ToSet(s.channel) : m.kind = "Report" => s.om.status[m.id] \notin Finished,
           NEW t \in StateType, t.om = Cleanup(s.om), t.ord = s.ord, t.channel = s.channel,
           t.book = s.book, t.ledger = s.ledger, t.suppressed = s.suppressed
    PROVE  Even(t, <<>>, {})
<1>1. s \in StateType /\ s.om \in RegistryType
  BY DEF Good, StateType
<1> DEFINE r == s.om
           c == t.om
<1>2. /\ \A i \in OrderIds : c.plans[i] \subseteq r.plans[i]
      /\ \A i \in OrderIds : c.oco.groupOf[i] \in {r.oco.groupOf[i], NoGroup}
      /\ \A i \in OrderIds :
            c.status[i] = IF r.status[i] \in Finished THEN Absent ELSE r.status[i]
      /\ \A i \in OrderIds :
            c.filled[i] = IF r.status[i] \in Finished THEN 0 ELSE r.filled[i]
      /\ \A i \in OrderIds : c.history[i] =
            IF r.status[i] \in Finished
            THEN Append(r.history[i], [status |-> r.status[i], filled |-> r.filled[i]])
            ELSE r.history[i]
  BY <1>1, CleanupProperties
<1>3. Plain(t)
  <2>1. Plain(s)
    BY DEF Even
  <2>2. Unpaired => t.suppressed = {} /\ \A i \in OrderIds : c.oco.groupOf[i] = NoGroup
    BY <1>2, <2>1 DEF Plain
  <2> QED BY <1>1, <1>2, <2>1, <2>2, PlainLoosened
<1> DEFINE S == {i \in OrderIds : r.status[i] \in Finished}
<1>4. \A i \in OrderIds : r.status[i] \in Finished =>
         /\ r.status[i] # Absent /\ ReportsOf(s, {}, i) = {} /\ i \notin Active(s.book)
  <2> SUFFICES ASSUME NEW i \in OrderIds, r.status[i] \in Finished
               PROVE  ReportsOf(s, {}, i) = {} /\ i \notin Active(s.book) /\ r.status[i] # Absent
    OBVIOUS
  <2>1. ReportsOf(s, {}, i) = {}
    BY DEF ReportsOf
  <2>2. Account(s, i, Asked(s, <<>>, i), ReportsOf(s, {}, i))
    BY DEF Even
  <2>3. i \notin Active(s.book)
    BY <2>2, StatusFacts DEF Account
  <2> QED BY <2>1, <2>3, StatusFacts
<1>5. \A i \in OrderIds : i \in S =>
         /\ r.status[i] # Absent /\ ReportsOf(s, {}, i) = {} /\ i \notin Active(t.book)
         /\ c.status[i] = Absent /\ c.filled[i] = 0
         /\ \E x \in Finished :
               /\ x = r.status[i] \/ (x = "Expired" /\ ~NoDayOrders)
               /\ c.history[i] = Append(r.history[i], [status |-> x, filled |-> r.filled[i]])
  BY <1>2, <1>4
<1>6. \A i \in OrderIds : i \notin S =>
         /\ c.status[i] = r.status[i] /\ c.filled[i] = r.filled[i]
         /\ c.history[i] = r.history[i]
         /\ i \in Active(t.book) <=> i \in Active(s.book)
  BY <1>2
<1> HIDE DEF S
<1> QED BY <1>1, <1>3, <1>5, <1>6, ArchivedEven

\* The settlement, with no report of an order that it may expire.
LEMMA SettleEven ==
    ASSUME NoNextBarDay, NEW s, Good(s, <<>>, {}), Even(s, <<>>, {}),
           \A m \in ToSet(s.channel) : m.kind = "Report" => s.ord[m.id].offset = 1,
           NEW t, t = SettleDay(s)
    PROVE  Even(t, <<>>, {})
<1> DEFINE S == ExpiredDayOrders(s)
           r == s.om
           c == t.om
           b == s.book
<1>1. s \in StateType /\ r \in RegistryType /\ b \in BookType
  BY DEF Good, StateType
<1>2. /\ t \in StateType /\ t.ord = s.ord /\ t.ledger = s.ledger /\ t.channel = s.channel
  BY SettleKeeps DEF Good
<1>3. /\ c = ExpireAtSettlement(r, S) /\ t.book = OnCancel(b, S) /\ t.suppressed = s.suppressed
  <2>1. t = [s EXCEPT !.om = ExpireAtSettlement(@, S), !.book = OnCancel(@, S)]
    BY DEF SettleDay
  <2> HIDE DEF S
  <2> QED BY <1>1, <2>1 DEF StateType
<1>4. \A i \in S : /\ i \in OrderIds /\ r.status[i] # Absent /\ s.ord[i].tif = "Day"
                   /\ s.ord[i] \in Order /\ ~NoDayOrders /\ s.ord[i].offset = 0
                   /\ ReportsOf(s, {}, i) = {}
  <2> SUFFICES ASSUME NEW i \in S
               PROVE  /\ i \in OrderIds /\ r.status[i] # Absent /\ s.ord[i].tif = "Day"
                      /\ s.ord[i] \in Order /\ ~NoDayOrders /\ s.ord[i].offset = 0
                      /\ ReportsOf(s, {}, i) = {}
    OBVIOUS
  <2>1. i \in OrderIds /\ r.status[i] # Absent /\ s.ord[i].tif = "Day"
    BY DEF ExpiredDayOrders
  <2>2. s.ord[i] \in Order
    BY <2>1 DEF Good
  <2>3. Kept(s, i)
    BY <2>1 DEF Even, Account
  <2>4. ~NoDayOrders /\ s.ord[i].offset = 0
    BY <2>1, <2>2, <2>3 DEF Kept
  <2>5. ReportsOf(s, {}, i) = {}
    BY <2>4 DEF ReportsOf
  <2> QED BY <2>1, <2>2, <2>4, <2>5
<1> HIDE DEF S
<1>5. /\ c.oco = r.oco /\ c.plans = r.plans
      /\ \A i \in OrderIds : c.status[i] = IF i \in S THEN Absent ELSE r.status[i]
      /\ \A i \in OrderIds : c.filled[i] = IF i \in S THEN 0 ELSE r.filled[i]
      /\ \A i \in OrderIds : c.history[i] =
            IF i \in S
            THEN Append(r.history[i], [status |-> "Expired", filled |-> r.filled[i]])
            ELSE r.history[i]
  BY <1>1, <1>3, ExpireProperties
<1>6. t.book.filled = b.filled /\ Active(t.book) = Active(b) \ S
  BY <1>1, <1>3, OnCancelProperties
<1>7. Plain(t)
  BY <1>3, <1>5 DEF Even, Plain
<1>8. \A i \in OrderIds : i \in S =>
         /\ r.status[i] # Absent /\ ReportsOf(s, {}, i) = {} /\ i \notin Active(t.book)
         /\ c.status[i] = Absent /\ c.filled[i] = 0
         /\ \E x \in Finished :
               /\ x = r.status[i] \/ (x = "Expired" /\ ~NoDayOrders)
               /\ c.history[i] = Append(r.history[i], [status |-> x, filled |-> r.filled[i]])
  BY <1>4, <1>5, <1>6, StatusFacts
<1>9. \A i \in OrderIds : i \notin S =>
         /\ c.status[i] = r.status[i] /\ c.filled[i] = r.filled[i]
         /\ c.history[i] = r.history[i]
         /\ i \in Active(t.book) <=> i \in Active(s.book)
  BY <1>5, <1>6
<1> HIDE DEF r, c, b
<1> USE DEF r, c, b
<1> QED BY <1>1, <1>2, <1>6, <1>7, <1>8, <1>9, ArchivedEven

-----------------------------------------------------------------------------
(***************************************************************************)
(* Rejections and the end of a slice.                                      *)
(***************************************************************************)

\* The reports of the rejections for missing symbols.
LEMMA MissingReportsProperties ==
    ASSUME NEW s \in StateType, feed.last \in Nat
    PROVE  /\ MissingReports(s) \in Seq(ReportType)
           /\ \A r \in ToSet(MissingReports(s)) :
                 /\ r \in ReportType /\ r.id \in MissingSymbol(s)
                 /\ r = Report(r.id, "Rejected", s.om.filled[r.id], 0, feed.last)
           /\ \A i \in MissingSymbol(s) : \E r \in ToSet(MissingReports(s)) : r.id = i
<1> DEFINE X == MissingSymbol(s)
           ids == Ascending(X)
           q == MissingReports(s)
<1>1. X \subseteq OrderIds
  BY DEF MissingSymbol
<1>2. X \in SUBSET Nat /\ IsFiniteSet(X)
  BY <1>1, IdFacts, FS_Subset
<1>3. q = [k \in DOMAIN ids |-> Report(ids[k], "Rejected", s.om.filled[ids[k]], 0, feed.last)]
  BY DEF MissingReports
<1> HIDE DEF X
<1>4. ids \in Seq(X) /\ \A x \in X : \E k \in DOMAIN ids : ids[k] = x
  BY <1>2, AscendingProperties
<1> HIDE DEF ids, q
<1>5. Len(ids) \in Nat /\ DOMAIN ids = 1 .. Len(ids) /\ \A k \in DOMAIN ids : ids[k] \in X
  BY <1>4
<1>6. \A i \in X : s.om.filled[i] \in Nat
  BY <1>1, Amounts
<1>7. \A k \in DOMAIN ids :
         /\ q[k] = Report(ids[k], "Rejected", s.om.filled[ids[k]], 0, feed.last)
         /\ q[k] \in ReportType /\ q[k].id = ids[k]
  BY <1>1, <1>3, <1>5, <1>6, StatusFacts DEF Report, ReportType
<1>8. DOMAIN q = DOMAIN ids /\ q \in Seq(ReportType)
  <2>1. DOMAIN q = DOMAIN ids
    BY <1>3
  <2>2. q = [k \in 1 .. Len(ids) |-> q[k]]
    BY <1>3, <1>5
  <2> QED BY <2>1, <2>2, <1>5, <1>7
<1>9. \A r \in ToSet(q) : /\ r \in ReportType /\ r.id \in X
                          /\ r = Report(r.id, "Rejected", s.om.filled[r.id], 0, feed.last)
  BY <1>5, <1>7, <1>8 DEF ToSet
<1>10. \A i \in X : \E r \in ToSet(q) : r.id = i
  BY <1>4, <1>7, <1>8 DEF ToSet
<1> QED BY <1>8, <1>9, <1>10 DEF q, X

\* A next-bar order that is working and new.
AwaitsItsSlice(s, i) == s.ord[i].offset = 1 /\ s.om.status[i] = "New"

LEMMA RejectMissingEven ==
    ASSUME NEW s, Good(s, <<>>, {}), Even(s, <<>>, {}), feed.last \in Nat,
           \A m \in ToSet(s.channel) : m.kind = "Request",
           NEW t, t = RejectMissing(s)
    PROVE  /\ Even(t, <<>>, {})
           /\ \A m \in ToSet(t.channel) : IF m.kind = "Report" THEN AwaitsItsSlice(t, m.id)
                                          ELSE m \in ToSet(s.channel)
<1> DEFINE X == MissingSymbol(s)
           q == MissingReports(s)
<1>1. s \in StateType /\ s.book \in BookType /\ s.channel \in Seq(MessageType)
  BY DEF Good, StateType
<1>2. /\ t.om = s.om /\ t.ord = s.ord /\ t.ledger = s.ledger /\ t \in StateType
  BY RejectMissingKeeps DEF Good
<1>3. t.book = OnCancel(s.book, X) /\ t.channel = s.channel \o q /\ t.suppressed = s.suppressed
  <2>1. t = [s EXCEPT !.book = OnCancel(@, X), !.channel = @ \o q]
    BY DEF RejectMissing
  <2> HIDE DEF X, q
  <2> QED BY <1>1, <2>1 DEF StateType
<1>4. /\ q \in Seq(ReportType)
      /\ \A r \in ToSet(q) : /\ r \in ReportType /\ r.id \in X
                             /\ r = Report(r.id, "Rejected", s.om.filled[r.id], 0, feed.last)
      /\ \A i \in X : \E r \in ToSet(q) : r.id = i
  BY <1>1, MissingReportsProperties
<1>5. \A i \in X : i \in OrderIds /\ s.om.status[i] = "New" /\ s.ord[i].offset = 1
  <2>1. \A i \in OrderIds : s.om.status[i] # "Submitted"
    BY DEF Even, Account, Kept
  <2> QED BY <2>1 DEF MissingSymbol
<1> HIDE DEF X, q
<1>6. ToSet(t.channel) = ToSet(s.channel) \cup ToSet(q)
  <2>1. q \in Seq(MessageType)
    BY <1>4 DEF MessageType
  <2> QED BY <1>1, <1>3, <2>1, ToSetConcat
<1>7. Active(t.book) = Active(s.book) \ X /\ t.book.filled = s.book.filled
  BY <1>1, <1>3, OnCancelProperties
<1>8. /\ \A r \in ToSet(q) : /\ r.kind = "Report" /\ r.status = "Rejected" /\ r.trade = 0
                             /\ r.filled = s.om.filled[r.id] /\ r.id \in X
      /\ \A r, p \in ToSet(q) : r.id = p.id => r = p
  <2>1. \A r \in ToSet(q) : r.kind = "Report" /\ r.status = "Rejected" /\ r.trade = 0
                            /\ r.filled = s.om.filled[r.id] /\ r.id \in X
    BY <1>4 DEF Report
  <2>2. \A r, p \in ToSet(q) : r.id = p.id => r = p
    BY <1>4
  <2> QED BY <2>1, <2>2
<1>9. Plain(t)
  BY <1>2, <1>3 DEF Even, Plain
<1>10. \A i \in OrderIds : /\ Account(s, i, Asked(s, <<>>, i), ReportsOf(s, {}, i))
                           /\ (Asked(t, <<>>, i) <=> Asked(s, <<>>, i))
                           /\ ReportsOf(s, {}, i) = {}
  BY <1>6, <1>8 DEF Even, Asked, ReportsOf
<1>11. ASSUME NEW i \in OrderIds, i \in X
       PROVE  Account(t, i, Asked(t, <<>>, i), ReportsOf(t, {}, i))
  <2>1. PICK r \in ToSet(q) : r.id = i
    BY <1>4, <1>11
  <2>2. ReportsOf(t, {}, i) = {r}
    BY <1>6, <1>8, <1>10, <2>1 DEF ReportsOf
  <2> DEFINE a == Asked(t, <<>>, i)
             R == {r}
  <2>3. Account(s, i, a, {})
    BY <1>10 DEF Account
  <2>4. /\ s.om.status[i] = "New" /\ s.om.filled[i] = 0 /\ s.om.history[i] = <<>>
    BY <1>5, <1>11, <2>3 DEF Account, Kept, Absent
  <2>5. i \notin Active(t.book)
    BY <1>7, <1>11
  <2>6. Continues(t, r)
    BY <1>2, <1>8, <2>1, <2>4, <2>5, StatusFacts DEF Continues, Absent
  <2>7. R # {} /\ (\A p \in R : Continues(t, p)) /\ r \in R /\ r.status \in Finished
    BY <1>8, <2>6, StatusFacts
  <2> HIDE DEF a, R
  <2>8. Account(t, i, a, R)
    BY <1>1, <1>2, <2>3, <2>5, <2>7, BookAccount
  <2> QED BY <2>2, <2>8 DEF a, R
<1>12. ASSUME NEW i \in OrderIds, i \notin X
       PROVE  Account(t, i, Asked(t, <<>>, i), ReportsOf(t, {}, i))
  <2>1. Alike(s, t, i)
    BY <1>2, <1>7, <1>12, ToldFacts DEF Alike, Traded
  <2>2. ReportsOf(t, {}, i) = {}
    BY <1>6, <1>8, <1>10, <1>12 DEF ReportsOf
  <2> DEFINE a == Asked(t, <<>>, i)
  <2>3. Account(s, i, a, {})
    BY <1>10 DEF Account
  <2> HIDE DEF a
  <2>4. Account(t, i, a, {})
    BY <1>1, <1>2, <2>1, <2>3, AlikeAccount
  <2> QED BY <2>2, <2>4 DEF a
<1>13. Even(t, <<>>, {})
  BY <1>9, <1>11, <1>12 DEF Even
<1>14. \A m \in ToSet(t.channel) : IF m.kind = "Report" THEN AwaitsItsSlice(t, m.id)
                                   ELSE m \in ToSet(s.channel)
  BY <1>2, <1>5, <1>6, <1>8 DEF AwaitsItsSlice
<1> QED BY <1>13, <1>14

\* Without brackets no report requests an exit.
LEMMA NoExits ==
    ASSUME NoBrackets, NEW s \in StateType, Plain(s), NEW t \in StateType, NEW k \in Nat,
           k + Cardinality(Planned(t.om)) <= Cardinality(Planned(s.om))
    PROVE  k = 0
<1>1. Planned(s.om) = {}
  BY DEF Planned, Plain
<1>2. Cardinality(Planned(s.om)) = 0
  BY <1>1, FS_EmptySet
<1>3. Cardinality(Planned(t.om)) \in Nat
  BY PlannedFacts DEF StateType
<1> QED BY <1>2, <1>3

\* The requests of a report join the channel.
LEMMA ChannelExtended ==
    ASSUME NEW s \in StateType, NEW t \in StateType, NEW k \in Nat, Extended(s, t, k)
    PROVE  /\ (\A m \in ToSet(s.channel) : m.kind = "Request")
                => \A m \in ToSet(t.channel) : m.kind = "Request"
           /\ k = 0 /\ ToSet(s.channel) = {} => ToSet(t.channel) = {}
<1>0. k \in Nat /\ Drawn(s) + k <= Cardinality(OrderIds)
  BY DEF Extended
<1> DEFINE c == s.channel
           d == Requests(Drawn(s), k)
<1>1. t.channel = c \o d /\ t.channel \in Seq(MessageType) /\ c \in Seq(MessageType)
  BY DEF Extended, StateType
<1>2. DOMAIN d = 1 .. k /\ Len(d) = k /\ \A j \in 1 .. k : d[j].kind = "Request"
  BY DEF Requests
<1> HIDE DEF c, d
<1>3. /\ DOMAIN (c \o d) = 1 .. Len(c) + k /\ Len(c) \in Nat /\ DOMAIN c = 1 .. Len(c)
      /\ \A j \in 1 .. Len(c) + k : (c \o d)[j] = IF j <= Len(c) THEN c[j] ELSE d[j - Len(c)]
  <2>1. c \o d \in Seq(MessageType)
    BY <1>1
  <2>2. \A j \in 1 .. Len(c) + k : (c \o d)[j] = IF j <= Len(c) THEN c[j] ELSE d[j - Len(c)]
    BY <1>1, <1>2, <2>1
  <2>3. Len(c) \in Nat /\ DOMAIN c = 1 .. Len(c)
    BY <1>1
  <2>4. DOMAIN (c \o d) = 1 .. Len(c) + k
    <3>1. d \in Seq(MessageType)
      <4>1. \A j \in 1 .. k : Drawn(s) + j \in OrderIds
        BY <1>0, IdFacts, UsedFacts DEF Extended
      <4> QED BY <4>1 DEF d, Requests, MessageType
    <3>2. Len(c \o d) = Len(c) + k
      BY <1>1, <1>2, <3>1, ConcatProperties
    <3> QED BY <2>1, <3>2
  <2> QED BY <2>2, <2>3, <2>4
<1>4. ASSUME \A m \in ToSet(c) : m.kind = "Request"
      PROVE  \A m \in ToSet(c \o d) : m.kind = "Request"
  <2>1. \A j \in DOMAIN c : c[j].kind = "Request"
    BY <1>4 DEF ToSet
  <2>2. \A j \in DOMAIN (c \o d) : (c \o d)[j].kind = "Request"
    BY <2>1, <1>2, <1>3
  <2> QED BY <2>2 DEF ToSet
<1>5. ASSUME k = 0, ToSet(c) = {}
      PROVE  ToSet(c \o d) = {}
  <2>1. Len(c) = 0
    <3>1. \A j \in DOMAIN c : FALSE
      BY <1>5 DEF ToSet
    <3> QED BY <1>3, <3>1
  <2>2. DOMAIN (c \o d) = {}
    BY <1>3, <1>5, <2>1
  <2> QED BY <2>2 DEF ToSet
<1> QED BY <1>1, <1>4, <1>5 DEF c

\* The last match of a slice, its reports applied one after the other.
LEMMA LastMatchEven ==
    ASSUME NEW s, Good(s, <<>>, {}), Even(s, <<>>, {}), s.channel = <<>>,
           s.book = book, s.ord = ord, feed.last \in Nat, BarsSound(feed.bars, feed.last),
           SliceOpen, NEW v \in FinalVerdicts, NEW t, t = LastMatch(s, v)
    PROVE  /\ Even(t, <<>>, {})
           /\ NoBrackets => ToSet(t.channel) = {}
           /\ Unpaired => \A i \in OrderIds : Lives(s.om, t.om, s.ord[i].qty, i)
<1>0. s \in StateType /\ s.ledger \in LedgerType /\ BookSound(s.book, s.ord)
  BY DEF Good, StateType
<1>1. CASE feed.bars = {}
  <2>1. t = s
    BY <1>1 DEF LastMatch
  <2>2. ToSet(s.channel) = {}
    BY DEF ToSet
  <2>3. \A i \in OrderIds : SameRow(s.om, t.om, i)
    BY <2>1 DEF SameRow
  <2> QED BY <2>1, <2>2, <2>3, RestLives
<1>2. CASE feed.bars # {}
  <2> DEFINE done == FinalizeTimestamp(s.book, s.ord, feed.bars, feed.last, feed.priced, v)
             u == [s EXCEPT !.book = done.book]
             R == done.reports
             n == Len(R)
             applied == FoldLeft(ApplyReport, u, R)
  <2>1. t = [applied EXCEPT !.ledger = Flush(@)]
    BY <1>2 DEF LastMatch
  <2>2. CallSound(s.book, s.ord, {feed.last}, done)
    <3>1. v \in VerdictsOf(s.book, s.ord, feed.bars, feed.priced,
                           ToFinalize(PrepareSlice(s.book, feed.last), s.ord, feed.last))
      BY DEF FinalVerdicts
    <3> HIDE DEF done
    <3>2. done = FinalizeTimestamp(s.book, s.ord, feed.bars, feed.last, feed.priced, v)
      BY DEF done
    <3> QED BY <1>0, <1>2, <3>1, <3>2, FinalizeTimestampSound
  <2> HIDE DEF done
  <2>3. /\ u \in StateType /\ u.om = s.om /\ u.ord = s.ord /\ u.channel = s.channel
        /\ u.book = done.book /\ u.ledger = s.ledger /\ u.suppressed = s.suppressed
    BY <1>0, <2>2 DEF CallSound, BookSound, StateType
  <2>4. ToSet(s.channel) = {}
    BY DEF ToSet
  <2> HIDE DEF u
  <2>5. /\ Good(u, <<>>, ToSet(R)) /\ Even(u, <<>>, ToSet(R))
    <3>1. \A m \in ToSet(s.channel) : m.id \notin Active(s.book)
      BY <2>4
    <3>2. Good(u, <<>>, ToSet(done.reports))
      BY <2>2, <2>3, <3>1, CallKeeps
    <3>3. Even(u, <<>>, ToSet(done.reports))
      BY <2>2, <2>3, <3>1, CallEven
    <3> QED BY <3>2, <3>3
  <2>6. R \in Seq(ReportType) /\ \A k, l \in DOMAIN R : R[k].id = R[l].id => k = l
    BY <2>2 DEF CallSound, Outcome
  <2> HIDE DEF R
  <2> DEFINE Rest(k) == {R[l] : l \in k + 1 .. n}
             \* The orders of the first k reports moved, each once.
             Lived(k, a) ==
               \A i \in OrderIds :
                  \/ SameRow(s.om, a.om, i)
                  \/ /\ Lives(s.om, a.om, s.ord[i].qty, i)
                     /\ \E l \in 1 .. k : R[l].id = i
             Half(k, a) ==
               /\ Good(a, <<>>, Rest(k)) /\ Even(a, <<>>, Rest(k))
               /\ NoBrackets => ToSet(a.channel) = {}
               /\ \A i \in OrderIds : s.ord[i] \in Order => a.ord[i] = s.ord[i]
               /\ Unpaired => Lived(k, a)
             P == {p \in (0 .. n) \X StateType : Half(p[1], p[2])}
  <2>9. n \in Nat /\ DOMAIN R = 1 .. n /\ \A k \in 1 .. n : R[k] \in ToSet(R) /\ R[k] \in ReportType
    BY <2>6 DEF ToSet
  <2> HIDE DEF n
  <2>10. <<0, u>> \in P
    <3>1. Rest(0) = ToSet(R)
      BY <2>9 DEF ToSet
    <3>2. Lived(0, u) /\ \A i \in OrderIds : u.ord[i] = s.ord[i]
      BY <2>3 DEF SameRow
    <3> HIDE DEF Lived
    <3>3. Half(0, u)
      BY <2>3, <2>4, <2>5, <3>1, <3>2
    <3> HIDE DEF Half
    <3> QED BY <2>3, <2>9, <3>3
  <2>11. ASSUME NEW k \in 1 .. n, NEW a, <<k - 1, a>> \in P
         PROVE  <<k, ApplyReport(a, R[k])>> \in P
    <3> DEFINE b == ApplyReport(a, R[k])
    <3>1. Half(k - 1, a) /\ k - 1 \in 0 .. n
      <4> HIDE DEF Half
      <4>1. \A p \in P : Half(p[1], p[2]) /\ p[1] \in 0 .. n
        OBVIOUS
      <4>2. <<k - 1, a>>[1] = k - 1 /\ <<k - 1, a>>[2] = a
        OBVIOUS
      <4> HIDE DEF P
      <4> QED BY <4>1, <4>2, <2>11
    <3>2. R[k] \in Rest(k - 1) /\ Rest(k - 1) \ {R[k]} = Rest(k)
      <4>1. (k - 1) + 1 = k /\ k \in Nat
        BY <2>9
      <4>2. Rest(k - 1) = Rest(k) \cup {R[k]}
        <5>1. k .. n = (k + 1 .. n) \cup {k}
          BY <2>9, <4>1
        <5> QED BY <4>1, <5>1
      <4>3. R[k] \notin Rest(k)
        BY <2>6, <2>9, <4>1
      <4> HIDE DEF Rest
      <4> QED BY <4>2, <4>3
    <3>9. k \in Nat /\ R[k] \in ReportType /\ \A l \in 1 .. k - 1 : R[l].id # R[k].id
      BY <2>6, <2>9
    <3> HIDE DEF Rest, b, Lived
    <3>3. /\ \E kk \in Nat, PP \in SUBSET OrderIds : Applied(a, R[k], b, kk, PP)
          /\ Good(b, <<>>, Rest(k - 1) \ {R[k]})
          /\ \A i \in OrderIds : a.ord[i] \in Order => b.ord[i] = a.ord[i]
      <4>1. Good(a, <<>>, Rest(k - 1)) /\ b = ApplyReport(a, R[k])
        BY <3>1 DEF b
      <4> HIDE DEF Half
      <4> QED BY <3>2, <4>1, ReportKeeps
    <3>4. Even(b, <<>>, Rest(k - 1) \ {R[k]})
      BY <3>1, <3>2, ReportEven DEF b
    <3>5. PICK kk \in Nat, PP \in SUBSET OrderIds : Applied(a, R[k], b, kk, PP)
      BY <3>3
    <3>6. b \in StateType /\ a \in StateType /\ Plain(a)
      BY <3>1, <3>3 DEF Good, Even
    <3>7. NoBrackets => ToSet(b.channel) = {}
      <4> HAVE NoBrackets
      <4>1. kk = 0
        BY <3>5, <3>6, NoExits DEF Applied
      <4>2. Extended(a, b, kk)
        BY <3>5 DEF Applied
      <4> QED BY <3>1, <3>6, <4>1, <4>2, ChannelExtended
    <3>10. ASSUME Unpaired PROVE Lived(k, b)
      <4> DEFINE r == R[k]
      <4>1. /\ \A i \in OrderIds \ {r.id} : SameRow(a.om, b.om, i)
            /\ r.id \in OrderIds => Lives(a.om, b.om, a.ord[r.id].qty, r.id)
        BY <3>1, <3>2, <3>10, ReportLives DEF b
      <4>2. Lived(k - 1, a) /\ r.id \in OrderIds
        BY <3>1, <3>9, <3>10 DEF ReportType
      <4>3. a.ord[r.id] = s.ord[r.id]
        <5>1. MessageSound(a, r)
          BY <3>1, <3>2 DEF Good
        <5>2. a.ord[r.id] \in Order /\ Used(a.ord) = 1 .. Drawn(a)
          BY <3>1, <5>1 DEF MessageSound, Good
        <5>3. s.ord[r.id] \in Order
          BY <2>5, <2>3, <2>9 DEF Good, MessageSound
        <5> QED BY <3>1, <4>2, <5>3
      <4>4. SameRow(s.om, a.om, r.id)
        BY <3>9, <4>2 DEF Lived
      <4>5. Lives(s.om, b.om, s.ord[r.id].qty, r.id)
        BY <4>1, <4>2, <4>3, <4>4, LivesOn
      <4>6. ASSUME NEW i \in OrderIds, i # r.id
            PROVE  \/ SameRow(s.om, b.om, i)
                   \/ /\ Lives(s.om, b.om, s.ord[i].qty, i)
                      /\ \E l \in 1 .. k : R[l].id = i
        <5>1. SameRow(a.om, b.om, i)
          BY <4>1, <4>6
        <5>2. CASE SameRow(s.om, a.om, i)
          BY <5>1, <5>2 DEF SameRow
        <5>3. CASE Lives(s.om, a.om, s.ord[i].qty, i) /\ \E l \in 1 .. k - 1 : R[l].id = i
          <6>1. Lives(s.om, b.om, s.ord[i].qty, i)
            BY <5>1, <5>3 DEF Lives, SameRow, LifeStatus, LifeFilled, Snapshot
          <6>2. \A l \in 1 .. k - 1 : l \in 1 .. k
            BY <3>9
          <6> QED BY <5>3, <6>1, <6>2
        <5> QED BY <4>2, <5>2, <5>3 DEF Lived
      <4>7. k \in 1 .. k
        BY <3>9
      <4> QED BY <4>5, <4>6, <4>7 DEF Lived
    <3>11. \A i \in OrderIds : s.ord[i] \in Order => b.ord[i] = s.ord[i]
      BY <3>1, <3>3
    <3>8. Half(k, b)
      BY <3>2, <3>3, <3>4, <3>7, <3>10, <3>11
    <3> HIDE DEF Half
    <3> QED BY <3>6, <3>8 DEF b
  <2>12. <<n, applied>> \in P
    <3> HIDE DEF P
    <3> QED BY <2>6, <2>10, <2>11, ReportsInduction DEF n
  <2>13. Half(n, applied)
    <3> HIDE DEF Half
    <3>1. \A p \in P : Half(p[1], p[2])
      OBVIOUS
    <3>2. <<n, applied>>[1] = n /\ <<n, applied>>[2] = applied
      OBVIOUS
    <3> HIDE DEF P
    <3> QED BY <2>12, <3>1, <3>2
  <2>14. Rest(n) = {}
    BY <2>9
  <2> HIDE DEF applied, Rest
  <2>15. applied \in StateType /\ applied.ledger \in LedgerType /\ Even(applied, <<>>, {})
    BY <2>13, <2>14 DEF Good, StateType
  <2>16. /\ t \in StateType /\ t.om = applied.om /\ t.ord = applied.ord /\ t.book = applied.book
         /\ t.channel = applied.channel /\ t.ledger = Flush(applied.ledger)
         /\ t.suppressed = applied.suppressed
    BY <2>1, <2>15, FlushProperties DEF StateType
  <2>17. Conserved(applied.ledger, t.ledger)
    BY <2>15, <2>16, ToldFacts, FlushConserves
  <2>18. Even(t, <<>>, {})
    BY <2>15, <2>16, <2>17, LedgerEven
  <2>19. ASSUME Unpaired, NEW i \in OrderIds PROVE Lives(s.om, t.om, s.ord[i].qty, i)
    BY <2>13, <2>16, <2>19, RestLives
  <2> QED BY <2>13, <2>16, <2>18, <2>19
<1> QED BY <1>1, <1>2

-----------------------------------------------------------------------------
(***************************************************************************)
(* The accounts along a run.                                               *)
(***************************************************************************)

EvenNow == Even(State(drain.suppressed), drain.pending, {})

LEMMA InitEven == Init => EvenNow
<1> SUFFICES ASSUME Init PROVE EvenNow
  OBVIOUS
<1> DEFINE s == State(drain.suppressed)
<1>1. /\ s.om = EmptyRegistry /\ s.book = EmptyBook /\ s.ord = [i \in OrderIds |-> NoOrder]
      /\ s.channel = <<>> /\ s.ledger = EmptyLedger /\ s.suppressed = {}
      /\ drain.pending = <<>>
  BY DEF Init, State, IdleDrain
<1> HIDE DEF s
<1>2. \A i \in OrderIds :
         /\ s.om.status[i] = Absent /\ s.om.filled[i] = 0 /\ s.om.history[i] = <<>>
         /\ s.om.plans[i] = {} /\ s.om.oco.groupOf[i] = NoGroup
         /\ s.ord[i] = NoOrder /\ i \notin Active(s.book)
         /\ s.ledger.unbooked[i] = 0 /\ s.ledger.booked[i] = 0 /\ s.ledger.untold[i] = 0
         /\ s.ledger.told[i] = 0 /\ s.ledger.rejected[i] = 0 /\ s.ledger.rejectsTold[i] = 0
  BY <1>1, StatusFacts DEF EmptyRegistry, EmptyOco, EmptyBook, EmptyLedger, None, Active
<1>3. NoOrder \notin Order /\ Absent # "Rejected" /\ Absent # "Submitted"
  BY NoOrderAssumption DEF Absent
<1>4. ToSet(s.channel) = {} /\ ToSet(drain.pending) = {}
  BY <1>1 DEF ToSet
<1>5. Plain(s)
  BY <1>1, <1>2 DEF Plain, Exits
<1>6. ASSUME NEW i \in OrderIds
      PROVE  Account(s, i, Asked(s, drain.pending, i), ReportsOf(s, {}, i))
  <2>1. ReportsOf(s, {}, i) = {} /\ ~Asked(s, drain.pending, i)
    BY <1>4 DEF ReportsOf, Asked
  <2>2. Shown(s, i) = [status |-> Absent, filled |-> 0]
    BY <1>2 DEF Shown, Snapshot
  <2>3. Kept(s, i)
    BY <1>2, <1>3, StatusFacts DEF Kept
  <2>4. Balanced(s, i) /\ Noted(s, i)
    BY <1>2, <1>3, <2>2 DEF Balanced, Noted, Traded
  <2> QED BY <1>2, <1>3, <2>1, <2>3, <2>4, StatusFacts DEF Account
<1> QED BY <1>5, <1>6 DEF Even, EvenNow, s

LEMMA ReceiveStepEven ==
    ASSUME IInv, EvenNow, ChannelReceive
    PROVE  /\ EvenNow'
           /\ Unpaired => \A i \in OrderIds : Lives(om, om', ord[i].qty, i)
<1> DEFINE s == State(drain.suppressed)
           pending == drain.pending
           m == Head(channel)
           u == Popped(s)
           t == CASE m.kind = "Request"   -> u
                  [] m.kind = "Validated" -> WithOrder(u, m.id)
                  [] m.kind = "Report"    -> ApplyReport(u, m)
           next == IF m.kind = "Request" THEN Append(pending, m.id) ELSE pending
<1>1. /\ Draining /\ channel # <<>> /\ Becomes(t) /\ UNCHANGED <<pc, feed>>
      /\ drain' = [drain EXCEPT !.suppressed = t.suppressed, !.pending = next]
  BY DEF ChannelReceive, Popped, WithOrder
<1>2. /\ Good(s, pending, {}) /\ s.channel = channel /\ drain \in DrainType
      /\ Even(s, pending, {}) /\ s.om = om /\ s.ord = ord
  BY DEF IInv, State, EvenNow
<1> HIDE DEF s, pending
<1>3. /\ m.kind = "Request" => t = u
      /\ m.kind = "Validated" => t = WithOrder(u, m.id)
      /\ m.kind = "Report" => t = ApplyReport(u, m)
  <2> HIDE DEF m, u
  <2>1. "Request" # "Validated" /\ "Request" # "Report" /\ "Validated" # "Report"
    OBVIOUS
  <2>2. CASE m.kind = "Request"
    BY <2>2
  <2>3. CASE m.kind = "Validated"
    BY <2>3
  <2>4. CASE m.kind = "Report"
    BY <2>4
  <2> QED BY <2>1, <2>2, <2>3, <2>4
<1> HIDE DEF t
<1>4. /\ t \in StateType /\ Even(t, next, {})
      /\ Unpaired => \A i \in OrderIds : Lives(s.om, t.om, s.ord[i].qty, i)
  <2>1. m = Head(s.channel) /\ u = Popped(s) /\ s.channel # <<>>
    BY <1>1, <1>2
  <2> HIDE DEF m, u
  <2>2. t \in StateType
    BY <1>2, <1>3, <2>1, ReceiveKeeps
  <2> QED BY <1>2, <1>3, <2>1, <2>2, ReceiveEven
<1>5. /\ om' = t.om /\ book' = t.book /\ ord' = t.ord /\ channel' = t.channel
      /\ ledger' = t.ledger
  BY <1>1 DEF Becomes
<1>6. drain'.pending = next /\ drain'.suppressed = t.suppressed
  <2> HIDE DEF next
  <2> QED BY <1>1, <1>2 DEF DrainType
<1>7. State(drain.suppressed)' = t
  <2>1. t = [om |-> t.om, book |-> t.book, ord |-> t.ord, channel |-> t.channel,
             ledger |-> t.ledger, suppressed |-> t.suppressed]
    BY <1>4, StateFields
  <2> QED BY <1>5, <1>6, <2>1 DEF State
<1>8. EvenNow'
  BY <1>4, <1>6, <1>7 DEF EvenNow
<1>9. ASSUME Unpaired, NEW i \in OrderIds PROVE Lives(om, om', ord[i].qty, i)
  BY <1>2, <1>4, <1>5, <1>9
<1> QED BY <1>8, <1>9

\* The client matches the current event, and its reports enter the channel; the
\* ledger may hand something on meanwhile.
LEMMA MatchEven ==
    ASSUME NEW s, NEW pending, Good(s, pending, {}), Even(s, pending, {}), Quiet(s),
           NEW event \in EventType, NEW now \in Nat, NEW session, NEW priced,
           NEW v \in VerdictsOf(s.book, s.ord, {event}, priced, OrderIds),
           NEW done, done = OnEvent(s.book, s.ord, event, now, session, priced, v),
           NEW l \in LedgerType, Conserved(s.ledger, l),
           NEW t, t = [om |-> s.om, book |-> done.book, ord |-> s.ord,
                       channel |-> s.channel \o done.reports, ledger |-> l,
                       suppressed |-> s.suppressed]
    PROVE  Even(t, pending, {})
<1>1. t \in StateType /\ CallSound(s.book, s.ord, Nat, done)
  BY MatchKeeps
<1>2. s \in StateType /\ done.reports \in Seq(ReportType) /\ done.book \in BookType
  BY <1>1 DEF Good, CallSound, BookSound
<1> DEFINE u == [om |-> s.om, book |-> done.book, ord |-> s.ord, channel |-> s.channel,
                 ledger |-> s.ledger, suppressed |-> s.suppressed]
<1>3. /\ u \in StateType /\ u.om = s.om /\ u.book = done.book /\ u.ord = s.ord
      /\ u.channel = s.channel /\ u.ledger = s.ledger /\ u.suppressed = s.suppressed
  BY <1>2 DEF StateType
<1>4. /\ t.om = s.om /\ t.book = done.book /\ t.ord = s.ord /\ t.ledger = l
      /\ t.channel = s.channel \o done.reports /\ t.suppressed = s.suppressed
  OBVIOUS
<1> HIDE DEF u
<1>5. Good(u, pending, ToSet(done.reports)) /\ Even(u, pending, ToSet(done.reports))
  <2>1. \A m \in ToSet(s.channel) : m.id \notin Active(s.book)
    BY DEF Quiet
  <2>2. Good(u, pending, ToSet(done.reports))
    BY <1>1, <1>3, <2>1, CallKeeps
  <2>3. Even(u, pending, ToSet(done.reports))
    BY <1>1, <1>3, <2>1, CallEven
  <2> QED BY <2>2, <2>3
<1>6. \A i \in OrderIds : Alike(u, t, i)
  BY <1>3, <1>4 DEF Alike, Traded, Conserved
<1> DEFINE R == done.reports
<1>7. /\ R \in Seq(ReportType) /\ Good(u, pending, ToSet(R)) /\ Even(u, pending, ToSet(R))
      /\ t.om = u.om /\ t.ord = u.ord /\ t.channel = u.channel \o R /\ t.book = u.book
      /\ t.suppressed = u.suppressed
  BY <1>2, <1>3, <1>4, <1>5
<1> HIDE DEF R
<1> QED BY <1>1, <1>6, <1>7, ReportsEnqueuedEven

\* The accounts in the present state.
LEMMA NowFacts ==
    ASSUME IInv, EvenNow, NEW s, s = State(drain.suppressed)
    PROVE  /\ Good(s, drain.pending, {}) /\ Even(s, drain.pending, {}) /\ s \in StateType
           /\ s.om = om /\ s.book = book /\ s.ord = ord /\ s.channel = channel
           /\ s.ledger = ledger /\ s.suppressed = drain.suppressed /\ ledger \in LedgerType
           /\ \A i \in OrderIds : ledger.untold[i] + ledger.told[i] = ledger.booked[i]
<1>1. /\ s.om = om /\ s.book = book /\ s.ord = ord /\ s.channel = channel
      /\ s.ledger = ledger /\ s.suppressed = drain.suppressed
  BY DEF State
<1>2. Good(s, drain.pending, {}) /\ Even(s, drain.pending, {}) /\ s \in StateType
  BY DEF IInv, EvenNow, Good
<1>3. ledger \in LedgerType
  BY <1>1, <1>2 DEF StateType
<1> QED BY <1>1, <1>2, <1>3, ToldFacts

LEMMA IntermediateEven ==
    ASSUME IInv, EvenNow, channel = <<>>, IntermediateMatch, ledger' \in LedgerType,
           Conserved(ledger, ledger'), UNCHANGED om
    PROVE  EvenNow'
<1> DEFINE s == State(drain.suppressed)
<1>1. PICK v \in VerdictsOf(book, ord, {feed.event}, feed.priced, OrderIds) :
        LET done == OnEvent(book, ord, feed.event, Now, feed.session, feed.priced, v)
        IN  /\ book' = done.book
            /\ channel' = channel \o done.reports
            /\ drain' = [drain EXCEPT !.intermediate = FALSE, !.settle = TRUE]
            /\ UNCHANGED ord
  BY DEF IntermediateMatch
<1> DEFINE done == OnEvent(book, ord, feed.event, Now, feed.session, feed.priced, v)
           t == [om |-> s.om, book |-> done.book, ord |-> s.ord,
                 channel |-> s.channel \o done.reports, ledger |-> ledger',
                 suppressed |-> s.suppressed]
<1>2. /\ Good(s, drain.pending, {}) /\ Even(s, drain.pending, {})
      /\ s.om = om /\ s.book = book /\ s.ord = ord
      /\ s.channel = channel /\ s.suppressed = drain.suppressed /\ s.ledger = ledger
  <2> HIDE DEF s
  <2>1. s = State(drain.suppressed)
    BY DEF s
  <2> QED BY <2>1, NowFacts
<1>3. feed.event \in EventType /\ Now \in Nat
  BY DEF IInv, FeedSound, FeedType, EventType, Now
<1>4. Quiet(s)
  BY <1>2 DEF Quiet, ToSet
<1>5. drain \in DrainType /\ drain'.pending = drain.pending
      /\ drain'.suppressed = drain.suppressed
  BY <1>1 DEF IInv, DrainType
<1>6. Even(t, drain.pending, {})
  <2>1. /\ v \in VerdictsOf(s.book, s.ord, {feed.event}, feed.priced, OrderIds)
        /\ done = OnEvent(s.book, s.ord, feed.event, Now, feed.session, feed.priced, v)
    BY <1>2
  <2> DEFINE l == ledger'
  <2>2. t = [om |-> s.om, book |-> done.book, ord |-> s.ord,
             channel |-> s.channel \o done.reports, ledger |-> l, suppressed |-> s.suppressed]
    OBVIOUS
  <2>3. l \in LedgerType /\ Conserved(s.ledger, l)
    BY <1>2
  <2> HIDE DEF t, s, done, l
  <2> QED BY <1>2, <1>3, <1>4, <2>1, <2>2, <2>3, MatchEven
<1>7. State(drain.suppressed)' = t
  <2>1. om' = om /\ ord' = ord /\ book' = done.book /\ channel' = channel \o done.reports
    BY <1>1
  <2>2. t = [om |-> om, book |-> done.book, ord |-> ord, channel |-> channel \o done.reports,
             ledger |-> ledger', suppressed |-> drain.suppressed]
    BY <1>2
  <2> HIDE DEF t, done
  <2> QED BY <1>5, <2>1, <2>2 DEF State
<1> HIDE DEF t, done, s
<1> QED BY <1>5, <1>6, <1>7 DEF EvenNow

\* The requests of a turn and those that wait for the next.
LEMMA BatchFacts ==
    ASSUME drain.pending \in Seq(OrderIds), IsInjective(drain.pending),
           NEW batch, batch = IF Mixed THEN Reduces ELSE drain.pending
    PROVE  /\ batch \in Seq(OrderIds) /\ IsInjective(batch) /\ Waiting \in Seq(OrderIds)
           /\ ToSet(batch) \cup ToSet(Waiting) = ToSet(drain.pending)
           /\ ToSet(batch) \cap ToSet(Waiting) = {}
<1> DEFINE pending == drain.pending
<1>1. CASE Mixed
  <2> DEFINE X == Reducing
             Y == ToSet(drain.pending) \ Reducing
  <2>1. Reduces = Only(pending, X) /\ Increases = Only(pending, Y)
    BY DEF Reduces, Increases
  <2>2. batch = Only(pending, X) /\ Waiting = Only(pending, Y)
    BY <1>1, <2>1 DEF Waiting
  <2>3. Y \cap X = {} /\ (ToSet(pending) \cap X) \cup (ToSet(pending) \cap Y) = ToSet(pending)
    OBVIOUS
  <2> HIDE DEF X
  <2>4. /\ Only(pending, X) \in Seq(OrderIds \cap X) /\ IsInjective(Only(pending, X))
        /\ ToSet(Only(pending, X)) = ToSet(pending) \cap X
    <3> HIDE DEF pending
    <3> QED BY OnlyInjective DEF pending
  <2> HIDE DEF Y
  <2>5. /\ Only(pending, Y) \in Seq(OrderIds \cap Y) /\ IsInjective(Only(pending, Y))
        /\ ToSet(Only(pending, Y)) = ToSet(pending) \cap Y
    <3> HIDE DEF pending
    <3> QED BY OnlyInjective DEF pending
  <2>6. \A Z : Seq(OrderIds \cap Z) \subseteq Seq(OrderIds)
    OBVIOUS
  <2>7. /\ batch \in Seq(OrderIds) /\ IsInjective(batch) /\ Waiting \in Seq(OrderIds)
        /\ ToSet(batch) = ToSet(pending) \cap X /\ ToSet(Waiting) = ToSet(pending) \cap Y
    BY <2>2, <2>4, <2>5, <2>6
  <2> QED BY <2>3, <2>7
<1>2. CASE ~Mixed
  <2>1. batch = pending /\ Waiting = <<>>
    BY <1>2 DEF Waiting
  <2>2. <<>> \in Seq(OrderIds) /\ ToSet(<<>>) = {}
    BY DEF ToSet
  <2> QED BY <2>1, <2>2
<1> QED BY <1>1, <1>2

\* t is s after the requests ids were answered; the others wait.
Answered(s, t, ids, risk, at) ==
    /\ t \in StateType /\ t.om = s.om /\ t.book = s.book
    /\ t.channel = Answers(ids, risk, at) /\ t.ord = Reduced(s.ord, ids, risk)
    /\ t.suppressed = s.suppressed
    /\ \A i \in OrderIds : Traded(t, i) = Traded(s, i)
    /\ \A i \in OrderIds : t.ledger.rejected[i] + t.ledger.rejectsTold[i]
         = s.ledger.rejected[i] + s.ledger.rejectsTold[i]
    /\ \A i \in OrderIds : t.ledger.untold[i] + t.ledger.told[i] = t.ledger.booked[i]

LEMMA AnsweredEven ==
    ASSUME NEW s, NEW pending, Good(s, pending, {}), Even(s, pending, {}), s.channel = <<>>,
           NEW ids \in Seq(OrderIds), IsInjective(ids), NEW rest \in Seq(OrderIds),
           ToSet(ids) \cup ToSet(rest) = ToSet(pending), ToSet(ids) \cap ToSet(rest) = {},
           NEW risk, \A i \in ToSet(ids) : risk[i] \in Nat, NEW at \in Nat,
           NEW t, Answered(s, t, ids, risk, at)
    PROVE  Even(t, rest, {})
BY RequestsCheckedEven DEF Answered

LEMMA RequestsTurnEven ==
    ASSUME IInv, EvenNow, channel = <<>>, RequestsTurn, ledger' \in LedgerType,
           Conserved(ledger, ledger'), UNCHANGED om, State(drain.suppressed)' \in StateType
    PROVE  EvenNow'
<1> DEFINE s == State(drain.suppressed)
           pending == drain.pending
           batch == IF Mixed THEN Reduces ELSE drain.pending
           t == State(drain.suppressed)'
<1>1. PICK risk \in [ToSet(batch) -> Nat \cap UNION {RiskVerdicts(ord[i]) : i \in ToSet(batch)}] :
          /\ \A i \in ToSet(batch) : risk[i] \in RiskVerdicts(ord[i])
          /\ ProcessRequests(batch, risk)
          /\ drain' = [drain EXCEPT
                 !.pending = Waiting,
                 !.intermediate = Mixed /\ PhaseOf("PostExec", ToSet(drain.pending)),
                 !.settle = FALSE]
          /\ UNCHANGED book
  BY DEF RequestsTurn
<1>2. /\ Good(s, pending, {}) /\ Even(s, pending, {}) /\ s \in StateType
      /\ s.om = om /\ s.book = book /\ s.ord = ord
      /\ s.channel = channel /\ s.suppressed = drain.suppressed /\ s.ledger = ledger
  <2> HIDE DEF s
  <2>1. s = State(drain.suppressed)
    BY DEF s
  <2> QED BY <2>1, NowFacts
<1>3. drain \in DrainType /\ pending \in Seq(OrderIds) /\ IsInjective(pending)
  BY <1>2 DEF Good, InOnePlace, IInv
<1> HIDE DEF s
<1>4. /\ batch \in Seq(OrderIds) /\ IsInjective(batch) /\ Waiting \in Seq(OrderIds)
      /\ ToSet(batch) \cup ToSet(Waiting) = ToSet(pending)
      /\ ToSet(batch) \cap ToSet(Waiting) = {}
  <2>1. batch = IF Mixed THEN Reduces ELSE drain.pending
    OBVIOUS
  <2> HIDE DEF batch
  <2> QED BY <1>3, <2>1, BatchFacts
<1> HIDE DEF batch
<1>5. \A i \in ToSet(batch) : risk[i] \in Nat
  BY <1>1
<1>6. Now \in Nat
  BY DEF IInv, FeedSound, FeedType, EventType, Now
<1>7. channel' = Answers(batch, risk, Now) /\ ord' = Reduced(ord, batch, risk)
  <2>1. /\ channel' = <<>> \o Answers(batch, risk, Now)
        /\ ord' = Reduced(ord, batch, risk)
    BY <1>1 DEF ProcessRequests, Answers, Reduced
  <2>2. Answers(batch, risk, Now) \in Seq({Answers(batch, risk, Now)[k] : k \in DOMAIN batch})
    BY <1>4 DEF Answers
  <2> QED BY <2>1, <2>2
<1>8. drain'.pending = Waiting /\ drain'.suppressed = drain.suppressed
  BY <1>1, <1>3 DEF DrainType
<1>9. t = [om |-> om, book |-> book, ord |-> ord', channel |-> channel', ledger |-> ledger',
           suppressed |-> drain.suppressed]
  BY <1>1, <1>8 DEF State
<1>10. /\ t.om = s.om /\ t.book = s.book /\ t.channel = Answers(batch, risk, Now)
       /\ t.ord = Reduced(s.ord, batch, risk) /\ t.suppressed = s.suppressed
       /\ t.ledger = ledger' /\ t \in StateType
  <2> HIDE DEF t
  <2>1. /\ t.om = om /\ t.book = book /\ t.ord = ord' /\ t.channel = channel'
        /\ t.ledger = ledger' /\ t.suppressed = drain.suppressed
    BY <1>9
  <2> QED BY <1>2, <1>7, <2>1 DEF t
<1>11. Even(t, Waiting, {})
  <2> HIDE DEF t, pending
  <2>1. /\ \A i \in OrderIds : Traded(t, i) = Traded(s, i)
        /\ \A i \in OrderIds : t.ledger.rejected[i] + t.ledger.rejectsTold[i]
             = s.ledger.rejected[i] + s.ledger.rejectsTold[i]
        /\ \A i \in OrderIds : t.ledger.untold[i] + t.ledger.told[i] = t.ledger.booked[i]
    BY <1>2, <1>10 DEF Conserved, Traded
  <2>2. s.channel = <<>>
    BY <1>2
  <2>3. Answered(s, t, batch, risk, Now)
    BY <1>10, <2>1 DEF Answered
  <2> QED BY <1>2, <1>4, <1>5, <1>6, <2>2, <2>3, AnsweredEven
<1> HIDE DEF t
<1> QED BY <1>8, <1>11 DEF EvenNow, t

LEMMA TurnEven ==
    ASSUME IInv, EvenNow, ChannelTurn
    PROVE  EvenNow'
<1>1. /\ Draining /\ channel = <<>> /\ UNCHANGED <<pc, om, feed>>
      /\ ledger' = IF drain.settle THEN Flush(ledger) ELSE ledger
      /\ IntermediateMatch \/ RequestsTurn
  BY DEF ChannelTurn
<1>2. /\ ledger \in LedgerType
      /\ \A i \in OrderIds : ledger.untold[i] + ledger.told[i] = ledger.booked[i]
  BY NowFacts
<1>3. ledger' \in LedgerType /\ Conserved(ledger, ledger')
  <2>1. Flush(ledger) \in LedgerType /\ Conserved(ledger, Flush(ledger))
    BY <1>2, FlushTyped, FlushConserves
  <2>2. Conserved(ledger, ledger)
    BY <1>2 DEF Conserved
  <2> QED BY <1>1, <1>2, <2>1, <2>2
<1>4. CASE IntermediateMatch
  BY <1>1, <1>3, <1>4, IntermediateEven
<1>5. CASE RequestsTurn
  <2>1. Good(State(drain.suppressed)', drain'.pending, {})
    BY <1>1, <1>3, <1>5, TurnKeeps
  <2>2. State(drain.suppressed)' \in StateType
    BY <2>1 DEF Good
  <2> QED BY <1>1, <1>3, <1>5, <2>2, RequestsTurnEven
<1> QED BY <1>1, <1>4, <1>5

-----------------------------------------------------------------------------
(***************************************************************************)
(* The stages.                                                             *)
(***************************************************************************)

\* What the accounts need of the stages: at the end of a run the channel holds no
\* report but rejections of orders that are still active, and no request but of
\* the exits of brackets; everything was handed to the strategy.
StageEven ==
    /\ pc \in {"Finish", "Done"} =>
          \A m \in ToSet(channel) : IF m.kind = "Report" THEN AwaitsItsSlice(State({}), m.id)
                                    ELSE ~NoBrackets
    /\ pc = "Done" => ledger.untold = None /\ ledger.rejected = None

\* The next state, after a step that keeps the invariant.
LEMMA NextFacts ==
    ASSUME IInv', NEW t, t = State(drain.suppressed)'
    PROVE  /\ t \in StateType /\ t.om = om' /\ t.book = book' /\ t.ord = ord'
           /\ t.channel = channel' /\ t.ledger = ledger' /\ t.suppressed = drain'.suppressed
<1>1. Good(State(drain.suppressed), drain.pending, {})'
  BY DEF IInv
<1>2. Good(t, drain'.pending, {})
  BY <1>1
<1>3. t = [om |-> om', book |-> book', ord |-> ord', channel |-> channel', ledger |-> ledger',
           suppressed |-> drain'.suppressed]
  BY DEF State
<1> QED BY <1>2, <1>3 DEF Good

LEMMA LeaveEven ==
    ASSUME IInv, EvenNow, ChannelLeave
    PROVE  EvenNow' /\ StageEven'
<1>1. /\ Draining /\ channel = <<>> /\ drain.pending = <<>>
      /\ ledger' = Flush(ledger) /\ drain' = IdleDrain /\ pc' = StageAfter(pc)
      /\ UNCHANGED <<om, book, ord, channel, feed>>
  BY DEF ChannelLeave
<1> DEFINE s == State(drain.suppressed)
           t == State(drain.suppressed)'
<1>2. /\ Even(s, drain.pending, {}) /\ s \in StateType
      /\ s.om = om /\ s.book = book /\ s.ord = ord /\ s.channel = channel
      /\ s.ledger = ledger /\ s.suppressed = drain.suppressed /\ ledger \in LedgerType
      /\ \A i \in OrderIds : ledger.untold[i] + ledger.told[i] = ledger.booked[i]
  <2>1. s = State(drain.suppressed)
    OBVIOUS
  <2> HIDE DEF s
  <2> QED BY <2>1, NowFacts
<1>3. /\ t \in StateType /\ t.om = om' /\ t.book = book' /\ t.ord = ord'
      /\ t.channel = channel' /\ t.ledger = ledger' /\ t.suppressed = drain'.suppressed
  <2>1. IInv' /\ t = State(drain.suppressed)'
    BY LeaveSound
  <2> HIDE DEF t
  <2> QED BY <2>1, NextFacts
<1>4. Conserved(ledger, ledger')
  BY <1>1, <1>2, FlushConserves
<1>5. drain'.pending = <<>> /\ drain'.suppressed = {}
  BY <1>1, IdleDrainTyped
<1> HIDE DEF s, t
<1>6. Even(t, <<>>, {})
  <2>1. /\ Even(s, <<>>, {}) /\ t.om = s.om /\ t.book = s.book /\ t.ord = s.ord
        /\ t.channel = s.channel /\ t.suppressed \subseteq s.suppressed
        /\ Conserved(s.ledger, t.ledger)
    BY <1>1, <1>2, <1>3, <1>4, <1>5
  <2> QED BY <1>2, <1>3, <2>1, LedgerEven
<1>7. pc' \in {"Data", "Strategy", "PostExec", "Cleanup"}
  BY <1>1, DrainingFacts
<1> QED BY <1>5, <1>6, <1>7 DEF EvenNow, StageEven, t

LEMMA ExecuteEven ==
    ASSUME IInv, EvenNow, Execute
    PROVE  EvenNow' /\ StageEven'
<1> DEFINE s == State(drain.suppressed)
           t == State(drain.suppressed)'
<1>1. /\ pc \in {"PreExec", "PostExec"} /\ pc' \in {"Channel2", "Channel4"}
      /\ UNCHANGED <<om, ord, drain, ledger, feed>> /\ ~Draining
  BY StageNames DEF Execute, Draining
<1>2. /\ Good(s, drain.pending, {}) /\ Even(s, drain.pending, {})
      /\ s.om = om /\ s.book = book /\ s.ord = ord /\ s.channel = channel
      /\ s.ledger = ledger /\ s.suppressed = drain.suppressed /\ ledger \in LedgerType
      /\ \A i \in OrderIds : ledger.untold[i] + ledger.told[i] = ledger.booked[i]
  <2>1. s = State(drain.suppressed)
    OBVIOUS
  <2> HIDE DEF s
  <2> QED BY <2>1, NowFacts
<1>3. Quiet(s)
  <2>1. CASE pc = "PreExec"
    <3>1. s = State({})
      BY <1>1, IdleFacts
    <3> HIDE DEF s
    <3> QED BY <2>1, <3>1 DEF IInv, StageSound
  <2>2. CASE pc = "PostExec"
    <3>1. channel = <<>>
      BY <2>2 DEF IInv, StageSound
    <3> QED BY <1>2, <3>1 DEF Quiet, ToSet
  <2> QED BY <1>1, <2>1, <2>2
<1>4. Even(t, drain.pending, {})
  <2>1. CASE UNCHANGED <<book, channel>>
    <3>1. t = s
      BY <1>1, <2>1 DEF State
    <3> HIDE DEF s, t
    <3> QED BY <1>2, <3>1
  <2>2. CASE \E v \in VerdictsOf(book, ord, {feed.event}, feed.priced, OrderIds) :
              LET done == OnEvent(book, ord, feed.event, Now, feed.session, feed.priced, v)
              IN  book' = done.book /\ channel' = channel \o done.reports
    <3>1. PICK v \in VerdictsOf(book, ord, {feed.event}, feed.priced, OrderIds) :
              LET done == OnEvent(book, ord, feed.event, Now, feed.session, feed.priced, v)
              IN  book' = done.book /\ channel' = channel \o done.reports
      BY <2>2
    <3> DEFINE done == OnEvent(book, ord, feed.event, Now, feed.session, feed.priced, v)
               u == [om |-> s.om, book |-> done.book, ord |-> s.ord,
                     channel |-> s.channel \o done.reports, ledger |-> ledger,
                     suppressed |-> s.suppressed]
    <3>2. feed.event \in EventType /\ Now \in Nat
      BY DEF IInv, FeedSound, FeedType, EventType, Now
    <3>3. /\ v \in VerdictsOf(s.book, s.ord, {feed.event}, feed.priced, OrderIds)
          /\ done = OnEvent(s.book, s.ord, feed.event, Now, feed.session, feed.priced, v)
      BY <1>2
    <3>4. Even(u, drain.pending, {})
      <4>1. u = [om |-> s.om, book |-> done.book, ord |-> s.ord,
                 channel |-> s.channel \o done.reports, ledger |-> ledger,
                 suppressed |-> s.suppressed]
        OBVIOUS
      <4>2. Conserved(s.ledger, ledger)
        BY <1>2 DEF Conserved
      <4> HIDE DEF u, s, done
      <4> QED BY <1>2, <1>3, <3>2, <3>3, <4>1, <4>2, MatchEven
    <3>5. t = u
      <4>1. om' = om /\ ord' = ord /\ ledger' = ledger /\ drain' = drain
            /\ book' = done.book /\ channel' = channel \o done.reports
        BY <1>1, <3>1
      <4>2. u = [om |-> om, book |-> done.book, ord |-> ord, channel |-> channel \o done.reports,
                 ledger |-> ledger, suppressed |-> drain.suppressed]
        BY <1>2
      <4> HIDE DEF u, done
      <4> QED BY <4>1, <4>2 DEF State
    <3> HIDE DEF u, t
    <3> QED BY <3>4, <3>5
  <2> QED BY <2>1, <2>2 DEF Execute
<1> HIDE DEF t, s
<1> QED BY <1>1, <1>4 DEF EvenNow, StageEven, t

LEMMA StrategyEven ==
    ASSUME IInv, EvenNow, Strategy
    PROVE  /\ EvenNow' /\ StageEven'
           /\ \A i \in OrderIds : Lives(om, om', ord[i].qty, i)
<1> DEFINE s == State(drain.suppressed)
           t == State(drain.suppressed)'
           l == ledger'
<1>1. /\ pc = "Strategy" /\ pc' = "Channel3" /\ channel = <<>> /\ ~Draining
      /\ ledger' = Tell(ledger) /\ drain' = drain
  BY StageNames DEF Strategy, IInv, StageSound, Draining
<1>2. PICK m \in Moves, S \in SUBSET {i \in OrderIds : om.status[i] \in Live} :
         Room(m) /\ Callback(m, S)
  BY DEF Strategy
<1>3. drain.pending = <<>> /\ drain.suppressed = {}
  BY <1>1, IdleFacts
<1>4. /\ Good(s, <<>>, {}) /\ Even(s, <<>>, {})
      /\ s.om = om /\ s.book = book /\ s.ord = ord /\ s.channel = <<>>
      /\ s.ledger = ledger /\ ledger \in LedgerType
      /\ \A i \in OrderIds : ledger.untold[i] + ledger.told[i] = ledger.booked[i]
  <2>1. s = State(drain.suppressed)
    OBVIOUS
  <2> HIDE DEF s
  <2> QED BY <1>1, <1>3, <2>1, NowFacts
<1>5. l \in LedgerType /\ Conserved(s.ledger, l)
  BY <1>1, <1>4, TellProperties, TellConserves
<1>6. Now \in Nat
  BY DEF IInv, FeedSound, FeedType, EventType, Now
<1>7. /\ t \in StateType /\ t.om = om' /\ t.book = book' /\ t.ord = ord'
      /\ t.channel = channel' /\ t.ledger = l /\ t.suppressed = {}
  <2>1. IInv' /\ t = State(drain.suppressed)'
    BY StrategySound
  <2> HIDE DEF t
  <2> QED BY <1>1, <1>3, <2>1, NextFacts
<1>8. Even(t, <<>>, {}) /\ \A i \in OrderIds : Lives(om, om', ord[i].qty, i)
  <2> HIDE DEF s, t, l
  <2> QED BY <1>1, <1>2, <1>4, <1>5, <1>6, <1>7, CallbackEven
<1> HIDE DEF s, t, l
<1> QED BY <1>1, <1>3, <1>8 DEF EvenNow, StageEven, t

LEMMA CleanupStageEven ==
    ASSUME IInv, EvenNow, CleanupStage
    PROVE  EvenNow' /\ StageEven'
<1>1. /\ pc = "Cleanup" /\ pc' = "Channel1" /\ om' = Cleanup(om) /\ ~Draining
      /\ UNCHANGED <<book, ord, channel, drain, ledger, feed>>
  BY StageNames DEF CleanupStage, Draining
<1> DEFINE s == State(drain.suppressed)
           t == State(drain.suppressed)'
<1>2. drain.pending = <<>> /\ channel = <<>>
  BY <1>1, IdleFacts DEF IInv, StageSound
<1>3. /\ Good(s, <<>>, {}) /\ Even(s, <<>>, {})
      /\ s.om = om /\ s.book = book /\ s.ord = ord /\ s.channel = channel
      /\ s.ledger = ledger /\ s.suppressed = drain.suppressed
  <2>1. s = State(drain.suppressed)
    OBVIOUS
  <2> HIDE DEF s
  <2> QED BY <1>2, <2>1, NowFacts
<1>4. /\ t \in StateType /\ t.om = om' /\ t.book = book' /\ t.ord = ord'
      /\ t.channel = channel' /\ t.ledger = ledger' /\ t.suppressed = drain'.suppressed
  <2>1. IInv' /\ t = State(drain.suppressed)'
    BY CleanupSound
  <2> HIDE DEF t
  <2> QED BY <2>1, NextFacts
<1> HIDE DEF s, t
<1>5. \A m \in ToSet(s.channel) : m.kind = "Report" => s.om.status[m.id] \notin Finished
  BY <1>2, <1>3 DEF ToSet
<1>6. /\ t.om = Cleanup(s.om) /\ t.ord = s.ord /\ t.channel = s.channel
      /\ t.book = s.book /\ t.ledger = s.ledger /\ t.suppressed = s.suppressed
  BY <1>1, <1>3, <1>4
<1>7. Even(t, <<>>, {})
  BY <1>3, <1>4, <1>5, <1>6, CleanupEven
<1> QED BY <1>1, <1>2, <1>7 DEF EvenNow, StageEven, t

LEMMA FinishEven ==
    ASSUME IInv, EvenNow, StageEven, Finish
    PROVE  EvenNow' /\ StageEven'
<1>1. /\ pc = "Finish" /\ pc' = "Done" /\ om' = Cleanup(om) /\ ledger' = Tell(ledger)
      /\ UNCHANGED <<book, ord, channel, drain, feed>> /\ ~Draining
  BY DEF Finish, Draining
<1> DEFINE s == State(drain.suppressed)
           t == State(drain.suppressed)'
<1>2. drain.pending = <<>> /\ drain.suppressed = {}
  BY <1>1, IdleFacts
<1>3. /\ Good(s, <<>>, {}) /\ Even(s, <<>>, {}) /\ s \in StateType
      /\ s.om = om /\ s.book = book /\ s.ord = ord /\ s.channel = channel
      /\ s.ledger = ledger /\ s.suppressed = drain.suppressed /\ ledger \in LedgerType
      /\ \A i \in OrderIds : ledger.untold[i] + ledger.told[i] = ledger.booked[i]
  <2>1. s = State(drain.suppressed)
    OBVIOUS
  <2> HIDE DEF s
  <2> QED BY <1>2, <2>1, NowFacts
<1>4. /\ t \in StateType /\ t.om = om' /\ t.book = book' /\ t.ord = ord'
      /\ t.channel = channel' /\ t.ledger = ledger' /\ t.suppressed = drain'.suppressed
  <2>1. IInv' /\ t = State(drain.suppressed)'
    BY FinishSound
  <2> HIDE DEF t
  <2> QED BY <2>1, NextFacts
<1>5. \A m \in ToSet(channel) : IF m.kind = "Report" THEN AwaitsItsSlice(s, m.id)
                                ELSE ~NoBrackets
  <2>1. s = State({})
    BY <1>2
  <2> HIDE DEF s
  <2> QED BY <1>1, <2>1 DEF StageEven
<1> DEFINE l == Tell(ledger)
           u == [om |-> s.om, book |-> s.book, ord |-> s.ord, channel |-> s.channel,
                 ledger |-> l, suppressed |-> s.suppressed]
<1>6. /\ Conserved(ledger, l) /\ l \in LedgerType /\ l.untold = None /\ l.rejected = None
  BY <1>3, TellConserves, TellProperties
<1> HIDE DEF s, t, l
<1>7. /\ u \in StateType /\ u.om = s.om /\ u.book = s.book /\ u.ord = s.ord
      /\ u.channel = s.channel /\ u.ledger = l /\ u.suppressed = s.suppressed
  BY <1>3, <1>6 DEF StateType
<1> HIDE DEF u
<1>8. Even(u, <<>>, {})
  <2>1. Conserved(s.ledger, u.ledger) /\ u.suppressed \subseteq s.suppressed
    BY <1>3, <1>6, <1>7
  <2> QED BY <1>3, <1>7, <2>1, LedgerEven
<1>9. Good(u, <<>>, {})
  <2>1. Cardinality(Planned(s.om)) \in Nat
    BY <1>3, PlannedFacts DEF StateType
  <2>2. NothingAdded(s.om, u.om)
    BY <1>7, <2>1 DEF NothingAdded
  <2> QED BY <1>3, <1>7, <2>2, RestKeeps
<1>10. \A m \in ToSet(u.channel) : m.kind = "Report" => u.om.status[m.id] \notin Finished
  BY <1>3, <1>5, <1>7, StatusFacts DEF AwaitsItsSlice
<1>11. Even(t, <<>>, {})
  <2>1. /\ t.om = Cleanup(u.om) /\ t.ord = u.ord /\ t.channel = u.channel
        /\ t.book = u.book /\ t.ledger = u.ledger /\ t.suppressed = u.suppressed
    BY <1>1, <1>3, <1>4, <1>7 DEF l
  <2> QED BY <1>4, <1>8, <1>9, <1>10, <2>1, CleanupEven
<1>12. \A m \in ToSet(channel') : IF m.kind = "Report" THEN AwaitsItsSlice(t, m.id)
                                  ELSE ~NoBrackets
  <2>1. om \in RegistryType
    BY RestFacts
  <2>2. \A i \in OrderIds :
           om'.status[i] = IF om.status[i] \in Finished THEN Absent ELSE om.status[i]
    <3> DEFINE c == om'
    <3>1. c = Cleanup(om)
      BY <1>1
    <3> HIDE DEF c
    <3>2. \A i \in OrderIds :
             c.status[i] = IF om.status[i] \in Finished THEN Absent ELSE om.status[i]
      BY <2>1, <3>1, CleanupProperties
    <3> QED BY <3>2 DEF c
  <2>3. channel' = channel /\ ord' = ord
    BY <1>1
  <2>4. \A m \in ToSet(channel) : m.id \in OrderIds
    BY <1>3, MessageIds
  <2>5. ASSUME NEW m \in ToSet(channel), m.kind = "Report"
        PROVE  AwaitsItsSlice(t, m.id)
    <3>1. AwaitsItsSlice(s, m.id) /\ m.id \in OrderIds
      BY <1>5, <2>4, <2>5
    <3>2. om.status[m.id] = "New" /\ ord[m.id].offset = 1
      BY <1>3, <3>1 DEF AwaitsItsSlice
    <3>3. om'.status[m.id] = "New"
      BY <2>2, <3>1, <3>2, StatusFacts DEF Finished
    <3> QED BY <1>4, <2>3, <3>2, <3>3 DEF AwaitsItsSlice
  <2> QED BY <1>5, <2>3, <2>5
<1>13. drain' = drain
  BY <1>1
<1>14. t = State({})'
  BY <1>2, <1>13 DEF t
<1>15. ledger'.untold = None /\ ledger'.rejected = None
  BY <1>1, <1>6 DEF l
<1>16. EvenNow'
  BY <1>2, <1>11, <1>13 DEF EvenNow, t
<1> QED BY <1>1, <1>12, <1>14, <1>15, <1>16 DEF StageEven

\* The end of a slice.
LEMMA FinalizeEven ==
    ASSUME IInv, EvenNow, pc = "Data", NEW v \in FinalVerdicts, NEW t, t = Finalize(v)
    PROVE  /\ Even(t, <<>>, {})
           /\ \A m \in ToSet(t.channel) : IF m.kind = "Report" THEN AwaitsItsSlice(t, m.id)
                                          ELSE ~NoBrackets
           /\ Unpaired => \A i \in OrderIds : Lives(om, t.om, ord[i].qty, i)
<1> DEFINE s == State(drain.suppressed)
<1>1. ~Draining /\ channel = <<>> /\ ledger.unbooked = None
  BY IdleFacts DEF IInv, StageSound, Draining
<1>2. drain.pending = <<>> /\ drain.suppressed = {}
  BY <1>1, IdleFacts
<1>3. /\ Good(s, <<>>, {}) /\ Even(s, <<>>, {})
      /\ s.om = om /\ s.book = book /\ s.ord = ord /\ s.channel = channel /\ s.ledger = ledger
  <2>1. s = State(drain.suppressed)
    OBVIOUS
  <2> HIDE DEF s
  <2> QED BY <1>2, <2>1, NowFacts
<1>4. s = State({})
  BY <1>2
<1>5. feed.last \in Nat /\ BarsSound(feed.bars, feed.last)
  BY DEF IInv, FeedSound, FeedType
<1>6. s.channel = <<>> /\ s.ledger.unbooked = None
  BY <1>1, <1>3
<1> HIDE DEF s
<1>7. CASE SliceOpen
  <2> DEFINE u == LastMatch(s, v)
  <2>1. t = RejectMissing(u)
    BY <1>4, <1>7 DEF Finalize
  <2>2. u = LastMatch(s, v)
    OBVIOUS
  <2> HIDE DEF u
  <2>3. /\ Good(u, <<>>, {}) /\ \A m \in ToSet(u.channel) : m.kind = "Request"
    BY <1>3, <1>5, <1>6, <1>7, <2>2, LastMatchKeeps
  <2>4. /\ Even(u, <<>>, {}) /\ (NoBrackets => ToSet(u.channel) = {})
        /\ Unpaired => \A i \in OrderIds : Lives(om, u.om, ord[i].qty, i)
    BY <1>3, <1>5, <1>6, <1>7, <2>2, LastMatchEven
  <2>5. /\ Even(t, <<>>, {})
        /\ \A m \in ToSet(t.channel) : IF m.kind = "Report" THEN AwaitsItsSlice(t, m.id)
                                       ELSE m \in ToSet(u.channel)
    BY <1>5, <2>1, <2>3, <2>4, RejectMissingEven
  <2>6. t.om = u.om
    BY <2>1, <2>3 DEF RejectMissing, Good, StateType
  <2> QED BY <2>4, <2>5, <2>6
<1>8. CASE ~SliceOpen
  <2>1. t = s
    BY <1>4, <1>8 DEF Finalize
  <2>2. ToSet(t.channel) = {}
    BY <1>6, <2>1 DEF ToSet
  <2>3. \A i \in OrderIds : SameRow(om, t.om, i)
    BY <1>3, <2>1 DEF SameRow
  <2> QED BY <1>3, <2>1, <2>2, <2>3, RestLives
<1> QED BY <1>7, <1>8

\* The data stage becomes t.
LEMMA BecomesEven ==
    ASSUME IInv, IInv', pc = "Data", NEW t, t \in StateType, Even(t, <<>>, {}), Becomes(t),
           drain' = drain,
           pc' = "PreExec" \/ /\ pc' = "Finish"
                              /\ \A m \in ToSet(t.channel) :
                                    IF m.kind = "Report" THEN AwaitsItsSlice(t, m.id)
                                    ELSE ~NoBrackets
    PROVE  EvenNow' /\ StageEven'
<1> DEFINE u == State(drain.suppressed)'
<1>1. ~Draining
  BY DEF Draining
<1>2. drain.pending = <<>> /\ drain.suppressed = {}
  BY <1>1, IdleFacts
<1>3. /\ u \in StateType /\ u.om = om' /\ u.book = book' /\ u.ord = ord'
      /\ u.channel = channel' /\ u.ledger = ledger' /\ u.suppressed = drain'.suppressed
  <2>1. u = State(drain.suppressed)'
    OBVIOUS
  <2> HIDE DEF u
  <2> QED BY <2>1, NextFacts
<1>4. u = State({})'
  BY <1>2
<1> HIDE DEF u
<1>5. /\ u.om = t.om /\ u.book = t.book /\ u.ord = t.ord /\ u.channel = t.channel
      /\ u.ledger = t.ledger /\ u.suppressed \subseteq t.suppressed
  BY <1>2, <1>3 DEF Becomes
<1>6. Conserved(t.ledger, u.ledger)
  BY <1>5, ToldFacts DEF Conserved
<1>7. Even(u, <<>>, {})
  BY <1>3, <1>5, <1>6, LedgerEven
<1>8. pc' = "Finish" => \A m \in ToSet(channel') :
         IF m.kind = "Report" THEN AwaitsItsSlice(u, m.id) ELSE ~NoBrackets
  <2>1. channel' = t.channel
    BY DEF Becomes
  <2>2. \A i : AwaitsItsSlice(u, i) <=> AwaitsItsSlice(t, i)
    BY <1>5 DEF AwaitsItsSlice
  <2> QED BY <2>1, <2>2
<1> QED BY <1>2, <1>4, <1>7, <1>8 DEF EvenNow, StageEven, u

-----------------------------------------------------------------------------
(***************************************************************************)
(* The data stage.                                                         *)
(***************************************************************************)

LEMMA RestAtDataEven ==
    ASSUME IInv, EvenNow, pc = "Data", NEW t, t = State({})
    PROVE  Good(t, <<>>, {}) /\ Even(t, <<>>, {}) /\ ToSet(t.channel) = {}
<1>1. ~Draining /\ channel = <<>>
  BY DEF IInv, StageSound, Draining
<1>2. drain.pending = <<>> /\ drain.suppressed = {}
  BY <1>1, IdleFacts
<1>3. t = State(drain.suppressed)
  BY <1>2
<1>4. Good(t, <<>>, {}) /\ Even(t, <<>>, {}) /\ t.channel = channel
  BY <1>2, <1>3, NowFacts
<1> QED BY <1>1, <1>4 DEF ToSet

LEMMA DataBarEven ==
    ASSUME NoNextBarDay, IInv, EvenNow, NEW sym \in Symbols, NEW ts \in Times,
           NEW traded \in BOOLEAN, NEW session \in Sessions, DataBar(sym, ts, traded, session)
    PROVE  EvenNow' /\ StageEven'
<1> DEFINE newSlice == feed.last # 0 /\ ts > feed.last
<1>1. PICK v \in IF ts > feed.last THEN FinalVerdicts ELSE {<<>>} :
         LET s == IF newSlice THEN Finalize(v) ELSE State({})
         IN  Becomes(IF DateOf[ts] = feed.date THEN s ELSE SettleDay(s))
  BY DEF DataBar
<1> DEFINE s == IF newSlice THEN Finalize(v) ELSE State({})
           t == IF DateOf[ts] = feed.date THEN s ELSE SettleDay(s)
<1>2. pc = "Data" /\ pc' = "PreExec" /\ drain' = drain
  BY StageNames DEF DataBar
<1>3. /\ Good(s, <<>>, {}) /\ Even(s, <<>>, {})
      /\ \A m \in ToSet(s.channel) : m.kind = "Report" => s.ord[m.id].offset = 1
  <2>1. CASE newSlice
    <3>1. v \in FinalVerdicts /\ s = Finalize(v)
      BY <1>1, <2>1
    <3> HIDE DEF s
    <3>2. Good(s, <<>>, {})
      BY <1>2, <3>1, FinalizeKeeps
    <3> QED BY <1>2, <3>1, <3>2, FinalizeEven DEF AwaitsItsSlice
  <2>2. CASE ~newSlice
    <3>1. s = State({})
      BY <2>2
    <3> HIDE DEF s
    <3> QED BY <1>2, <3>1, RestAtDataEven
  <2> QED BY <2>1, <2>2
<1>4. Becomes(t)
  BY <1>1
<1> HIDE DEF s
<1>5. Good(t, <<>>, {}) /\ Even(t, <<>>, {})
  <2>1. CASE DateOf[ts] = feed.date
    BY <1>3, <2>1
  <2>2. CASE DateOf[ts] # feed.date
    <3>1. t = SettleDay(s)
      BY <2>2
    <3> HIDE DEF t
    <3> QED BY <1>3, <3>1, SettleKeeps, SettleEven
  <2> QED BY <2>1, <2>2
<1> HIDE DEF t
<1>6. IInv'
  BY DataBarSound
<1> QED BY <1>2, <1>4, <1>5, <1>6, BecomesEven DEF Good

LEMMA DataTimerEven ==
    ASSUME IInv, EvenNow, NEW session \in Sessions, DataTimer(session)
    PROVE  EvenNow' /\ StageEven'
<1> DEFINE ends == TimerEndsSlice(Min(feed.timers))
<1>1. PICK v \in IF ends THEN FinalVerdicts ELSE {<<>>} :
         Becomes(IF ends THEN Finalize(v) ELSE State({}))
  BY DEF DataTimer
<1> DEFINE t == IF ends THEN Finalize(v) ELSE State({})
<1>2. pc = "Data" /\ pc' = "PreExec" /\ drain' = drain
  BY StageNames DEF DataTimer
<1>3. Becomes(t)
  BY <1>1
<1> HIDE DEF ends
<1>4. Good(t, <<>>, {}) /\ Even(t, <<>>, {})
  <2>1. CASE ends
    <3>1. v \in FinalVerdicts /\ t = Finalize(v)
      BY <1>1, <2>1
    <3> HIDE DEF t
    <3> QED BY <1>2, <3>1, FinalizeKeeps, FinalizeEven
  <2>2. CASE ~ends
    <3>1. t = State({})
      BY <2>2
    <3> HIDE DEF t
    <3> QED BY <1>2, <3>1, RestAtDataEven
  <2> QED BY <2>1, <2>2
<1> HIDE DEF t
<1>5. IInv'
  BY DataTimerSound
<1> QED BY <1>2, <1>3, <1>4, <1>5, BecomesEven DEF Good

LEMMA DataEndEven ==
    ASSUME IInv, EvenNow, DataEnd
    PROVE  EvenNow' /\ StageEven'
<1>1. PICK v \in FinalVerdicts : Becomes(Finalize(v))
  BY DEF DataEnd
<1>2. pc = "Data" /\ pc' = "Finish" /\ drain' = drain
  BY DEF DataEnd
<1> DEFINE t == Finalize(v)
<1>3. t = Finalize(v) /\ Becomes(t)
  BY <1>1
<1> HIDE DEF t
<1>4. Good(t, <<>>, {})
  BY <1>2, <1>3, FinalizeKeeps
<1>5. /\ Even(t, <<>>, {})
      /\ \A m \in ToSet(t.channel) : IF m.kind = "Report" THEN AwaitsItsSlice(t, m.id)
                                     ELSE ~NoBrackets
  BY <1>2, <1>3, FinalizeEven
<1>6. IInv'
  BY DataEndSound
<1> QED BY <1>2, <1>3, <1>4, <1>5, <1>6, BecomesEven DEF Good

LEMMA StutterEven ==
    ASSUME EvenNow, StageEven, UNCHANGED vars
    PROVE  EvenNow' /\ StageEven'
<1>1. /\ pc' = pc /\ om' = om /\ book' = book /\ ord' = ord /\ channel' = channel
      /\ drain' = drain /\ ledger' = ledger
  BY DEF vars
<1>2. State(drain.suppressed)' = State(drain.suppressed) /\ State({})' = State({})
  BY <1>1 DEF State
<1> QED BY <1>1, <1>2 DEF EvenNow, StageEven

LEMMA StepEven ==
    ASSUME NoNextBarDay, IInv, EvenNow, StageEven, [Next]_vars
    PROVE  EvenNow' /\ StageEven'
<1>1. CASE ChannelReceive
  <2>1. pc' = pc /\ Draining
    BY <1>1 DEF ChannelReceive
  <2> QED BY <1>1, <2>1, ReceiveStepEven DEF StageEven, Draining
<1>2. CASE ChannelTurn
  <2>1. pc' = pc /\ Draining
    BY <1>2 DEF ChannelTurn
  <2> QED BY <1>2, <2>1, TurnEven DEF StageEven, Draining
<1>3. CASE ChannelLeave
  BY <1>3, LeaveEven
<1>4. ASSUME NEW sym \in Symbols, NEW ts \in Times, NEW traded \in BOOLEAN,
             NEW session \in Sessions, DataBar(sym, ts, traded, session)
      PROVE  EvenNow' /\ StageEven'
  BY <1>4, DataBarEven
<1>5. ASSUME NEW session \in Sessions, DataTimer(session)
      PROVE  EvenNow' /\ StageEven'
  BY <1>5, DataTimerEven
<1>6. CASE DataEnd
  BY <1>6, DataEndEven
<1>7. CASE Execute
  BY <1>7, ExecuteEven
<1>8. CASE Strategy
  BY <1>8, StrategyEven
<1>9. CASE CleanupStage
  BY <1>9, CleanupStageEven
<1>10. CASE Finish
  BY <1>10, FinishEven
<1>11. CASE UNCHANGED vars
  BY <1>11, StutterEven
<1>12. CASE Returned
  BY <1>12, StutterEven DEF Returned
<1> QED BY <1>1, <1>2, <1>3, <1>4, <1>5, <1>6, <1>7, <1>8, <1>9, <1>10, <1>11, <1>12 DEF Next

-----------------------------------------------------------------------------
(***************************************************************************)
(* The theorems.                                                           *)
(***************************************************************************)

\* IInv and the accounts of every order.
AccountsInv == IInv /\ EvenNow /\ StageEven

\* Without next-bar Day orders the accounts of every order are right throughout a
\* run.
THEOREM AccountsSound == ASSUME NoNextBarDay PROVE Spec => []AccountsInv
<1>1. Init => AccountsInv
  BY InitSound, InitEven, StageNames DEF AccountsInv, StageEven, Init, Stages
<1>2. AccountsInv /\ [Next]_vars => AccountsInv'
  BY StepSound, StepEven DEF AccountsInv
<1> QED BY <1>1, <1>2, PTL DEF Spec

\* What the accounts say in the present state.
LEMMA AccountNow ==
    ASSUME AccountsInv, NEW i \in OrderIds, NEW s, s = State(drain.suppressed)
    PROVE  /\ Account(s, i, Asked(s, drain.pending, i), ReportsOf(s, {}, i))
           /\ s \in StateType /\ s.om = om /\ s.book = book /\ s.ord = ord
           /\ s.channel = channel /\ s.ledger = ledger
           /\ Shown(s, i) = View(i)
           /\ i \in Used(ord) => ord[i] \in Order
<1>1. /\ Even(s, drain.pending, {}) /\ s \in StateType /\ s.om = om /\ s.book = book
      /\ s.ord = ord /\ s.channel = channel /\ s.ledger = ledger
  BY NowFacts DEF AccountsInv
<1>2. Shown(s, i) = View(i)
  BY <1>1 DEF Shown, View
<1>3. i \in Used(ord) => ord[i] \in Order
  BY <1>1 DEF Used, StateType
<1> QED BY <1>1, <1>2, <1>3 DEF Even

\* HistoryOnce: no order is moved to the history twice, or works after it was moved,
\* if the settlement can expire no order that its missing symbol rejects.
THEOREM HistoryOnceCorrect == ASSUME NoNextBarDay PROVE Spec => []HistoryOnce
<1>1. AccountsInv => HistoryOnce
  <2> SUFFICES ASSUME AccountsInv, NEW i \in OrderIds
               PROVE  Len(om.history[i]) + (IF om.status[i] = Absent THEN 0 ELSE 1) <= 1
    BY DEF HistoryOnce
  <2> DEFINE s == State(drain.suppressed)
  <2>1. /\ Account(s, i, Asked(s, drain.pending, i), ReportsOf(s, {}, i))
        /\ s \in StateType /\ s.om = om
    <3>1. s = State(drain.suppressed)
      OBVIOUS
    <3> HIDE DEF s
    <3> QED BY <3>1, AccountNow
  <2> HIDE DEF s
  <2>2. Kept(s, i)
    BY <2>1 DEF Account
  <2>3. Len(om.history[i]) \in Nat /\ Len(om.history[i]) <= 1
    BY <2>1, <2>2, Amounts DEF Kept
  <2>4. om.status[i] # Absent => Len(om.history[i]) = 0
    BY <2>1, <2>2, Amounts DEF Kept
  <2>5. CASE om.status[i] = Absent
    BY <2>3, <2>5
  <2>6. CASE om.status[i] # Absent
    BY <2>4, <2>6
  <2> QED BY <2>5, <2>6
<1> QED BY <1>1, AccountsSound, PTL

\* BookAgreement: between two events the order manager and the client agree on the
\* working orders and their fills, if no order is bound to another and the client
\* loses no trade.
THEOREM BookAgreementCorrect ==
    ASSUME NoNextBarDay, Unpaired, NeverVanishes PROVE Spec => []BookAgreement
<1>1. AccountsInv => BookAgreement
  <2> SUFFICES ASSUME AccountsInv, pc = "Data", NEW i \in OrderIds
               PROVE  /\ om.status[i] \in Live <=> book.status[i] \in Live
                      /\ book.status[i] \in Live => om.filled[i] = book.filled[i]
    BY DEF BookAgreement
  <2> DEFINE s == State(drain.suppressed)
  <2>1. /\ Account(s, i, Asked(s, drain.pending, i), ReportsOf(s, {}, i))
        /\ s.om = om /\ s.book = book /\ s.channel = channel
    <3>1. s = State(drain.suppressed)
      OBVIOUS
    <3> HIDE DEF s
    <3> QED BY <3>1, AccountNow
  <2> HIDE DEF s
  <2>2. ReportsOf(s, {}, i) = {}
    <3>1. channel = <<>>
      BY DEF AccountsInv, IInv, StageSound
    <3> QED BY <2>1, <3>1 DEF ReportsOf, ToSet
  <2>3. i \in Active(book) <=> book.status[i] \in Live
    BY DEF Active
  <2> QED BY <2>1, <2>2, <2>3 DEF Account
<1> QED BY <1>1, AccountsSound, PTL

\* TradesAccounted: at the end of a run every fill that an order shows was booked
\* and told once.
THEOREM TradesAccountedCorrect ==
    ASSUME NoNextBarDay, NoDayOrders \/ AlwaysAffordable PROVE Spec => []TradesAccounted
<1>1. AccountsInv => TradesAccounted
  <2> SUFFICES ASSUME AccountsInv, pc = "Done", NEW i \in Used(ord)
               PROVE  /\ ledger.told[i] = ledger.booked[i] /\ ledger.unbooked[i] = 0
                      /\ View(i).status # "Rejected" =>
                           IF ord[i].resize THEN ledger.booked[i] <= View(i).filled
                           ELSE ledger.booked[i] = View(i).filled
    BY DEF TradesAccounted
  <2>0. i \in OrderIds
    BY DEF Used
  <2> DEFINE s == State(drain.suppressed)
  <2>1. /\ Account(s, i, Asked(s, drain.pending, i), ReportsOf(s, {}, i))
        /\ s \in StateType /\ s.om = om /\ s.ord = ord /\ s.ledger = ledger
        /\ Shown(s, i) = View(i) /\ ord[i] \in Order
    <3>1. s = State(drain.suppressed)
      OBVIOUS
    <3> HIDE DEF s
    <3> QED BY <2>0, <3>1, AccountNow
  <2> HIDE DEF s
  <2>2. ledger.unbooked[i] = 0 /\ ledger.untold[i] = 0
    BY <2>0, IdleFacts DEF AccountsInv, StageEven, None, Draining
  <2>3. ledger.booked[i] \in Nat /\ ledger.told[i] \in Nat
    BY <2>0, <2>1, Amounts
  <2>4. ledger.told[i] = ledger.booked[i]
    BY <2>1, <2>2, <2>3 DEF Account
  <2>5. Traded(s, i) = ledger.booked[i]
    BY <2>1, <2>2, <2>3 DEF Traded
  <2>6. Balanced(s, i)
    BY <2>1 DEF Account
  <2> QED BY <2>1, <2>2, <2>4, <2>5, <2>6 DEF Balanced
<1> QED BY <1>1, AccountsSound, PTL

\* RejectionsTold: at the end of a run the order manager knows every order that was
\* requested, and each rejection was told once, if no order is expired by the
\* settlement and none waits for exits.
THEOREM RejectionsToldCorrect ==
    ASSUME NoDayOrders, NoBrackets PROVE Spec => []RejectionsTold
<1>0. NoNextBarDay
  BY DEF NoDayOrders, NoNextBarDay
<1>1. AccountsInv => RejectionsTold
  <2> SUFFICES ASSUME AccountsInv, pc = "Done", NEW i \in Used(ord)
               PROVE  /\ Known(i)
                      /\ ledger.rejectsTold[i] = IF View(i).status = "Rejected" THEN 1 ELSE 0
    BY DEF RejectionsTold
  <2>0. i \in OrderIds
    BY DEF Used
  <2> DEFINE s == State(drain.suppressed)
  <2>1. /\ Account(s, i, Asked(s, drain.pending, i), ReportsOf(s, {}, i))
        /\ s \in StateType /\ s.om = om /\ s.ord = ord /\ s.channel = channel
        /\ s.ledger = ledger /\ Shown(s, i) = View(i) /\ ord[i] \in Order
    <3>1. s = State(drain.suppressed)
      OBVIOUS
    <3> HIDE DEF s
    <3> QED BY <2>0, <3>1, AccountNow
  <2>2. drain.pending = <<>> /\ drain.suppressed = {}
    BY IdleFacts DEF AccountsInv, Draining
  <2>3. \A m \in ToSet(channel) : m.kind = "Report" /\ AwaitsItsSlice(s, m.id)
    BY <2>2 DEF AccountsInv, StageEven
  <2> HIDE DEF s
  <2>4. ~Asked(s, drain.pending, i)
    BY <2>1, <2>2, <2>3 DEF Asked, ToSet
  <2>5. ReportsOf(s, {}, i) # {} => om.status[i] # Absent
    BY <2>1, <2>3, StatusFacts DEF ReportsOf, AwaitsItsSlice
  <2>6. Known(i)
    BY <2>1, <2>4, <2>5 DEF Account, Known
  <2>7. ledger.rejected[i] = 0 /\ ledger.rejectsTold[i] \in Nat
    BY <2>0, <2>1, Amounts DEF AccountsInv, StageEven, None
  <2>8. Noted(s, i)
    BY <2>1 DEF Account
  <2> QED BY <2>1, <2>6, <2>7, <2>8 DEF Noted
<1> QED BY <1>0, <1>1, AccountsSound, PTL

-----------------------------------------------------------------------------
(***************************************************************************)
(* The refinement of OrderLifecycle.                                       *)
(***************************************************************************)

\* The order manager archives what finished; what an order shows stays.
LEMMA CleanupLives ==
    ASSUME AccountsInv, NEW r, r = Cleanup(om), NEW q, NEW i \in OrderIds
    PROVE  Lives(om, r, q, i)
<1>1. Kept(State(drain.suppressed), i)
  BY DEF AccountsInv, EvenNow, Even, Account
<1>2. om.status[i] # Absent => om.history[i] = <<>>
  BY <1>1 DEF Kept, State
<1>3. om \in RegistryType
  BY RestFacts DEF AccountsInv
<1>4. /\ r.status[i] = IF om.status[i] \in Finished THEN Absent ELSE om.status[i]
      /\ r.filled[i] = IF om.status[i] \in Finished THEN 0 ELSE om.filled[i]
      /\ r.history[i] = IF om.status[i] \in Finished
                        THEN Append(om.history[i], [status |-> om.status[i], filled |-> om.filled[i]])
                        ELSE om.history[i]
  BY <1>3, CleanupProperties
<1>5. CASE om.status[i] \in Finished
  <2> DEFINE row == [status |-> om.status[i], filled |-> om.filled[i]]
             h == r.history[i]
  <2>1. om.history[i] = <<>> /\ om.status[i] # Absent
    BY <1>2, <1>5, StatusFacts
  <2>2. h = Append(<<>>, row)
    BY <1>4, <1>5, <2>1
  <2> HIDE DEF row
  <2>3. h # <<>> /\ Head(h) = row
    BY <2>2
  <2>4. LifeStatus(om, i) = om.status[i] /\ LifeFilled(om, i) = om.filled[i]
    BY <2>1, UnarchivedLife
  <2>5. LifeStatus(r, i) = row.status /\ LifeFilled(r, i) = row.filled
    BY <2>3 DEF LifeStatus, LifeFilled, Snapshot
  <2> QED BY <2>4, <2>5 DEF Lives, row
<1>6. CASE om.status[i] \notin Finished
  BY <1>4, <1>6, RestLives DEF SameRow
<1> QED BY <1>5, <1>6

\* No Day order is known, so that the settlement expires none.
LEMMA SettleNone ==
    ASSUME NoDayOrders, NEW s, Even(s, <<>>, {}), Good(s, <<>>, {}), NEW i \in OrderIds
    PROVE  SameRow(s.om, SettleDay(s).om, i)
<1>1. ExpiredDayOrders(s) = {}
  <2>1. ASSUME NEW j \in OrderIds, s.om.status[j] # Absent PROVE s.ord[j].tif # "Day"
    BY <2>1 DEF Good, Even, Account, Kept
  <2> QED BY <2>1 DEF ExpiredDayOrders
<1>2. s \in StateType
  BY DEF Good
<1> DEFINE r == s.om
           u == ExpireAtSettlement(r, {})
<1>3. SettleDay(s).om = u
  BY <1>1, <1>2 DEF SettleDay, StateType
<1>4. r \in RegistryType
  BY <1>2 DEF StateType
<1> HIDE DEF r
<1>5. u.status[i] = r.status[i] /\ u.filled[i] = r.filled[i] /\ u.history[i] = r.history[i]
  BY <1>4 DEF ExpireAtSettlement, RegistryType
<1> QED BY <1>3, <1>5 DEF SameRow, r

\* A bar: the slice that it ends, and the settlement of the day that it ends.
LEMMA DataBarLives ==
    ASSUME NoDayOrders, Unpaired, AccountsInv, NEW sym \in Symbols, NEW ts \in Times,
           NEW traded \in BOOLEAN, NEW session \in Sessions, DataBar(sym, ts, traded, session),
           NEW i \in OrderIds
    PROVE  Lives(om, om', ord[i].qty, i)
<1> DEFINE newSlice == feed.last # 0 /\ ts > feed.last
<1>1. PICK v \in IF ts > feed.last THEN FinalVerdicts ELSE {<<>>} :
         LET s == IF newSlice THEN Finalize(v) ELSE State({})
         IN  Becomes(IF DateOf[ts] = feed.date THEN s ELSE SettleDay(s))
  BY DEF DataBar
<1> DEFINE s == IF newSlice THEN Finalize(v) ELSE State({})
           t == IF DateOf[ts] = feed.date THEN s ELSE SettleDay(s)
<1>2. pc = "Data" /\ IInv /\ EvenNow
  BY DEF DataBar, AccountsInv
<1>3. Good(s, <<>>, {}) /\ Even(s, <<>>, {}) /\ Lives(om, s.om, ord[i].qty, i)
  <2>1. CASE newSlice
    <3>1. v \in FinalVerdicts /\ s = Finalize(v)
      BY <1>1, <2>1
    <3> HIDE DEF s
    <3> QED BY <1>2, <3>1, FinalizeKeeps, FinalizeEven
  <2>2. CASE ~newSlice
    <3>1. s = State({})
      BY <2>2
    <3>2. SameRow(om, s.om, i)
      BY <3>1 DEF State, SameRow
    <3> HIDE DEF s
    <3> QED BY <1>2, <3>1, <3>2, RestAtDataEven, RestLives
  <2> QED BY <2>1, <2>2
<1>4. Becomes(t)
  BY <1>1
<1> HIDE DEF s
<1>5. SameRow(s.om, t.om, i)
  <2>1. CASE DateOf[ts] = feed.date
    BY <2>1 DEF SameRow
  <2>2. CASE DateOf[ts] # feed.date
    BY <1>3, <2>2, SettleNone
  <2> QED BY <2>1, <2>2
<1>6. om' = t.om
  BY <1>4 DEF Becomes
<1> HIDE DEF t
<1> QED BY <1>3, <1>5, <1>6, LivesOn

\* A slice that a timer or the end of the data ends.
LEMMA FinalizeLives ==
    ASSUME Unpaired, AccountsInv, pc = "Data", NEW v \in FinalVerdicts, Becomes(Finalize(v)),
           NEW i \in OrderIds
    PROVE  Lives(om, om', ord[i].qty, i)
<1> DEFINE t == Finalize(v)
<1>1. t = Finalize(v) /\ om' = t.om
  BY DEF Becomes
<1> HIDE DEF t
<1> QED BY <1>1, FinalizeEven DEF AccountsInv

\* Every order rests or makes one step of its life.
LEMMA StepLives ==
    ASSUME NoDayOrders, Unpaired, AccountsInv, [Next]_vars, NEW i \in OrderIds
    PROVE  Lives(om, om', ord[i].qty, i)
<1>1. CASE ChannelReceive
  BY <1>1, ReceiveStepEven DEF AccountsInv
<1>2. CASE om' = om
  BY <1>2, RestLives DEF SameRow
<1>3. ASSUME NEW sym \in Symbols, NEW ts \in Times, NEW traded \in BOOLEAN,
             NEW session \in Sessions, DataBar(sym, ts, traded, session)
      PROVE  Lives(om, om', ord[i].qty, i)
  BY <1>3, DataBarLives
<1>4. ASSUME NEW session \in Sessions, DataTimer(session)
      PROVE  Lives(om, om', ord[i].qty, i)
  <2> DEFINE ends == TimerEndsSlice(Min(feed.timers))
  <2>1. PICK v \in IF ends THEN FinalVerdicts ELSE {<<>>} :
           Becomes(IF ends THEN Finalize(v) ELSE State({}))
    BY <1>4 DEF DataTimer
  <2>2. pc = "Data"
    BY <1>4 DEF DataTimer
  <2> HIDE DEF ends
  <2>3. CASE ends
    BY <2>1, <2>2, <2>3, FinalizeLives
  <2>4. CASE ~ends
    <3>1. Becomes(State({}))
      BY <2>1, <2>4
    <3> QED BY <1>2, <3>1 DEF Becomes, State
  <2> QED BY <2>3, <2>4
<1>5. CASE DataEnd
  <2>1. PICK v \in FinalVerdicts : Becomes(Finalize(v))
    BY <1>5 DEF DataEnd
  <2> QED BY <1>5, <2>1, FinalizeLives DEF DataEnd
<1>6. CASE Strategy
  BY <1>6, StrategyEven DEF AccountsInv
<1>7. CASE om' = Cleanup(om)
  BY <1>7, CleanupLives
<1>8. CASE UNCHANGED vars
  BY <1>2, <1>8 DEF vars
<1>9. CASE Next
  BY <1>1, <1>2, <1>3, <1>4, <1>5, <1>6, <1>7, <1>8, <1>9
  DEF Next, ChannelTurn, ChannelLeave, Execute, CleanupStage, Finish, Returned
<1> QED BY <1>8, <1>9

\* What OrderLifecycle sees of an order.
LEMMA LifeFacts ==
    ASSUME AccountsInv, NEW i \in OrderIds
    PROVE  /\ LifeStatus(om, i) = IF Known(i) THEN View(i).status ELSE "Unknown"
           /\ LifeFilled(om, i) = IF Known(i) THEN View(i).filled ELSE 0
           /\ Known(i) => ord[i] # NoOrder /\ LifeStatus(om, i) # "Unknown"
           /\ LifeFilled(om, i) \in Nat
<1> DEFINE s == State(drain.suppressed)
<1>1. s = State(drain.suppressed)
  OBVIOUS
<1> HIDE DEF s
<1>2. /\ Account(s, i, Asked(s, drain.pending, i), ReportsOf(s, {}, i))
      /\ Good(s, drain.pending, {}) /\ s \in StateType /\ s.om = om /\ s.ord = ord
  BY <1>1, AccountNow, NowFacts DEF AccountsInv
<1>3. om.status[i] # Absent => ord[i] \in Order
  BY <1>2 DEF Good
<1>4. om.history[i] # <<>> => ord[i] \in Order
  BY <1>2 DEF Account
<1>5. NoOrder \notin Order
  BY NoOrderAssumption
<1>6. om \in RegistryType
  BY <1>2 DEF StateType
<1>7. om.history[i] # <<>> => Head(om.history[i]) \in Row
  BY <1>6 DEF RegistryType
<1>8. Known(i) => View(i).status \in Status /\ View(i).filled \in Nat
  BY <1>6, <1>7 DEF Known, View, Snapshot, RegistryType, Row
<1>9. "Unknown" \notin Status
  BY DEF Status, Live, Finished
<1> QED BY <1>3, <1>4, <1>5, <1>8, <1>9 DEF LifeStatus, LifeFilled, Known, View

\* An order is known once, its fills only grow, up to its quantity, and it ends
\* once: the order manager's tables implement OrderLifecycle (order_manager.rs,
\* on_execution_report and cleanup_finished_orders).
THEOREM OrdersLiveOnceCorrect == ASSUME NoDayOrders, Unpaired PROVE Spec => OrdersLiveOnce
<1>1. Init => Lifecycle!Init
  BY DEF Init, Lifecycle!Init, Known, View, EmptyRegistry
<1>2. NoNextBarDay
  BY DEF NoDayOrders, NoNextBarDay
<1>3. AccountsInv /\ [Next]_vars => AccountsInv'
  BY <1>2, StepSound, StepEven DEF AccountsInv
<1>4. AccountsInv /\ [Next]_vars => Lifecycle!Next
  <2> SUFFICES ASSUME AccountsInv, [Next]_vars, NEW i \in OrderIds
               PROVE  \/ Lifecycle!Rests(i) \/ Lifecycle!Appears(i)
                      \/ Lifecycle!Fills(i) \/ Lifecycle!Ends(i)
    BY DEF Lifecycle!Next
  <2> DEFINE q == IF ord[i] = NoOrder THEN 0 ELSE ord[i].qty
             a == LifeStatus(om, i)
             f == LifeFilled(om, i)
             b == LifeStatus(om, i)'
             g == LifeFilled(om, i)'
  <2>1. Lives(om, om', ord[i].qty, i)
    BY StepLives
  <2>2. /\ a = IF Known(i) THEN View(i).status ELSE "Unknown"
        /\ f = IF Known(i) THEN View(i).filled ELSE 0
        /\ Known(i) => ord[i] # NoOrder
        /\ ~Known(i) => a = "Unknown"
    BY LifeFacts
  <2>3. AccountsInv'
    BY <1>3
  <2>4. /\ b = (IF Known(i) THEN View(i).status ELSE "Unknown")'
        /\ g = (IF Known(i) THEN View(i).filled ELSE 0)'
    BY <2>3 DEF LifeStatus, LifeFilled, Known, View
  <2>5. b = LifeStatus(om', i) /\ g = LifeFilled(om', i)
    BY DEF LifeStatus, LifeFilled, Snapshot
  <2>6. a \in Live => q = ord[i].qty
    BY <2>2 DEF Live
  <2>7. /\ Lifecycle!Rests(i) <=> b = a /\ g = f
        /\ Lifecycle!Appears(i) <=> a = "Unknown" /\ b \in {"New", "Rejected"} /\ g = 0
        /\ Lifecycle!Fills(i) <=> /\ a \in Live /\ g > f /\ g <= q
                                  /\ b = IF g = q THEN "Filled" ELSE "PartiallyFilled"
        /\ Lifecycle!Ends(i) <=> /\ a \in Live /\ b \in Finished \ {"Filled"}
                                 /\ g = IF b = "Rejected" THEN 0 ELSE f
    BY <2>2, <2>4 DEF Lifecycle!Rests, Lifecycle!Appears, Lifecycle!Fills, Lifecycle!Ends,
                      Lifecycle!Working, Lifecycle!Ended, Live, Finished
  <2> HIDE DEF q, a, f, b, g
  <2>8. \/ b = a /\ g = f
        \/ a = "Unknown" /\ b \in {"New", "Rejected"} /\ g = 0
        \/ /\ a \in Live /\ g > f /\ g <= ord[i].qty
           /\ b = IF g = ord[i].qty THEN "Filled" ELSE "PartiallyFilled"
        \/ /\ a \in Live /\ b \in Finished \ {"Filled"}
           /\ g = IF b = "Rejected" THEN 0 ELSE f
    BY <2>1, <2>5 DEF Lives, a, f
  <2> QED BY <2>6, <2>7, <2>8
<1> QED BY <1>1, <1>2, <1>4, AccountsSound, PTL DEF Spec, OrdersLiveOnce, Lifecycle!Spec

-----------------------------------------------------------------------------
(***************************************************************************)
(* Reduces fund increases.                                                 *)
(***************************************************************************)

\* The exits to come, the requests on their way, and the trades on theirs.
PlansReduce(s) == \A i \in OrderIds : s.om.plans[i] # {} =>
                      s.ord[i] \in Order /\ s.ord[i].effect # "Open"
RequestsReduce(s, pending) ==
    /\ \A m \in ToSet(s.channel) : m.kind = "Request" => ReduceFirst(s.ord[m.id])
    /\ \A i \in ToSet(pending) : ReduceFirst(s.ord[i])
NothingTraded(s) ==
    /\ s.ledger.unbooked = None
    /\ \A m \in ToSet(s.channel) : m.kind = "Report" => m.trade = 0

\* t has the orders of s, on the same side and to the same effect, and no new plan.
SameSides(s, t) ==
    /\ \A i \in OrderIds : s.ord[i] \in Order =>
          /\ t.ord[i] \in Order /\ t.ord[i].side = s.ord[i].side
          /\ t.ord[i].effect = s.ord[i].effect
    /\ \A i \in OrderIds : t.om.plans[i] \subseteq s.om.plans[i]

LEMMA PlansKept ==
    ASSUME NEW s, NEW t, PlansReduce(s), SameSides(s, t)
    PROVE  PlansReduce(t)
<1> SUFFICES ASSUME NEW i \in OrderIds, t.om.plans[i] # {}
             PROVE  t.ord[i] \in Order /\ t.ord[i].effect # "Open"
  BY DEF PlansReduce
<1>1. s.om.plans[i] # {}
  BY DEF SameSides
<1>2. s.ord[i] \in Order /\ s.ord[i].effect # "Open"
  BY <1>1 DEF PlansReduce
<1> QED BY <1>2 DEF SameSides

\* A report is applied: its order's exits reduce, and without a trade nothing is
\* to be booked for it.
LEMMA ReportReduces ==
    ASSUME NEW s, NEW pending, NEW reports, Good(s, pending, reports), NEW r \in reports,
           NEW t, t = ApplyReport(s, r), PlansReduce(s)
    PROVE  /\ PlansReduce(t) /\ SameSides(s, t)
           /\ \A m \in ToSet(t.channel) : \/ m \in ToSet(s.channel)
                                          \/ m.kind = "Request" /\ ReduceFirst(t.ord[m.id])
           /\ r.trade = 0 => t.ledger.unbooked = s.ledger.unbooked
<1>1. /\ s \in StateType /\ r \in ReportType /\ s.ord[r.id] \in Order
      /\ Used(s.ord) = 1 .. Drawn(s) /\ s.channel \in Seq(MessageType)
  BY DEF Good, MessageSound, StateType
<1>2. \E k \in Nat, P \in SUBSET OrderIds : Applied(s, r, t, k, P)
  BY ReportKeeps
<1>3. PICK k \in Nat, P \in SUBSET OrderIds : Applied(s, r, t, k, P)
  BY <1>2
<1>4. t \in StateType /\ Extended(s, t, k) /\ \A i \in OrderIds : t.om.plans[i] \subseteq s.om.plans[i]
  BY <1>3 DEF Applied
<1>5. SameSides(s, t)
  <2>1. \A i \in OrderIds : s.ord[i] \in Order => t.ord[i] = s.ord[i]
    BY <1>1, <1>4, ExtendedProperties
  <2> QED BY <1>4, <2>1 DEF SameSides
<1>6. PlansReduce(t)
  BY <1>5, PlansKept
<1> DEFINE n == Drawn(s)
           new == Requests(n, k)
<1>7. \A j \in n + 1 .. n + k : j \in OrderIds /\ s.ord[j] \notin Order /\ t.ord[j] \in Order
  BY <1>1, <1>4, ExtendedProperties
<1>8. ASSUME NEW j \in n + 1 .. n + k
      PROVE  ReduceFirst(t.ord[j])
  <2>1. j \in OrderIds /\ t.ord[j] # s.ord[j]
    BY <1>7
  <2>2. t.ord[j].side = "Sell" /\ t.ord[j].effect = s.ord[r.id].effect /\ s.om.plans[r.id] # {}
    BY <1>3, <2>1 DEF Applied, ExitsOnly, ExitTerms
  <2>3. s.ord[r.id].effect # "Open" /\ s.ord[r.id].effect \in {"Open", "Close", "Auto"}
    BY <1>1, <2>2 DEF PlansReduce, ReportType, Order
  <2> QED BY <2>2, <2>3 DEF ReduceFirst
<1>9. n \in Nat /\ t.channel = s.channel \o new
  BY <1>1, <1>4, UsedFacts DEF Extended
<1> HIDE DEF n
<1>10. /\ new \in Seq(MessageType)
       /\ \A m \in ToSet(new) : m.kind = "Request" /\ m.id \in n + 1 .. n + k
  <2>1. new = [j \in 1 .. k |-> [kind |-> "Request", id |-> n + j]]
    BY DEF Requests
  <2>2. \A j \in 1 .. k : n + j \in n + 1 .. n + k /\ n + j \in OrderIds
    BY <1>7, <1>9
  <2>3. \A j \in 1 .. k : [kind |-> "Request", id |-> n + j] \in MessageType
    BY <2>2 DEF MessageType
  <2> HIDE DEF new
  <2> QED BY <2>1, <2>2, <2>3 DEF ToSet
<1> HIDE DEF new
<1>11. ToSet(t.channel) = ToSet(s.channel) \cup ToSet(new)
  BY <1>1, <1>9, <1>10, ToSetConcat
<1>12. \A m \in ToSet(t.channel) : \/ m \in ToSet(s.channel)
                                   \/ m.kind = "Request" /\ ReduceFirst(t.ord[m.id])
  BY <1>8, <1>10, <1>11
<1>13. ASSUME r.trade = 0
       PROVE  t.ledger.unbooked = s.ledger.unbooked
  <2>1. s.ledger.unbooked \in Counts /\ t.ledger.unbooked \in Counts
    BY <1>1, <1>4 DEF StateType, LedgerType
  <2>2. \A j \in OrderIds : t.ledger.unbooked[j] = s.ledger.unbooked[j]
    <3>1. \A j \in OrderIds : t.ledger.unbooked[j] = IF j = r.id /\ ~Dropped(s, r)
                                    THEN s.ledger.unbooked[j] + r.trade ELSE s.ledger.unbooked[j]
      BY <1>3 DEF Applied
    <3>2. \A j \in OrderIds : s.ledger.unbooked[j] \in Nat
      BY <2>1 DEF Counts
    <3> QED BY <1>13, <3>1, <3>2
  <2> QED BY <2>1, <2>2 DEF Counts
<1> QED BY <1>5, <1>6, <1>12, <1>13

\* What was said of the requests holds of them after a step that adds requests to
\* reduce only.
LEMMA RequestsKept ==
    ASSUME NEW s, NEW pending, NEW reports, Good(s, pending, reports),
           NEW t, NEW rest, SameSides(s, t), RequestsReduce(s, pending),
           \A m \in ToSet(t.channel) : \/ m \in ToSet(s.channel) \/ m.kind # "Request"
                                       \/ ReduceFirst(t.ord[m.id]),
           \A i \in ToSet(rest) : \/ i \in ToSet(pending)
                                  \/ \E m \in ToSet(s.channel) : m.kind = "Request" /\ m.id = i
    PROVE  RequestsReduce(t, rest)
<1>1. \A i \in OrderIds : s.ord[i] \in Order /\ ReduceFirst(s.ord[i]) => ReduceFirst(t.ord[i])
  BY DEF SameSides, ReduceFirst
<1>2. \A m \in ToSet(s.channel) : m.id \in OrderIds /\ s.ord[m.id] \in Order
  BY MessageIds DEF Good, MessageSound
<1>3. \A i \in ToSet(pending) : i \in OrderIds /\ s.ord[i] \in Order
  <2>1. pending \in Seq(OrderIds)
    BY DEF Good, InOnePlace
  <2> QED BY <2>1 DEF Good, RequestSound, ToSet
<1>4. \A m \in ToSet(t.channel) : m.kind = "Request" => ReduceFirst(t.ord[m.id])
  BY <1>1, <1>2 DEF RequestsReduce
<1>5. \A i \in ToSet(rest) : ReduceFirst(t.ord[i])
  BY <1>1, <1>2, <1>3 DEF RequestsReduce
<1> QED BY <1>4, <1>5 DEF RequestsReduce

\* One message is taken from the channel.
LEMMA ReceiveReduces ==
    ASSUME NEW s, NEW pending, Good(s, pending, {}), s.channel # <<>>, PlansReduce(s),
           NEW m, m = Head(s.channel), NEW u, u = Popped(s),
           NEW t, t \in StateType, m.kind = "Request" => t = u,
           m.kind = "Validated" => t = WithOrder(u, m.id),
           m.kind = "Report" => t = ApplyReport(u, m),
           NEW next, next = IF m.kind = "Request" THEN Append(pending, m.id) ELSE pending
    PROVE  /\ PlansReduce(t)
           /\ RequestsReduce(s, pending) => RequestsReduce(t, next)
           /\ NothingTraded(s) => NothingTraded(t)
<1>1. s \in StateType
  BY DEF Good
<1>2. /\ u \in StateType /\ u.om = s.om /\ u.book = s.book /\ u.ord = s.ord
      /\ u.ledger = s.ledger /\ u.channel = Tail(s.channel)
      /\ ToSet(s.channel) = {m} \cup ToSet(u.channel)
  BY <1>1, PoppedProperties
<1>3. /\ m \in MessageType /\ m.id \in OrderIds /\ MessageSound(u, m)
      /\ m.id \notin ToSet(pending) /\ \A d \in ToSet(u.channel) : d.id # m.id
      /\ Good(u, pending, {})
  BY <1>2, HeadTaken
<1>4. m.kind \in {"Request", "Validated", "Report"}
  BY <1>3 DEF MessageType, ReportType
<1>5. /\ SameSides(s, t)
      /\ \A d \in ToSet(t.channel) : \/ d \in ToSet(u.channel)
                                     \/ d.kind = "Request" /\ ReduceFirst(t.ord[d.id])
      /\ m.kind # "Report" \/ m.trade = 0 => t.ledger.unbooked = s.ledger.unbooked
  <2>1. CASE m.kind = "Request"
    BY <1>1, <1>2, <2>1 DEF SameSides, StateType, RegistryType
  <2>2. CASE m.kind = "Validated"
    <3> DEFINE o == AddActive(u.om, m.id)
               b == OnOrder(u.book, m.id)
    <3>1. t = [u EXCEPT !.book = b, !.om = o]
      BY <2>2 DEF WithOrder
    <3>2. o.plans = u.om.plans
      <4>1. u.om \in RegistryType
        BY <1>2 DEF StateType
      <4> QED BY <4>1 DEF AddActive, RegistryType
    <3> HIDE DEF o, b
    <3>3. t.om = o /\ t.ord = u.ord /\ t.channel = u.channel /\ t.ledger = u.ledger
      BY <1>2, <3>1 DEF StateType
    <3> QED BY <1>2, <2>2, <3>2, <3>3 DEF SameSides
  <2>3. CASE m.kind = "Report"
    <3> DEFINE R == {m}
    <3>1. Good(u, pending, R)
      <4>1. m \in ReportType
        BY <1>3, <2>3 DEF MessageType
      <4>2. InOnePlace(u, pending, R)
        BY <1>3 DEF Good, InOnePlace
      <4> QED BY <1>3, <4>1, <4>2 DEF Good
    <3>2. t = ApplyReport(u, m) /\ PlansReduce(u) /\ m \in R
      BY <1>2, <2>3 DEF PlansReduce
    <3> HIDE DEF R
    <3>3. /\ SameSides(u, t)
          /\ \A d \in ToSet(t.channel) : \/ d \in ToSet(u.channel)
                                         \/ d.kind = "Request" /\ ReduceFirst(t.ord[d.id])
          /\ m.trade = 0 => t.ledger.unbooked = u.ledger.unbooked
      BY <3>1, <3>2, ReportReduces
    <3> QED BY <1>2, <2>3, <3>3 DEF SameSides
  <2> QED BY <1>4, <2>1, <2>2, <2>3
<1>6. PlansReduce(t)
  BY <1>5, PlansKept
<1>7. ASSUME RequestsReduce(s, pending)
      PROVE  RequestsReduce(t, next)
  <2>1. \A d \in ToSet(t.channel) : \/ d \in ToSet(s.channel) \/ d.kind # "Request"
                                    \/ ReduceFirst(t.ord[d.id])
    BY <1>2, <1>5
  <2>2. \A i \in ToSet(next) : \/ i \in ToSet(pending)
                               \/ \E d \in ToSet(s.channel) : d.kind = "Request" /\ d.id = i
    <3>1. pending \in Seq(OrderIds)
      BY DEF Good, InOnePlace
    <3>2. ToSet(Append(pending, m.id)) = ToSet(pending) \cup {m.id}
      BY <1>3, <3>1, ToSetAppend
    <3> QED BY <1>2, <3>2
  <2> QED BY <1>5, <1>7, <2>1, <2>2, RequestsKept
<1>8. ASSUME NothingTraded(s)
      PROVE  NothingTraded(t)
  BY <1>2, <1>5, <1>8 DEF NothingTraded
<1> QED BY <1>6, <1>7, <1>8

\* The last match of a slice, its reports applied one after the other.
LEMMA LastMatchReduces ==
    ASSUME NEW s, Good(s, <<>>, {}), s.channel = <<>>, PlansReduce(s),
           s.book = book, s.ord = ord, feed.last \in Nat, BarsSound(feed.bars, feed.last),
           SliceOpen, NEW v \in FinalVerdicts, NEW t, t = LastMatch(s, v)
    PROVE  PlansReduce(t) /\ RequestsReduce(t, <<>>)
<1>0. /\ s \in StateType /\ s.ledger \in LedgerType /\ BookSound(s.book, s.ord)
      /\ ToSet(s.channel) = {} /\ ToSet(<<>>) = {}
  BY DEF Good, StateType, ToSet
<1>1. CASE feed.bars = {}
  <2>1. t = s
    BY <1>1 DEF LastMatch
  <2> QED BY <1>0, <2>1 DEF RequestsReduce
<1>2. CASE feed.bars # {}
  <2> DEFINE done == FinalizeTimestamp(s.book, s.ord, feed.bars, feed.last, feed.priced, v)
             u == [s EXCEPT !.book = done.book]
             R == done.reports
             n == Len(R)
             applied == FoldLeft(ApplyReport, u, R)
  <2>1. t = [applied EXCEPT !.ledger = Flush(@)]
    BY <1>2 DEF LastMatch
  <2>2. CallSound(s.book, s.ord, {feed.last}, done)
    <3>1. v \in VerdictsOf(s.book, s.ord, feed.bars, feed.priced,
                           ToFinalize(PrepareSlice(s.book, feed.last), s.ord, feed.last))
      BY DEF FinalVerdicts
    <3> HIDE DEF done
    <3>2. done = FinalizeTimestamp(s.book, s.ord, feed.bars, feed.last, feed.priced, v)
      BY DEF done
    <3> QED BY <1>0, <1>2, <3>1, <3>2, FinalizeTimestampSound
  <2> HIDE DEF done
  <2>3. /\ u \in StateType /\ u.om = s.om /\ u.ord = s.ord /\ u.channel = s.channel
        /\ u.book = done.book
    BY <1>0, <2>2 DEF CallSound, BookSound, StateType
  <2> HIDE DEF u
  <2>4. Good(u, <<>>, ToSet(R))
    <3>1. \A m \in ToSet(s.channel) : m.id \notin Active(s.book)
      BY <1>0
    <3>2. Good(u, <<>>, ToSet(done.reports))
      BY <2>2, <2>3, <3>1, CallKeeps
    <3> QED BY <3>2
  <2>5. R \in Seq(ReportType) /\ \A k, l \in DOMAIN R : R[k].id = R[l].id => k = l
    BY <2>2 DEF CallSound, Outcome
  <2> HIDE DEF R
  <2> DEFINE Rest(k) == {R[l] : l \in k + 1 .. n}
             Half(k, a) == Good(a, <<>>, Rest(k)) /\ PlansReduce(a) /\ RequestsReduce(a, <<>>)
             P == {p \in (0 .. n) \X StateType : Half(p[1], p[2])}
  <2>6. n \in Nat /\ DOMAIN R = 1 .. n
    BY <2>5
  <2> HIDE DEF n
  <2>7. <<0, u>> \in P
    <3>1. Rest(0) = ToSet(R)
      BY <2>6 DEF ToSet
    <3>2. PlansReduce(u) /\ RequestsReduce(u, <<>>)
      BY <1>0, <2>3 DEF PlansReduce, RequestsReduce
    <3>3. Half(0, u)
      BY <2>4, <3>1, <3>2
    <3> HIDE DEF Half
    <3> QED BY <2>3, <2>6, <3>3
  <2>8. ASSUME NEW k \in 1 .. n, NEW a, <<k - 1, a>> \in P
        PROVE  <<k, ApplyReport(a, R[k])>> \in P
    <3> DEFINE b == ApplyReport(a, R[k])
    <3>1. Half(k - 1, a) /\ k - 1 \in 0 .. n
      <4> HIDE DEF Half
      <4>1. \A p \in P : Half(p[1], p[2]) /\ p[1] \in 0 .. n
        OBVIOUS
      <4>2. <<k - 1, a>>[1] = k - 1 /\ <<k - 1, a>>[2] = a
        OBVIOUS
      <4> HIDE DEF P
      <4> QED BY <4>1, <4>2, <2>8
    <3>2. R[k] \in Rest(k - 1) /\ Rest(k - 1) \ {R[k]} = Rest(k)
      <4>1. (k - 1) + 1 = k /\ k \in Nat
        BY <2>6
      <4>2. Rest(k - 1) = Rest(k) \cup {R[k]}
        <5>1. k .. n = (k + 1 .. n) \cup {k}
          BY <2>6, <4>1
        <5> QED BY <4>1, <5>1
      <4>3. R[k] \notin Rest(k)
        BY <2>5, <2>6, <4>1
      <4> HIDE DEF Rest
      <4> QED BY <4>2, <4>3
    <3> HIDE DEF Rest, b
    <3>3. Good(a, <<>>, Rest(k - 1)) /\ b = ApplyReport(a, R[k])
      BY <3>1 DEF b
    <3>4. Good(b, <<>>, Rest(k - 1) \ {R[k]})
      BY <3>2, <3>3, ReportKeeps
    <3>5. /\ PlansReduce(b) /\ SameSides(a, b)
          /\ \A m \in ToSet(b.channel) : \/ m \in ToSet(a.channel)
                                         \/ m.kind = "Request" /\ ReduceFirst(b.ord[m.id])
      BY <3>1, <3>2, <3>3, ReportReduces
    <3>6. RequestsReduce(b, <<>>)
      BY <1>0, <3>1, <3>3, <3>5, RequestsKept
    <3>7. Half(k, b) /\ b \in StateType
      BY <3>2, <3>4, <3>5, <3>6 DEF Good
    <3> HIDE DEF Half
    <3> QED BY <3>7 DEF b
  <2>9. <<n, applied>> \in P
    <3> HIDE DEF P
    <3> QED BY <2>5, <2>7, <2>8, ReportsInduction DEF n
  <2>10. Half(n, applied)
    <3> HIDE DEF Half
    <3>1. \A p \in P : Half(p[1], p[2])
      OBVIOUS
    <3>2. <<n, applied>>[1] = n /\ <<n, applied>>[2] = applied
      OBVIOUS
    <3> HIDE DEF P
    <3> QED BY <2>9, <3>1, <3>2
  <2> HIDE DEF applied, Rest
  <2>11. applied \in StateType
    BY <2>10 DEF Good
  <2>12. t.om = applied.om /\ t.ord = applied.ord /\ t.channel = applied.channel
    BY <2>1, <2>11 DEF StateType
  <2> QED BY <1>0, <2>10, <2>12 DEF PlansReduce, RequestsReduce
<1> QED BY <1>1, <1>2

\* What the stages say of it.
FundNow ==
    LET s == State(drain.suppressed)
    IN  /\ PlansReduce(s)
        /\ pc # "Channel3" => RequestsReduce(s, drain.pending)
        /\ pc = "Channel3" /\ ~drain.settle => NothingTraded(s)

\* The present state.
LEMMA FundFacts ==
    ASSUME IInv, NEW s, s = State(drain.suppressed)
    PROVE  /\ Good(s, drain.pending, {}) /\ s \in StateType /\ drain \in DrainType
           /\ s.om = om /\ s.book = book /\ s.ord = ord /\ s.channel = channel
           /\ s.ledger = ledger /\ s.suppressed = drain.suppressed
BY DEF IInv, State, Good

\* The end of a slice.
LEMMA FinalizeReduces ==
    ASSUME IInv, FundNow, pc = "Data", NEW v \in FinalVerdicts, NEW t, t = Finalize(v)
    PROVE  PlansReduce(t) /\ RequestsReduce(t, <<>>)
<1> DEFINE s == State({})
<1>1. ~Draining /\ channel = <<>>
  BY DEF IInv, StageSound, Draining
<1>2. Good(s, <<>>, {}) /\ drain.suppressed = {}
  BY <1>1, IdleFacts
<1>3. /\ s.om = om /\ s.book = book /\ s.ord = ord /\ s.channel = <<>>
      /\ PlansReduce(s) /\ ToSet(<<>>) = {}
  BY <1>1, <1>2 DEF State, FundNow, ToSet
<1>4. feed.last \in Nat /\ BarsSound(feed.bars, feed.last)
  BY DEF IInv, FeedSound, FeedType
<1> HIDE DEF s
<1>5. CASE SliceOpen
  <2> DEFINE u == LastMatch(s, v)
             q == MissingReports(u)
             b == OnCancel(u.book, MissingSymbol(u))
             c == u.channel \o q
  <2>1. t = RejectMissing(u)
    BY <1>5 DEF Finalize, s
  <2>2. t = [u EXCEPT !.book = b, !.channel = c]
    BY <2>1 DEF RejectMissing
  <2>3. ledger.unbooked = None /\ s.ledger = ledger
    BY <1>1, IdleFacts DEF s, State
  <2>4. Good(u, <<>>, {}) /\ PlansReduce(u) /\ RequestsReduce(u, <<>>)
    <3>1. u = LastMatch(s, v)
      OBVIOUS
    <3> HIDE DEF u
    <3>2. Good(u, <<>>, {})
      BY <1>2, <1>3, <1>4, <1>5, <2>3, <3>1, LastMatchKeeps
    <3> QED BY <1>2, <1>3, <1>4, <1>5, <3>1, <3>2, LastMatchReduces
  <2> HIDE DEF u
  <2>5. u \in StateType /\ u.channel \in Seq(MessageType)
    BY <2>4 DEF Good, StateType
  <2>6. q \in Seq(ReportType) /\ \A m \in ToSet(q) : m.kind = "Report"
    <3>1. q \in Seq(ReportType) /\ \A m \in ToSet(q) : m \in ReportType
      BY <1>4, <2>5, MissingReportsProperties
    <3> QED BY <3>1 DEF ReportType
  <2> HIDE DEF q
  <2>7. q \in Seq(MessageType)
    BY <2>6 DEF MessageType
  <2>8. ToSet(c) = ToSet(u.channel) \cup ToSet(q)
    BY <2>5, <2>7, ToSetConcat
  <2> HIDE DEF b, c
  <2>9. t.om = u.om /\ t.ord = u.ord /\ t.channel = c
    BY <2>2, <2>5 DEF StateType
  <2> QED BY <1>3, <2>4, <2>6, <2>8, <2>9 DEF PlansReduce, RequestsReduce
<1>6. CASE ~SliceOpen
  <2>1. t = s
    BY <1>6 DEF Finalize, s
  <2> QED BY <1>3, <2>1 DEF RequestsReduce
<1> QED BY <1>5, <1>6

\* The data stage becomes t.
LEMMA BecomesReduces ==
    ASSUME IInv, pc = "Data", NEW t, PlansReduce(t), RequestsReduce(t, <<>>), Becomes(t),
           drain' = drain, pc' # "Channel3"
    PROVE  FundNow'
<1> DEFINE u == State(drain.suppressed)'
<1>1. ~Draining
  BY DEF Draining
<1>2. drain.pending = <<>>
  BY <1>1, IdleFacts
<1>3. u.om = t.om /\ u.ord = t.ord /\ u.channel = t.channel
  BY DEF State, Becomes
<1>4. PlansReduce(u) /\ RequestsReduce(u, <<>>)
  <2> HIDE DEF u
  <2> QED BY <1>3 DEF PlansReduce, RequestsReduce
<1> HIDE DEF u
<1> QED BY <1>2, <1>4 DEF FundNow, u

LEMMA RestReduces ==
    ASSUME IInv, FundNow, pc = "Data", NEW t, t = State({})
    PROVE  PlansReduce(t) /\ RequestsReduce(t, <<>>)
<1>1. ~Draining /\ channel = <<>> /\ drain.suppressed = {}
  BY IdleFacts DEF IInv, StageSound, Draining
<1>2. t = State(drain.suppressed) /\ t.channel = <<>> /\ ToSet(<<>>) = {}
  BY <1>1 DEF State, ToSet
<1> QED BY <1>2 DEF FundNow, RequestsReduce

LEMMA DataReduces ==
    ASSUME IInv, FundNow,
           \/ \E sym \in Symbols, ts \in Times, traded \in BOOLEAN, session \in Sessions :
                 DataBar(sym, ts, traded, session)
           \/ \E session \in Sessions : DataTimer(session)
           \/ DataEnd
    PROVE  FundNow'
<1>1. ASSUME NEW sym \in Symbols, NEW ts \in Times, NEW traded \in BOOLEAN,
             NEW session \in Sessions, DataBar(sym, ts, traded, session)
      PROVE  FundNow'
  <2> DEFINE newSlice == feed.last # 0 /\ ts > feed.last
  <2>1. PICK v \in IF ts > feed.last THEN FinalVerdicts ELSE {<<>>} :
           LET s == IF newSlice THEN Finalize(v) ELSE State({})
           IN  Becomes(IF DateOf[ts] = feed.date THEN s ELSE SettleDay(s))
    BY <1>1 DEF DataBar
  <2> DEFINE s == IF newSlice THEN Finalize(v) ELSE State({})
             t == IF DateOf[ts] = feed.date THEN s ELSE SettleDay(s)
  <2>2. pc = "Data" /\ pc' = "PreExec" /\ drain' = drain
    BY <1>1, StageNames DEF DataBar
  <2>3. Good(s, <<>>, {}) /\ PlansReduce(s) /\ RequestsReduce(s, <<>>)
    <3>1. CASE newSlice
      <4>1. v \in FinalVerdicts /\ s = Finalize(v)
        BY <2>1, <3>1
      <4> HIDE DEF s
      <4>2. Good(s, <<>>, {})
        BY <2>2, <4>1, FinalizeKeeps
      <4> QED BY <2>2, <4>1, <4>2, FinalizeReduces
    <3>2. CASE ~newSlice
      <4>1. s = State({})
        BY <3>2
      <4> HIDE DEF s
      <4>2. ~Draining
        BY <2>2 DEF Draining
      <4>3. Good(s, <<>>, {})
        BY <4>1, <4>2, IdleFacts
      <4> QED BY <2>2, <4>1, <4>3, RestReduces
    <3> QED BY <3>1, <3>2
  <2>4. Becomes(t)
    BY <2>1
  <2> HIDE DEF s
  <2>5. PlansReduce(t) /\ RequestsReduce(t, <<>>)
    <3>1. CASE DateOf[ts] = feed.date
      BY <2>3, <3>1
    <3>2. CASE DateOf[ts] # feed.date
      <4>1. t = SettleDay(s)
        BY <3>2
      <4> HIDE DEF t
      <4>2. t.ord = s.ord /\ t.channel = s.channel
        BY <2>3, <4>1, SettleKeeps
      <4>3. t.om.plans = s.om.plans
        <5> DEFINE o == ExpireAtSettlement(s.om, ExpiredDayOrders(s))
                   b == OnCancel(s.book, ExpiredDayOrders(s))
        <5>1. s \in StateType /\ s.om \in RegistryType
          BY <2>3 DEF Good, StateType
        <5>2. o.plans = s.om.plans
          BY <5>1, ExpireProperties
        <5>3. t = [s EXCEPT !.om = o, !.book = b]
          BY <4>1 DEF SettleDay
        <5> HIDE DEF o, b
        <5> QED BY <5>1, <5>2, <5>3 DEF StateType
      <4> QED BY <2>3, <4>2, <4>3 DEF PlansReduce, RequestsReduce
    <3> QED BY <3>1, <3>2
  <2> HIDE DEF t
  <2> QED BY <2>2, <2>4, <2>5, BecomesReduces
<1>2. ASSUME NEW session \in Sessions, DataTimer(session)
      PROVE  FundNow'
  <2> DEFINE ends == TimerEndsSlice(Min(feed.timers))
  <2>1. PICK v \in IF ends THEN FinalVerdicts ELSE {<<>>} :
           Becomes(IF ends THEN Finalize(v) ELSE State({}))
    BY <1>2 DEF DataTimer
  <2>2. pc = "Data" /\ pc' = "PreExec" /\ drain' = drain
    BY <1>2, StageNames DEF DataTimer
  <2> DEFINE t == IF ends THEN Finalize(v) ELSE State({})
  <2> HIDE DEF ends
  <2>3. PlansReduce(t) /\ RequestsReduce(t, <<>>)
    <3>1. CASE ends
      <4>1. v \in FinalVerdicts /\ t = Finalize(v)
        BY <2>1, <3>1
      <4> HIDE DEF t
      <4> QED BY <2>2, <4>1, FinalizeReduces
    <3>2. CASE ~ends
      <4>1. t = State({})
        BY <3>2
      <4> HIDE DEF t
      <4> QED BY <2>2, <4>1, RestReduces
    <3> QED BY <3>1, <3>2
  <2>4. Becomes(t)
    BY <2>1
  <2> HIDE DEF t
  <2> QED BY <2>2, <2>3, <2>4, BecomesReduces
<1>3. CASE DataEnd
  <2>1. PICK v \in FinalVerdicts : Becomes(Finalize(v))
    BY <1>3 DEF DataEnd
  <2>2. pc = "Data" /\ pc' = "Finish" /\ drain' = drain
    BY <1>3 DEF DataEnd
  <2> DEFINE t == Finalize(v)
  <2>3. t = Finalize(v) /\ Becomes(t)
    BY <2>1
  <2> HIDE DEF t
  <2>4. PlansReduce(t) /\ RequestsReduce(t, <<>>)
    BY <2>2, <2>3, FinalizeReduces
  <2> QED BY <2>2, <2>3, <2>4, BecomesReduces
<1> QED BY <1>1, <1>2, <1>3

LEMMA ReceiveStepReduces ==
    ASSUME IInv, FundNow, ChannelReceive
    PROVE  FundNow'
<1> DEFINE s == State(drain.suppressed)
           pending == drain.pending
           m == Head(channel)
           u == Popped(s)
           t == CASE m.kind = "Request"   -> u
                  [] m.kind = "Validated" -> WithOrder(u, m.id)
                  [] m.kind = "Report"    -> ApplyReport(u, m)
           next == IF m.kind = "Request" THEN Append(pending, m.id) ELSE pending
<1>1. /\ Draining /\ channel # <<>> /\ Becomes(t) /\ pc' = pc
      /\ drain' = [drain EXCEPT !.suppressed = t.suppressed, !.pending = next]
  BY DEF ChannelReceive, Popped, WithOrder
<1>2. /\ Good(s, pending, {}) /\ s.channel = channel /\ drain \in DrainType
      /\ PlansReduce(s) /\ (pc # "Channel3" => RequestsReduce(s, pending))
      /\ (pc = "Channel3" /\ ~drain.settle => NothingTraded(s))
  BY DEF IInv, State, FundNow
<1> HIDE DEF s, pending
<1>3. /\ m.kind = "Request" => t = u
      /\ m.kind = "Validated" => t = WithOrder(u, m.id)
      /\ m.kind = "Report" => t = ApplyReport(u, m)
  <2> HIDE DEF m, u
  <2>1. "Request" # "Validated" /\ "Request" # "Report" /\ "Validated" # "Report"
    OBVIOUS
  <2>2. CASE m.kind = "Request"
    BY <2>2
  <2>3. CASE m.kind = "Validated"
    BY <2>3
  <2>4. CASE m.kind = "Report"
    BY <2>4
  <2> QED BY <2>1, <2>2, <2>3, <2>4
<1> HIDE DEF t
<1>4. /\ t \in StateType /\ PlansReduce(t)
      /\ RequestsReduce(s, pending) => RequestsReduce(t, next)
      /\ NothingTraded(s) => NothingTraded(t)
  <2>1. m = Head(s.channel) /\ u = Popped(s) /\ s.channel # <<>>
    BY <1>1, <1>2
  <2> HIDE DEF m, u
  <2>2. t \in StateType
    BY <1>2, <1>3, <2>1, ReceiveKeeps
  <2> HIDE DEF next
  <2>3. next = IF m.kind = "Request" THEN Append(pending, m.id) ELSE pending
    BY DEF next
  <2>4. Good(s, pending, {}) /\ PlansReduce(s)
    BY <1>2
  <2>5. PlansReduce(t)
    BY <1>3, <2>1, <2>2, <2>3, <2>4, ReceiveReduces
  <2>6. RequestsReduce(s, pending) => RequestsReduce(t, next)
    <3>1. \A n : n = next => (RequestsReduce(s, pending) => RequestsReduce(t, n))
      <4> TAKE n
      <4> HAVE n = next
      <4> QED BY <1>3, <2>1, <2>2, <2>3, <2>4, ReceiveReduces
    <3> QED BY <3>1
  <2>7. NothingTraded(s) => NothingTraded(t)
    BY <1>3, <2>1, <2>2, <2>3, <2>4, ReceiveReduces
  <2> QED BY <2>2, <2>5, <2>6, <2>7
<1>5. /\ om' = t.om /\ book' = t.book /\ ord' = t.ord /\ channel' = t.channel
      /\ ledger' = t.ledger
  BY <1>1 DEF Becomes
<1>6. drain'.pending = next /\ drain'.suppressed = t.suppressed /\ drain'.settle = drain.settle
  <2> HIDE DEF next
  <2> QED BY <1>1, <1>2 DEF DrainType
<1>7. State(drain.suppressed)' = t
  <2>1. t = [om |-> t.om, book |-> t.book, ord |-> t.ord, channel |-> t.channel,
             ledger |-> t.ledger, suppressed |-> t.suppressed]
    BY <1>4, StateFields
  <2> QED BY <1>5, <1>6, <2>1 DEF State
<1> HIDE DEF next
<1> QED BY <1>1, <1>2, <1>4, <1>6, <1>7 DEF FundNow

\* Reports of a match enter the channel.
LEMMA MatchReduces ==
    ASSUME NEW s, s \in StateType, NEW pending, NEW R \in Seq(ReportType), NEW t,
           t.om = s.om, t.ord = s.ord, t.channel = s.channel \o R, PlansReduce(s)
    PROVE  /\ PlansReduce(t)
           /\ RequestsReduce(s, pending) => RequestsReduce(t, pending)
<1>1. PlansReduce(t)
  BY DEF PlansReduce
<1>2. s.channel \in Seq(MessageType) /\ R \in Seq(MessageType)
  <2>1. \A k \in DOMAIN R : R[k] \in MessageType
    BY DEF MessageType
  <2> QED BY <2>1 DEF StateType
<1>3. ToSet(t.channel) = ToSet(s.channel) \cup ToSet(R)
  BY <1>2, ToSetConcat
<1>4. \A m \in ToSet(R) : m.kind # "Request"
  <2>1. \A r \in ReportType : r.kind # "Request"
    BY DEF ReportType
  <2>2. \A k \in DOMAIN R : R[k] \in ReportType
    OBVIOUS
  <2> QED BY <2>1, <2>2 DEF ToSet
<1> QED BY <1>1, <1>3, <1>4 DEF RequestsReduce

\* What the client says when it matches the current event.
LEMMA EventReports ==
    ASSUME IInv, NEW v \in VerdictsOf(book, ord, {feed.event}, feed.priced, OrderIds),
           NEW done, done = OnEvent(book, ord, feed.event, Now, feed.session, feed.priced, v)
    PROVE  done.reports \in Seq(ReportType)
<1>1. BookSound(book, ord)
  <2>1. Good(State(drain.suppressed), drain.pending, {}) /\ State(drain.suppressed).book = book
        /\ State(drain.suppressed).ord = ord
    BY DEF IInv, State
  <2> QED BY <2>1 DEF Good
<1>2. feed.event \in EventType /\ Now \in Nat
  BY DEF IInv, FeedSound, FeedType, EventType, Now
<1>3. CallSound(book, ord, Nat, done)
  <2>1. EventSound(book, ord, feed.event, done)
    BY <1>1, <1>2, OnEventSound
  <2> QED BY <2>1 DEF EventSound
<1> QED BY <1>3 DEF CallSound, Outcome

LEMMA IntermediateReduces ==
    ASSUME IInv, FundNow, channel = <<>>, IntermediateMatch, UNCHANGED <<om, pc>>
    PROVE  FundNow'
<1>1. PICK v \in VerdictsOf(book, ord, {feed.event}, feed.priced, OrderIds) :
        LET done == OnEvent(book, ord, feed.event, Now, feed.session, feed.priced, v)
        IN  /\ book' = done.book
            /\ channel' = channel \o done.reports
            /\ drain' = [drain EXCEPT !.intermediate = FALSE, !.settle = TRUE]
            /\ UNCHANGED ord
  BY DEF IntermediateMatch
<1> DEFINE done == OnEvent(book, ord, feed.event, Now, feed.session, feed.priced, v)
           R == done.reports
           s == State(drain.suppressed)
           t == State(drain.suppressed)'
<1>2. R \in Seq(ReportType)
  <2> HIDE DEF R, done
  <2>1. done = OnEvent(book, ord, feed.event, Now, feed.session, feed.priced, v)
    BY DEF done
  <2> QED BY <2>1, EventReports DEF R
<1>3. channel' = channel \o R
  BY <1>1
<1> HIDE DEF R, done
<1>4. drain \in DrainType /\ drain'.pending = drain.pending /\ drain'.settle = TRUE
  BY <1>1 DEF IInv, DrainType
<1>5. /\ s \in StateType /\ s.om = om /\ s.ord = ord /\ s.channel = channel
      /\ PlansReduce(s) /\ (pc # "Channel3" => RequestsReduce(s, drain.pending))
  BY DEF IInv, Good, State, FundNow
<1>6. t.om = om' /\ t.ord = ord' /\ t.channel = channel'
  BY DEF State
<1> HIDE DEF s, t
<1>7. PlansReduce(t) /\ (RequestsReduce(s, drain.pending) => RequestsReduce(t, drain.pending))
  <2>1. t.om = s.om /\ t.ord = s.ord /\ t.channel = s.channel \o R
    BY <1>1, <1>3, <1>5, <1>6
  <2> QED BY <1>2, <1>5, <2>1, MatchReduces
<1> QED BY <1>4, <1>5, <1>7 DEF FundNow, t

\* The checks change nothing of an order but its quantity.
LEMMA ReducedSides ==
    ASSUME NEW o \in [OrderIds -> Order \cup {NoOrder}], NEW ids,
           \A i \in ToSet(ids) : o[i] \in Order, NEW risk, \A i \in ToSet(ids) : risk[i] \in Nat,
           NEW new, new = Reduced(o, ids, risk), NEW i \in OrderIds, o[i] \in Order
    PROVE  new[i] \in Order /\ new[i].side = o[i].side /\ new[i].effect = o[i].effect
<1>1. new[i] = IF i \in ToSet(ids) /\ risk[i] # 0 THEN [o[i] EXCEPT !.qty = risk[i]] ELSE o[i]
  BY DEF Reduced
<1>2. CASE i \in ToSet(ids) /\ risk[i] # 0
  <2>1. o[i] \in Order /\ risk[i] \in Nat \ {0} /\ new[i] = [o[i] EXCEPT !.qty = risk[i]]
    BY <1>1, <1>2
  <2> QED BY <2>1 DEF Order
<1>3. CASE ~(i \in ToSet(ids) /\ risk[i] # 0)
  BY <1>1, <1>3
<1> QED BY <1>2, <1>3

\* The checks answer without a trade and without a request.
LEMMA AnswersSay ==
    ASSUME NEW ids \in Seq(OrderIds), NEW risk, NEW at
    PROVE  \A m \in ToSet(Answers(ids, risk, at)) :
              m.kind # "Request" /\ (m.kind = "Report" => m.trade = 0)
<1> SUFFICES ASSUME NEW k \in DOMAIN ids
             PROVE  LET m == Answers(ids, risk, at)[k]
                    IN  m.kind # "Request" /\ (m.kind = "Report" => m.trade = 0)
  BY DEF ToSet, Answers
<1> DEFINE m == Answers(ids, risk, at)[k]
<1>1. m = IF risk[ids[k]] = 0 THEN Report(ids[k], "Rejected", 0, 0, at)
          ELSE [kind |-> "Validated", id |-> ids[k]]
  BY DEF Answers
<1> HIDE DEF m
<1>2. m.kind # "Request" /\ (m.kind = "Report" => m.trade = 0)
  BY <1>1 DEF Report
<1> QED BY <1>2 DEF m

LEMMA RequestsTurnReduces ==
    ASSUME IInv, FundNow, Draining, channel = <<>>, RequestsTurn, UNCHANGED <<om, pc>>,
           ledger' = IF drain.settle THEN Flush(ledger) ELSE ledger
    PROVE  FundNow'
<1> DEFINE s == State(drain.suppressed)
           pending == drain.pending
           batch == IF Mixed THEN Reduces ELSE drain.pending
           t == State(drain.suppressed)'
<1>1. PICK risk \in [ToSet(batch) -> Nat \cap UNION {RiskVerdicts(ord[i]) : i \in ToSet(batch)}] :
          /\ \A i \in ToSet(batch) : risk[i] \in RiskVerdicts(ord[i])
          /\ ProcessRequests(batch, risk)
          /\ drain' = [drain EXCEPT
                 !.pending = Waiting,
                 !.intermediate = Mixed /\ PhaseOf("PostExec", ToSet(drain.pending)),
                 !.settle = FALSE]
          /\ UNCHANGED book
  BY DEF RequestsTurn
<1>2. /\ Good(s, pending, {}) /\ s \in StateType /\ drain \in DrainType
      /\ s.om = om /\ s.ord = ord /\ s.channel = channel /\ s.ledger = ledger
      /\ PlansReduce(s) /\ (pc # "Channel3" => RequestsReduce(s, pending))
      /\ (pc = "Channel3" /\ ~drain.settle => NothingTraded(s))
  <2> HIDE DEF s
  <2>1. s = State(drain.suppressed)
    BY DEF s
  <2> QED BY <2>1, FundFacts DEF FundNow
<1>3. pending \in Seq(OrderIds) /\ IsInjective(pending)
      /\ \A i \in ToSet(pending) : i \in OrderIds /\ s.ord[i] \in Order
  BY <1>2 DEF Good, InOnePlace, RequestSound, ToSet
<1> HIDE DEF s
<1>4. /\ batch \in Seq(OrderIds) /\ ToSet(batch) \cup ToSet(Waiting) = ToSet(pending)
  <2>1. batch = IF Mixed THEN Reduces ELSE drain.pending
    OBVIOUS
  <2> HIDE DEF batch
  <2> QED BY <1>3, <2>1, BatchFacts
<1> HIDE DEF batch
<1>5. \A i \in ToSet(batch) : risk[i] \in Nat
  BY <1>1
<1>7. channel' = Answers(batch, risk, Now) /\ ord' = Reduced(ord, batch, risk)
  <2>1. /\ channel' = <<>> \o Answers(batch, risk, Now)
        /\ ord' = Reduced(ord, batch, risk)
    BY <1>1 DEF ProcessRequests, Answers, Reduced
  <2>2. Answers(batch, risk, Now) \in Seq({Answers(batch, risk, Now)[k] : k \in DOMAIN batch})
    BY <1>4 DEF Answers
  <2> QED BY <2>1, <2>2
<1>8. drain'.pending = Waiting /\ drain'.settle = FALSE
  BY <1>1, <1>2 DEF DrainType
<1>9. t.om = s.om /\ t.channel = Answers(batch, risk, Now) /\ t.ord = Reduced(s.ord, batch, risk)
      /\ t.ledger = ledger'
  BY <1>2, <1>7 DEF State
<1> HIDE DEF t, pending
<1>10. SameSides(s, t)
  <2>1. s.ord \in [OrderIds -> Order \cup {NoOrder}] /\ \A i \in ToSet(batch) : s.ord[i] \in Order
    BY <1>2, <1>3, <1>4 DEF StateType
  <2>2. \A i \in OrderIds : s.ord[i] \in Order =>
            t.ord[i] \in Order /\ t.ord[i].side = s.ord[i].side /\ t.ord[i].effect = s.ord[i].effect
    BY <1>5, <1>9, <2>1, ReducedSides
  <2> QED BY <1>9, <2>2 DEF SameSides
<1>11. PlansReduce(t)
  BY <1>2, <1>10, PlansKept
<1>12. \A m \in ToSet(t.channel) : m.kind # "Request" /\ (m.kind = "Report" => m.trade = 0)
  BY <1>4, <1>9, AnswersSay
<1>13. ASSUME pc # "Channel3" PROVE RequestsReduce(t, Waiting)
  <2>1. \A i \in ToSet(Waiting) : i \in ToSet(pending)
    BY <1>4
  <2> QED BY <1>2, <1>10, <1>12, <1>13, <2>1, RequestsKept
<1>14. ASSUME pc = "Channel3" PROVE NothingTraded(t)
  <2>1. ledger'.unbooked = None
    <3>1. CASE drain.settle
      <4>1. ledger \in LedgerType /\ ledger' = Flush(ledger)
        BY <1>2, <3>1 DEF StateType
      <4> QED BY <4>1, FlushProperties
    <3>2. CASE ~drain.settle
      BY <1>2, <1>14, <3>2 DEF NothingTraded
    <3> QED BY <3>1, <3>2
  <2> QED BY <1>9, <1>12, <2>1 DEF NothingTraded
<1> QED BY <1>8, <1>11, <1>13, <1>14 DEF FundNow, t


LEMMA TurnReduces ==
    ASSUME IInv, FundNow, ChannelTurn
    PROVE  FundNow'
<1>1. /\ Draining /\ channel = <<>> /\ UNCHANGED <<pc, om, feed>>
      /\ ledger' = IF drain.settle THEN Flush(ledger) ELSE ledger
      /\ IntermediateMatch \/ RequestsTurn
  BY DEF ChannelTurn
<1>2. CASE IntermediateMatch
  BY <1>1, <1>2, IntermediateReduces
<1>3. CASE RequestsTurn
  BY <1>1, <1>3, RequestsTurnReduces
<1> QED BY <1>1, <1>2, <1>3

\* A step between the drains: no request is pending, and none is added.
LEMMA StageReduces ==
    ASSUME IInv, FundNow, pc # "Channel3" \/ channel = <<>>, drain.pending = <<>>,
           drain'.pending = <<>>, pc' # "Channel3", ord' = ord,
           \A i \in OrderIds : om'.plans[i] \subseteq om.plans[i],
           NEW R \in Seq(ReportType), channel' = channel \o R
    PROVE  FundNow'
<1> DEFINE s == State(drain.suppressed)
           t == State(drain.suppressed)'
<1>1. /\ s \in StateType /\ s.om = om /\ s.ord = ord /\ s.channel = channel
      /\ PlansReduce(s) /\ (pc # "Channel3" => RequestsReduce(s, <<>>))
  BY DEF IInv, Good, State, FundNow
<1>2. t.om = om' /\ t.ord = ord' /\ t.channel = channel'
  BY DEF State
<1> HIDE DEF s, t
<1>3. SameSides(s, t)
  BY <1>1, <1>2 DEF SameSides
<1>4. PlansReduce(t)
  BY <1>1, <1>3, PlansKept
<1>5. RequestsReduce(s, <<>>)
  <2>1. ToSet(<<>>) = {}
    BY DEF ToSet
  <2> QED BY <1>1, <2>1 DEF RequestsReduce
<1> DEFINE u == [s EXCEPT !.channel = s.channel \o R]
<1>6. u.om = s.om /\ u.ord = s.ord /\ u.channel = s.channel \o R
  BY <1>1 DEF StateType
<1> HIDE DEF u
<1>7. RequestsReduce(u, <<>>)
  BY <1>1, <1>5, <1>6, MatchReduces
<1>8. RequestsReduce(t, <<>>)
  BY <1>1, <1>2, <1>6, <1>7 DEF RequestsReduce
<1> QED BY <1>4, <1>8 DEF FundNow, t

\* Nothing enters the channel.
LEMMA StageRests ==
    ASSUME IInv, channel' = channel
    PROVE  channel' = channel \o <<>> /\ <<>> \in Seq(ReportType)
<1>1. channel \in Seq(MessageType)
  BY DEF IInv, Good, StateType, State
<1> QED BY <1>1

LEMMA LeaveReduces ==
    ASSUME IInv, FundNow, ChannelLeave
    PROVE  FundNow'
<1>1. /\ Draining /\ channel = <<>> /\ drain.pending = <<>> /\ drain' = IdleDrain
      /\ pc' = StageAfter(pc) /\ UNCHANGED <<om, ord, channel>>
  BY DEF ChannelLeave
<1>2. pc' # "Channel3"
  BY <1>1, DrainingFacts
<1>3. drain'.pending = <<>>
  BY <1>1, IdleDrainTyped
<1>4. channel' = channel \o <<>> /\ <<>> \in Seq(ReportType)
  BY <1>1, StageRests
<1> QED BY <1>1, <1>2, <1>3, <1>4, StageReduces

LEMMA ExecuteReduces ==
    ASSUME IInv, FundNow, Execute
    PROVE  FundNow'
<1>1. /\ pc \in {"PreExec", "PostExec"} /\ pc' \in {"Channel2", "Channel4"}
      /\ UNCHANGED <<om, ord, drain, ledger, feed>> /\ ~Draining
  BY StageNames DEF Execute, Draining
<1>2. drain.pending = <<>> /\ drain'.pending = <<>>
  BY <1>1, IdleFacts
<1>3. CASE UNCHANGED <<book, channel>>
  <2>1. channel' = channel \o <<>> /\ <<>> \in Seq(ReportType)
    BY <1>3, StageRests
  <2> QED BY <1>1, <1>2, <2>1, StageReduces
<1>4. CASE \E v \in VerdictsOf(book, ord, {feed.event}, feed.priced, OrderIds) :
              LET done == OnEvent(book, ord, feed.event, Now, feed.session, feed.priced, v)
              IN  book' = done.book /\ channel' = channel \o done.reports
  <2>1. PICK v \in VerdictsOf(book, ord, {feed.event}, feed.priced, OrderIds) :
              LET done == OnEvent(book, ord, feed.event, Now, feed.session, feed.priced, v)
              IN  book' = done.book /\ channel' = channel \o done.reports
    BY <1>4
  <2> DEFINE done == OnEvent(book, ord, feed.event, Now, feed.session, feed.priced, v)
             R == done.reports
  <2>2. R \in Seq(ReportType)
    <3> HIDE DEF R, done
    <3>1. done = OnEvent(book, ord, feed.event, Now, feed.session, feed.priced, v)
      BY DEF done
    <3> QED BY <3>1, EventReports DEF R
  <2>3. channel' = channel \o R
    BY <2>1
  <2> HIDE DEF R, done
  <2> QED BY <1>1, <1>2, <2>2, <2>3, StageReduces
<1> QED BY <1>3, <1>4 DEF Execute

LEMMA CleanupReduces ==
    ASSUME IInv, FundNow, CleanupStage \/ Finish
    PROVE  FundNow'
<1>1. /\ pc \in {"Cleanup", "Finish"} /\ pc' \in {"Channel1", "Done"} /\ om' = Cleanup(om)
      /\ UNCHANGED <<ord, channel, drain>> /\ ~Draining
  BY StageNames DEF CleanupStage, Finish, Draining
<1>2. drain.pending = <<>> /\ drain'.pending = <<>>
  BY <1>1, IdleFacts
<1>3. \A i \in OrderIds : om'.plans[i] \subseteq om.plans[i]
  BY <1>1, RestFacts, CleanupProperties
<1>4. channel' = channel \o <<>> /\ <<>> \in Seq(ReportType)
  BY <1>1, StageRests
<1> QED BY <1>1, <1>2, <1>3, <1>4, StageReduces

LEMMA StutterReduces ==
    ASSUME FundNow, UNCHANGED vars
    PROVE  FundNow'
<1>1. /\ pc' = pc /\ drain' = drain /\ State(drain.suppressed)' = State(drain.suppressed)
  BY DEF vars, State
<1> QED BY <1>1 DEF FundNow

-----------------------------------------------------------------------------
\* The plans a callback hands over.
LEMMA PlansHandedOver ==
    ASSUME om \in RegistryType, NEW m, NEW n, NEW t, t = LinkOrders(m, n),
           NEW i \in OrderIds, i # n + 1 \/ m.exits = {}
    PROVE  t.plans[i] = om.plans[i]
<1> DEFINE bound == IF m.oco
                 THEN [om EXCEPT !.oco = RegisterOco(@, <<"oco", n + 1>>, n + 1, n + 2)]
                 ELSE om
<1>1. t = RegisterPlan(bound, n + 1, m.exits)
  BY DEF LinkOrders
<1>2. bound.plans = om.plans /\ om.plans \in [OrderIds -> SUBSET Exits] /\ DOMAIN bound = DOMAIN om
      /\ "plans" \in DOMAIN om
  BY DEF RegistryType
<1> HIDE DEF bound
<1>3. CASE m.exits = {}
  <2>1. t = bound
    BY <1>1, <1>3 DEF RegisterPlan
  <2> QED BY <1>2, <2>1
<1>4. CASE m.exits # {}
  <2> DEFINE pp == [bound.plans EXCEPT ![n + 1] = m.exits]
  <2>1. t = [bound EXCEPT !.plans = pp]
    BY <1>1, <1>4 DEF RegisterPlan
  <2>2. pp[i] = om.plans[i]
    BY <1>2, <1>4
  <2> HIDE DEF pp
  <2>3. t.plans = pp
    BY <1>2, <2>1
  <2> QED BY <2>2, <2>3
<1> QED BY <1>3, <1>4

\* Orders cancelled keep their plans.
LEMMA CancelKeepsPlans ==
    ASSUME NEW r \in RegistryType, NEW S
    PROVE  CancelEach(r, S).plans = r.plans
<1> DEFINE t == CancelEach(r, S)
<1>1. t = CancelEach(r, S)
  OBVIOUS
<1> HIDE DEF t
<1>2. t.plans = r.plans
  BY <1>1, CancelEachLoosens
<1> QED BY <1>1, <1>2

\* There is room for the orders of a callback.
LEMMA RoomLeft ==
    ASSUME IInv, NEW m \in Moves, Room(m), NEW n, n = Cardinality(Used(ord))
    PROVE  /\ n \in Nat /\ n + Len(m.orders) <= Cardinality(OrderIds)
           /\ Used(ord) = 1 .. n /\ ord \in [OrderIds -> Order \cup {NoOrder}]
<1> DEFINE s == State(drain.suppressed)
           a == Cardinality(Planned(om))
           b == Cardinality(m.exits)
           k == Len(m.orders)
           N == Cardinality(OrderIds)
<1>1. s \in StateType /\ s.om = om /\ s.ord = ord /\ Used(s.ord) = 1 .. Drawn(s)
  BY DEF IInv, Good, State
<1> HIDE DEF s
<1>2. om \in RegistryType /\ ord \in [OrderIds -> Order \cup {NoOrder}]
  BY <1>1 DEF StateType
<1>3. n = Drawn(s) /\ n \in Nat
  BY <1>1, UsedFacts DEF Drawn
<1>4. a \in Nat /\ k \in Nat /\ N \in Nat
  BY <1>2, PlannedFacts, MovesAssumption, IdFacts
<1>5. b \in Nat
  <2>1. IsFiniteSet({}) /\ IsFiniteSet({} \cup {"StopLoss"})
    BY FS_EmptySet, FS_AddElement
  <2>2. IsFiniteSet(({} \cup {"StopLoss"}) \cup {"TakeProfit"})
    BY <2>1, FS_AddElement
  <2>3. ({} \cup {"StopLoss"}) \cup {"TakeProfit"} = Exits
    BY DEF Exits
  <2>4. m.exits \in SUBSET Exits
    BY MovesAssumption
  <2> QED BY <2>2, <2>3, <2>4, FS_Subset, FS_CardinalityType
<1>6. n + k + a + b <= N
  BY DEF Room
<1> HIDE DEF a, b, k, N
<1>7. n + k <= N
  BY <1>3, <1>4, <1>5, <1>6
<1> QED BY <1>1, <1>2, <1>3, <1>7 DEF k, N

\* What a callback sends: requests, and cancellations without a trade.
LEMMA CallbackSends ==
    ASSUME IInv, pc = "Strategy", NEW m \in Moves,
           NEW S \in SUBSET {i \in OrderIds : om.status[i] \in Live}, Callback(m, S)
    PROVE  \A d \in ToSet(channel') :
              /\ d.kind = "Report" => d.trade = 0
              /\ d.kind # "Report" =>
                    \E k \in DOMAIN m.orders : d.id = Cardinality(Used(ord)) + k
<1> DEFINE n == Cardinality(Used(ord))
           p == [k \in DOMAIN m.orders |-> [kind |-> "Request", id |-> n + k]]
           c == Cancellations(S, Now)
<1>1. channel' = channel \o p \o c
  BY DEF Callback, Cancellations
<1>2. channel = <<>> /\ om \in RegistryType /\ Now \in Nat
  BY RestFacts DEF IInv, StageSound, FeedSound, FeedType, EventType, Now
<1>3. S \in SUBSET OrderIds
  OBVIOUS
<1> HIDE DEF c
<1>4. c \in Seq(ReportType) /\ \A k \in DOMAIN c : c[k].trade = 0 /\ c[k].kind = "Report"
  <2>1. c \in Seq(ReportType) /\ \A k \in DOMAIN c : c[k].trade = 0
    BY <1>2, <1>3, CancellationsProperties DEF c
  <2>2. \A k \in DOMAIN c : c[k] \in ReportType
    BY <2>1
  <2> QED BY <2>1, <2>2 DEF ReportType
<1>5. /\ p \in Seq({p[k] : k \in DOMAIN p})
      /\ \A k \in DOMAIN p : p[k].kind = "Request" /\ k \in DOMAIN m.orders /\ p[k].id = n + k
  <2>1. m.orders \in Seq(Order)
    BY MovesAssumption
  <2> QED BY <2>1
<1> DEFINE T == {p[k] : k \in DOMAIN p} \cup ReportType
<1> HIDE DEF p
<1>6. p \in Seq(T) /\ c \in Seq(T)
  BY <1>4, <1>5
<1> HIDE DEF T
<1>7. channel' = p \o c
  BY <1>1, <1>2, <1>6
<1>8. ToSet(channel') = ToSet(p) \cup ToSet(c)
  BY <1>6, <1>7, ToSetConcat
<1> HIDE DEF n
<1>9. \A d \in ToSet(p) : d.kind # "Report" /\ \E k \in DOMAIN m.orders : d.id = n + k
  BY <1>5 DEF ToSet
<1>10. \A d \in ToSet(c) : d.kind = "Report" /\ d.trade = 0
  BY <1>4 DEF ToSet
<1> QED BY <1>8, <1>9, <1>10 DEF n

\* A callback, whose exits reduce.
LEMMA StrategyReduces ==
    ASSUME ExitsReduce, IInv, FundNow, Strategy
    PROVE  FundNow'
<1>1. /\ pc = "Strategy" /\ pc' = "Channel3" /\ ~Draining
      /\ ledger' = Tell(ledger) /\ drain' = drain
  BY StageNames DEF Strategy, Draining
<1>2. PICK m \in Moves, S \in SUBSET {i \in OrderIds : om.status[i] \in Live} :
         Room(m) /\ Callback(m, S)
  BY DEF Strategy
<1> DEFINE s == State(drain.suppressed)
           t == State(drain.suppressed)'
           n == Cardinality(Used(ord))
           bound == LinkOrders(m, n)
<1>3. s.om = om /\ s.ord = ord /\ s \in StateType /\ PlansReduce(s) /\ om \in RegistryType
  BY RestFacts DEF IInv, Good, State, FundNow
<1>4. t.om = om' /\ t.ord = ord' /\ t.ledger = ledger' /\ t.channel = channel'
  BY DEF State
<1>5. ord' = WithNew(m, n) /\ om' = CancelEach(bound, S)
  BY <1>2 DEF Callback, WithNew
<1> HIDE DEF s, t
<1>6. /\ n \in Nat /\ n + Len(m.orders) <= Cardinality(OrderIds)
      /\ Used(ord) = 1 .. n /\ ord \in [OrderIds -> Order \cup {NoOrder}]
  <2>1. n = Cardinality(Used(ord)) /\ Room(m)
    BY <1>2
  <2> HIDE DEF n
  <2> QED BY <2>1, RoomLeft
<1> HIDE DEF n
<1>7. om'.plans = bound.plans
  <2>1. bound = LinkOrders(m, n)
    OBVIOUS
  <2> HIDE DEF bound
  <2>2. bound \in RegistryType
    BY <1>3, <1>6, <2>1, LinkOrdersProperties
  <2>3. CancelEach(bound, S).plans = bound.plans
    BY <2>2, CancelKeepsPlans
  <2> QED BY <1>5, <2>3
<1>8. Now \in Nat
  BY DEF IInv, FeedSound, FeedType, EventType, Now
<1>9. m.orders \in Seq(Order) /\ (m.exits # {} => Len(m.orders) = 1)
  BY MovesAssumption
<1>10. \A i \in OrderIds : IF i \in n + 1 .. n + Len(m.orders) THEN ord'[i] \in Order
                           ELSE ord'[i] = ord[i]
  <2> DEFINE new == WithNew(m, n)
  <2>1. new = WithNew(m, n)
    OBVIOUS
  <2> HIDE DEF new
  <2>2. \A i \in OrderIds : IF i \in n + 1 .. n + Len(m.orders) THEN new[i] \in Order
                            ELSE new[i] = ord[i]
    BY <1>6, <1>8, <2>1, CallbackOrders
  <2> QED BY <1>5, <2>1, <2>2
<1>11. ASSUME NEW i \in OrderIds, om'.plans[i] # {}
       PROVE  ord'[i] \in Order /\ ord'[i].effect # "Open"
  <2>1. CASE i = n + 1 /\ m.exits # {}
    <3>1. i \in n + 1 .. n + Len(m.orders) /\ i - n = 1 /\ Len(m.orders) = 1
      <4>1. Len(m.orders) = 1 /\ i = n + 1
        BY <1>9, <2>1
      <4>2. n + 1 \in n + 1 .. n + 1 /\ (n + 1) - n = 1
        BY <1>6
      <4> QED BY <4>1, <4>2
    <3> DEFINE x == m.orders[1]
               tw == IF m.oco THEN 2 * n + 3 - i ELSE 0
    <3>2. x \in Order /\ x.effect # "Open"
      BY <1>9, <2>1, <3>1 DEF ExitsReduce
    <3>3. ord'[i] = [x EXCEPT !.created = Now, !.parent = 0, !.twin = tw]
      BY <1>5, <3>1 DEF WithNew
    <3>4. ord'[i] \in Order
      BY <1>10, <3>1
    <3> HIDE DEF x, tw
    <3>5. ord'[i].effect = x.effect
      BY <3>2, <3>3 DEF Order
    <3> QED BY <3>2, <3>4, <3>5
  <2>2. CASE i # n + 1 \/ m.exits = {}
    <3>1. bound.plans[i] = om.plans[i]
      BY <1>3, <2>2, PlansHandedOver
    <3>2. ord[i] \in Order /\ ord[i].effect # "Open"
      BY <1>3, <1>7, <1>11, <3>1 DEF PlansReduce
    <3>3. i \in 1 .. n
      BY <1>6, <3>2, NoOrderAssumption DEF Used
    <3>4. i \notin n + 1 .. n + Len(m.orders)
      <4>1. Len(m.orders) \in Nat
        BY <1>9
      <4> HIDE DEF bound
      <4> QED BY <1>6, <3>3, <4>1
    <3>5. ord'[i] = ord[i]
      BY <1>10, <3>4
    <3> QED BY <3>2, <3>5
  <2> QED BY <2>1, <2>2
<1> HIDE DEF bound
<1>12. PlansReduce(t)
  BY <1>4, <1>11 DEF PlansReduce
<1>13. NothingTraded(t)
  <2>1. ledger.unbooked = None /\ ledger \in LedgerType
    BY <1>1, IdleFacts
  <2>2. ledger'.unbooked = None
    BY <1>1, <2>1, TellProperties
  <2>3. \A d \in ToSet(channel') : d.kind = "Report" => d.trade = 0
    BY <1>1, <1>2, CallbackSends
  <2> QED BY <1>4, <2>2, <2>3 DEF NothingTraded
<1> QED BY <1>1, <1>12, <1>13 DEF FundNow, t

LEMMA StepReduces ==
    ASSUME ExitsReduce, IInv, FundNow, [Next]_vars
    PROVE  FundNow'
<1>1. CASE ChannelReceive
  BY <1>1, ReceiveStepReduces
<1>2. CASE ChannelTurn
  BY <1>2, TurnReduces
<1>3. CASE ChannelLeave
  BY <1>3, LeaveReduces
<1>4. CASE \/ \E sym \in Symbols, ts \in Times, traded \in BOOLEAN, session \in Sessions :
                 DataBar(sym, ts, traded, session)
           \/ \E session \in Sessions : DataTimer(session)
           \/ DataEnd
  BY <1>4, DataReduces
<1>5. CASE Execute
  BY <1>5, ExecuteReduces
<1>6. CASE Strategy
  BY <1>6, StrategyReduces
<1>7. CASE CleanupStage \/ Finish
  BY <1>7, CleanupReduces
<1>8. CASE UNCHANGED vars \/ Returned
  BY <1>8, StutterReduces DEF Returned
<1> QED BY <1>1, <1>2, <1>3, <1>4, <1>5, <1>6, <1>7, <1>8 DEF Next

\* Nothing is drawn, planned or traded at first.
LEMMA InitReduces == Init => FundNow
<1> SUFFICES ASSUME Init PROVE FundNow
  OBVIOUS
<1> DEFINE s == State(drain.suppressed)
<1>1. /\ s.om = EmptyRegistry /\ s.channel = <<>> /\ drain.pending = <<>>
      /\ pc = "Channel1"
  BY StageFacts DEF Init, State, IdleDrain, Stages
<1> HIDE DEF s
<1>2. PlansReduce(s)
  BY <1>1 DEF PlansReduce, EmptyRegistry
<1>3. ToSet(<<>>) = {}
  BY DEF ToSet
<1> QED BY <1>1, <1>2, <1>3 DEF FundNow, RequestsReduce, s

\* The requests that leave a turn.
LEMMA TurnFunds ==
    ASSUME IInv, FundNow, ChannelTurn,
           NEW i \in ToSet(drain.pending) \ ToSet(drain'.pending), ~ReduceFirst(ord[i])
    PROVE  /\ \A j \in ToSet(drain.pending) : ~ReduceFirst(ord[j])
           /\ \A k \in DOMAIN channel : ~ReduceFirst(ord[channel[k].id])
           /\ ledger'.unbooked = None
<1>1. /\ Draining /\ channel = <<>>
      /\ ledger' = IF drain.settle THEN Flush(ledger) ELSE ledger
      /\ IntermediateMatch \/ RequestsTurn
  BY DEF ChannelTurn
<1> DEFINE s == State(drain.suppressed)
<1>2. /\ Good(s, drain.pending, {}) /\ s \in StateType /\ drain \in DrainType
      /\ s.ord = ord /\ s.channel = channel /\ s.ledger = ledger
      /\ (pc # "Channel3" => RequestsReduce(s, drain.pending))
      /\ (pc = "Channel3" /\ ~drain.settle => NothingTraded(s))
  <2> HIDE DEF s
  <2>1. s = State(drain.suppressed)
    BY DEF s
  <2> QED BY <2>1, FundFacts DEF FundNow
<1> HIDE DEF s
<1>3. pc = "Channel3"
  BY <1>2 DEF RequestsReduce
<1>4. RequestsTurn
  <2>1. CASE IntermediateMatch
    <3>1. drain' = [drain EXCEPT !.intermediate = FALSE, !.settle = TRUE]
      BY <2>1 DEF IntermediateMatch
    <3>2. drain'.pending = drain.pending
      BY <1>2, <3>1 DEF DrainType
    <3> QED BY <3>2
  <2> QED BY <1>1, <2>1
<1>5. drain'.pending = Waiting
  <2>1. \E mid \in BOOLEAN : drain' = [drain EXCEPT !.pending = Waiting, !.intermediate = mid,
                                                    !.settle = FALSE]
    BY <1>4 DEF RequestsTurn, Mixed
  <2> QED BY <1>2, <2>1 DEF DrainType
<1>6. drain.pending \in Seq(OrderIds) /\ IsInjective(drain.pending)
  BY <1>2 DEF Good, InOnePlace
<1>7. ~Mixed
  <2> SUFFICES ASSUME Mixed PROVE FALSE
    OBVIOUS
  <2> DEFINE Y == ToSet(drain.pending) \ Reducing
             q == drain.pending
  <2>1. Waiting = Only(q, Y)
    BY DEF Waiting, Increases
  <2>2. i \in Y
    BY DEF Reducing
  <2>3. ToSet(Only(q, Y)) = ToSet(q) \cap Y
    <3> HIDE DEF q, Y
    <3> QED BY <1>6, OnlyInjective DEF q
  <2> HIDE DEF Y
  <2> QED BY <1>5, <2>1, <2>2, <2>3
<1>8. ASSUME NEW j \in ToSet(drain.pending), ReduceFirst(ord[j])
      PROVE  FALSE
  <2> DEFINE q == drain.pending
             X == Reducing
             Y == ToSet(drain.pending) \ Reducing
  <2>1. i \in Y /\ j \in X
    BY <1>8 DEF Reducing
  <2>2. Reduces = Only(q, X) /\ Increases = Only(q, Y)
    BY DEF Reduces, Increases
  <2>3. ToSet(Only(q, X)) = ToSet(q) \cap X
    <3> HIDE DEF q, X
    <3> QED BY <1>6, OnlyInjective DEF q
  <2>4. ToSet(Only(q, Y)) = ToSet(q) \cap Y
    <3> HIDE DEF q, Y
    <3> QED BY <1>6, OnlyInjective DEF q
  <2> HIDE DEF X, Y
  <2>5. ToSet(Reduces) # {} /\ ToSet(Increases) # {}
    BY <1>8, <2>1, <2>2, <2>3, <2>4
  <2>6. ToSet(<<>>) = {}
    BY DEF ToSet
  <2> QED BY <1>7, <2>5, <2>6 DEF Mixed
<1>9. ledger'.unbooked = None
  <2>1. CASE drain.settle
    <3>1. ledger \in LedgerType /\ ledger' = Flush(ledger)
      BY <1>1, <1>2, <2>1 DEF StateType
    <3> QED BY <3>1, FlushProperties
  <2>2. CASE ~drain.settle
    BY <1>1, <1>2, <1>3, <2>2 DEF NothingTraded
  <2> QED BY <2>1, <2>2
<1> QED BY <1>1, <1>8, <1>9

\* A request leaves the pending ones only when its turn comes.
LEMMA PendingLeaves ==
    ASSUME IInv, [Next]_vars, ~ChannelTurn
    PROVE  ToSet(drain.pending) \subseteq ToSet(drain'.pending)
<1>1. CASE ChannelReceive
  <2> DEFINE m == Head(channel)
             next == IF m.kind = "Request" THEN Append(drain.pending, m.id) ELSE drain.pending
  <2>1. \E S : drain' = [drain EXCEPT !.suppressed = S, !.pending = next]
    BY <1>1 DEF ChannelReceive
  <2>2. /\ drain \in DrainType /\ drain.pending \in Seq(OrderIds) /\ channel # <<>>
        /\ channel \in Seq(MessageType)
    BY <1>1 DEF ChannelReceive, IInv, DrainType, Good, StateType, State
  <2>3. m.id \in OrderIds
    <3>1. m \in MessageType
      BY <2>2
    <3> HIDE DEF m
    <3> QED BY <3>1 DEF MessageType, ReportType
  <2>4. drain'.pending = next
    <3> HIDE DEF next
    <3> QED BY <2>1, <2>2 DEF DrainType
  <2> HIDE DEF m
  <2>5. ToSet(drain.pending) \subseteq ToSet(next)
    BY <2>2, <2>3, ToSetAppend
  <2> QED BY <2>4, <2>5
<1>2. CASE ChannelLeave
  BY <1>2 DEF ChannelLeave, ToSet
<1>3. CASE drain' = drain
  BY <1>3
<1>4. drain' = drain \/ ChannelReceive \/ ChannelLeave
  BY DEF Next, DataBar, DataTimer, DataEnd, Execute, Strategy, CleanupStage, Finish,
         Returned, vars
<1> QED BY <1>1, <1>2, <1>3, <1>4

\* ReducesFundIncreases: an order that increases a position is checked only after
\* the orders that reduce one were taken and what traded was booked, if no bracket
\* declares that its entry opens a position: its exits, which repeat that, would
\* not count as orders that reduce one.
THEOREM ReducesFundIncreasesCorrect == ASSUME ExitsReduce PROVE Spec => ReducesFundIncreases
<1>1. Init => IInv /\ FundNow
  BY InitSound, InitReduces
<1>2. IInv /\ FundNow /\ [Next]_vars => (IInv /\ FundNow)'
  BY StepSound, StepReduces
<1>3. ASSUME IInv, FundNow, [Next]_vars
      PROVE  [\A i \in ToSet(drain.pending) \ ToSet(drain'.pending) :
                ~ReduceFirst(ord[i]) =>
                   /\ \A j \in ToSet(drain.pending) : ~ReduceFirst(ord[j])
                   /\ \A k \in DOMAIN channel : ~ReduceFirst(ord[channel[k].id])
                   /\ ledger'.unbooked = None]_vars
  <2>1. CASE ChannelTurn
    BY <1>3, <2>1, TurnFunds
  <2>2. CASE ~ChannelTurn
    BY <1>3, <2>2, PendingLeaves
  <2> QED BY <2>1, <2>2
<1> QED BY <1>1, <1>2, <1>3, PTL DEF Spec, ReducesFundIncreases
==============================================================================
