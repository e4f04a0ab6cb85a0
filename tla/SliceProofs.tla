----------------------------- MODULE SliceProofs -----------------------------
(***************************************************************************)
(* Orders and the slices and dates they trade in.  A Day order trades on   *)
(* its date, and has had its slice when the settlement expires it.  And an *)
(* order due in a slice has its match before the slice ends: SliceNow says *)
(* of each that works untouched who will match it, the stage or the end of *)
(* the slice, and of what is on its way to the client, that it cannot be   *)
(* due before.                                                             *)
(***************************************************************************)
EXTENDS OrderAccountsProofs

-----------------------------------------------------------------------------
(***************************************************************************)
(* Day orders.                                                             *)
(***************************************************************************)

\* A same-cycle Day order.
ForToday(o) == o \in Order /\ o.tif = "Day" /\ o.offset = 0

\* Those that work at the client, and those asked for, are of the dates D; what is
\* traded of one is traded on its date; the order manager holds what the client works.
DayWorks(s, D) == \A i \in Active(s.book) : ForToday(s.ord[i]) => DateOf[s.ord[i].created] \in D
DayAsked(s, pending, D) ==
    /\ \A i \in ToSet(pending) : ForToday(s.ord[i]) => DateOf[s.ord[i].created] \in D
    /\ \A m \in ToSet(s.channel) :
          m.kind # "Report" /\ ForToday(s.ord[m.id]) => DateOf[s.ord[m.id].created] \in D
DayTrades(s) ==
    \A m \in ToSet(s.channel) :
       m.kind = "Report" /\ m.trade > 0 /\ ForToday(s.ord[m.id])
          => DateOf[m.at] = DateOf[s.ord[m.id].created]
ClientKnown(s) == \A i \in Active(s.book) : s.om.status[i] \in Live

\* No Day order was created later than now, and none has exits to come.
DayMade(s, now) ==
    \A i \in OrderIds :
       /\ s.ord[i] \in Order /\ s.ord[i].tif = "Day" => s.ord[i].created <= now
       /\ s.om.plans[i] # {} => s.ord[i] \in Order /\ s.ord[i].tif # "Day"

\* t has the orders of s, with their dates, those that are new are no Day orders, and no
\* new plan.
SameDays(s, t) ==
    /\ \A i \in OrderIds : s.ord[i] \in Order =>
          /\ t.ord[i] \in Order /\ t.ord[i].tif = s.ord[i].tif
          /\ t.ord[i].offset = s.ord[i].offset /\ t.ord[i].created = s.ord[i].created
    /\ \A i \in OrderIds : s.ord[i] \notin Order
                            => ~(t.ord[i] \in Order /\ t.ord[i].tif = "Day")
    /\ \A i \in OrderIds : t.om.plans[i] \subseteq s.om.plans[i]

\* From s with its pending requests to t with the next ones, nothing gets a day that
\* nothing had.
DaysGoOn(s, pending, t, next) ==
    /\ ClientKnown(t)
    /\ \A D : DayWorks(s, D) /\ DayAsked(s, pending, D) => DayWorks(t, D) /\ DayAsked(t, next, D)
    /\ DayTrades(s) => DayTrades(t)
    /\ \A now : DayMade(s, now) => DayMade(t, now)

LEMMA SameDaysFacts ==
    ASSUME NEW s, NEW t, SameDays(s, t), NEW i \in OrderIds, ForToday(t.ord[i])
    PROVE  ForToday(s.ord[i]) /\ t.ord[i].created = s.ord[i].created
BY DEF SameDays, ForToday

LEMMA DayMadeKept ==
    ASSUME NEW s, NEW t, SameDays(s, t), NEW now, DayMade(s, now)
    PROVE  DayMade(t, now)
BY DEF SameDays, DayMade

\* Fewer orders work; no Day order is asked for anew; no report brings a trade.
LEMMA DaysKept ==
    ASSUME NEW s, NEW pending, Good(s, pending, {}), NEW t, SameDays(s, t), NEW next
    PROVE  /\ \A D : /\ DayWorks(s, D)
                     /\ \A i \in Active(t.book) : i \in Active(s.book)
                     => DayWorks(t, D)
           /\ \A D : /\ DayAsked(s, pending, D)
                     /\ \A i \in ToSet(next) : \/ i \in ToSet(pending)
                                               \/ \E m \in ToSet(s.channel) : m.id = i /\ m.kind # "Report"
                     /\ \A m \in ToSet(t.channel) : m.kind # "Report" =>
                           \/ m \in ToSet(s.channel) \/ m.id \in ToSet(pending)
                           \/ m.id \in OrderIds /\ s.ord[m.id] \notin Order
                     => DayAsked(t, next, D)
           /\ /\ DayTrades(s)
              /\ \A m \in ToSet(t.channel) : m.kind = "Report" /\ m.trade > 0 => m \in ToSet(s.channel)
              => DayTrades(t)
<1>1. /\ \A m \in ToSet(s.channel) : m.id \in OrderIds
      /\ ToSet(pending) \subseteq OrderIds
  BY MessageIds
<1>2. ASSUME NEW D, DayWorks(s, D), \A i \in Active(t.book) : i \in Active(s.book)
      PROVE  DayWorks(t, D)
  BY <1>2, SameDaysFacts DEF DayWorks, Active
<1>3. ASSUME NEW D, DayAsked(s, pending, D),
             \A i \in ToSet(next) : \/ i \in ToSet(pending)
                                    \/ \E m \in ToSet(s.channel) : m.id = i /\ m.kind # "Report",
             \A m \in ToSet(t.channel) : m.kind # "Report" =>
                           \/ m \in ToSet(s.channel) \/ m.id \in ToSet(pending)
                           \/ m.id \in OrderIds /\ s.ord[m.id] \notin Order
      PROVE  DayAsked(t, next, D)
  <2>1. \A i \in ToSet(next) : ForToday(t.ord[i]) => DateOf[t.ord[i].created] \in D
    BY <1>1, <1>3, SameDaysFacts DEF DayAsked
  <2>2. \A m \in ToSet(t.channel) :
          m.kind # "Report" /\ ForToday(t.ord[m.id]) => DateOf[t.ord[m.id].created] \in D
    BY <1>1, <1>3, SameDaysFacts DEF DayAsked, ForToday
  <2> QED BY <2>1, <2>2 DEF DayAsked
<1>4. ASSUME DayTrades(s),
             \A m \in ToSet(t.channel) : m.kind = "Report" /\ m.trade > 0 => m \in ToSet(s.channel)
      PROVE  DayTrades(t)
  BY <1>1, <1>4, SameDaysFacts DEF DayTrades
<1> QED BY <1>2, <1>3, <1>4

\* A report is applied: what the client works is known.
LEMMA ReportKnown ==
    ASSUME NEW s, NEW pending, NEW reports, Good(s, pending, reports), NEW r \in reports,
           NEW t, t = ApplyReport(s, r), ClientKnown(s)
    PROVE  ClientKnown(t)
<1>1. r \in ReportType /\ MessageSound(s, r) /\ s.book \in BookType
  BY DEF Good, StateType
<1>2. \E k \in Nat, P \in SUBSET OrderIds : Applied(s, r, t, k, P)
  BY ReportKeeps
<1>3. PICK k \in Nat, P \in SUBSET OrderIds : Applied(s, r, t, k, P)
  BY <1>2
<1>4. t.book = OnCancel(s.book, P)
  BY <1>3 DEF Applied
<1>5. Active(t.book) = Active(s.book) \ P
  BY <1>1, <1>4, OnCancelProperties
<1> SUFFICES ASSUME NEW i \in Active(t.book)
             PROVE  t.om.status[i] \in Live
  BY DEF ClientKnown
<1>6. i \in OrderIds /\ i \notin P /\ i \in Active(s.book) /\ s.om.status[i] \in Live
  BY <1>5 DEF ClientKnown, Active
<1>7. CASE i # r.id
  BY <1>3, <1>6, <1>7 DEF Applied
<1>8. CASE i = r.id
  <2>1. r.status \in Status /\ r.status \notin Finished
    BY <1>1, <1>6, <1>8 DEF MessageSound, ReportType
  <2>2. r.status \in Live
    BY <2>1 DEF Status, Live, Finished
  <2> QED BY <1>3, <1>6, <1>8, <2>2 DEF Applied
<1> QED BY <1>7, <1>8

\* Its exits are no Day orders.
LEMMA ReportDays ==
    ASSUME NEW s, NEW pending, NEW reports, Good(s, pending, reports), NEW r \in reports,
           NEW t, t = ApplyReport(s, r), NEW now, DayMade(s, now)
    PROVE  /\ \A D : DayWorks(s, D) => DayWorks(t, D)
           /\ \A D : DayAsked(s, pending, D) => DayAsked(t, pending, D)
           /\ DayTrades(s) => DayTrades(t)
           /\ SameDays(s, t) /\ t.om.history = s.om.history
<1>1. /\ s \in StateType /\ r \in ReportType /\ s.channel \in Seq(MessageType)
      /\ Used(s.ord) = 1 .. Drawn(s) /\ MessageSound(s, r) /\ s.book \in BookType
      /\ Good(s, pending, {})
  BY DEF Good, StateType, InOnePlace
<1>2. \E k \in Nat, P \in SUBSET OrderIds : Applied(s, r, t, k, P)
  BY ReportKeeps
<1>3. PICK k \in Nat, P \in SUBSET OrderIds : Applied(s, r, t, k, P)
  BY <1>2
<1> DEFINE n == Drawn(s)
           new == Requests(n, k)
<1>4. t \in StateType /\ Extended(s, t, k) /\ t.book = OnCancel(s.book, P)
  BY <1>3 DEF Applied
<1>5. Active(t.book) = Active(s.book) \ P
  BY <1>1, <1>4, OnCancelProperties
<1>6. /\ \A i \in OrderIds : s.ord[i] \in Order => t.ord[i] = s.ord[i]
      /\ \A j \in n + 1 .. n + k : j \in OrderIds /\ s.ord[j] \notin Order
  BY <1>1, <1>4, ExtendedProperties
<1>7. SameDays(s, t)
  <2>1. \A i \in OrderIds : t.ord[i] # s.ord[i] =>
            t.ord[i].tif = s.ord[r.id].tif /\ s.om.plans[r.id] # {}
    BY <1>3 DEF Applied, ExitsOnly, ExitTerms
  <2>2. r.id \in OrderIds
    BY <1>1 DEF ReportType
  <2>3. \A i \in OrderIds : t.ord[i] # s.ord[i] => t.ord[i].tif # "Day"
    BY <2>1, <2>2 DEF DayMade
  <2>4. \A i \in OrderIds : t.om.plans[i] \subseteq s.om.plans[i]
    BY <1>3 DEF Applied
  <2> QED BY <1>6, <2>3, <2>4 DEF SameDays
<1>8. n \in Nat /\ t.channel = s.channel \o new
  BY <1>1, <1>4, UsedFacts DEF Extended
<1> HIDE DEF n
<1>9. /\ new \in Seq(MessageType)
       /\ \A m \in ToSet(new) : m.kind = "Request" /\ m.id \in n + 1 .. n + k
  <2>1. new = [j \in 1 .. k |-> [kind |-> "Request", id |-> n + j]]
    BY DEF Requests
  <2>2. \A j \in 1 .. k : n + j \in n + 1 .. n + k /\ n + j \in OrderIds
    BY <1>6, <1>8
  <2>3. \A j \in 1 .. k : [kind |-> "Request", id |-> n + j] \in MessageType
    BY <2>2 DEF MessageType
  <2> HIDE DEF new
  <2> QED BY <2>1, <2>2, <2>3 DEF ToSet
<1> HIDE DEF new
<1>10. \A m \in ToSet(t.channel) : \/ m \in ToSet(s.channel)
                                   \/ /\ m.kind = "Request"
                                      /\ m.id \in OrderIds /\ s.ord[m.id] \notin Order
  <2>1. ToSet(t.channel) = ToSet(s.channel) \cup ToSet(new)
    BY <1>1, <1>8, <1>9, ToSetConcat
  <2> QED BY <1>6, <1>9, <2>1
<1>11. \A D : DayWorks(s, D) => DayWorks(t, D)
  BY <1>1, <1>5, <1>7, DaysKept
<1>12. \A D : DayAsked(s, pending, D) => DayAsked(t, pending, D)
  <2>1. \A m \in ToSet(t.channel) : m.kind # "Report" =>
            \/ m \in ToSet(s.channel) \/ m.id \in ToSet(pending)
            \/ m.id \in OrderIds /\ s.ord[m.id] \notin Order
    BY <1>10
  <2> QED BY <1>1, <1>7, <2>1, DaysKept
<1>13. DayTrades(s) => DayTrades(t)
  <2>1. \A m \in ToSet(t.channel) : m.kind = "Report" /\ m.trade > 0 => m \in ToSet(s.channel)
    BY <1>10
  <2> QED BY <1>1, <1>7, <2>1, DaysKept
<1>14. t.om.history = s.om.history
  BY <1>3 DEF Applied
<1> QED BY <1>7, <1>11, <1>12, <1>13, <1>14

\* One message is taken from the channel.
LEMMA ReceiveDays ==
    ASSUME NEW s, NEW pending, Good(s, pending, {}), s.channel # <<>>,
           NEW m, m = Head(s.channel), NEW u, u = Popped(s),
           NEW t \in StateType, m.kind = "Request" => t = u,
           m.kind = "Validated" => t = WithOrder(u, m.id),
           m.kind = "Report" => t = ApplyReport(u, m),
           NEW next, next = IF m.kind = "Request" THEN Append(pending, m.id) ELSE pending,
           ClientKnown(s), NEW n, DayMade(s, n)
    PROVE  DaysGoOn(s, pending, t, next)
<1>1. s \in StateType /\ s.channel \in Seq(MessageType)
  BY DEF Good, StateType
<1>2. /\ u \in StateType /\ u.om = s.om /\ u.book = s.book /\ u.ord = s.ord
      /\ u.channel = Tail(s.channel)
  <2> DEFINE q == Tail(s.channel)
  <2>1. q \in Seq(MessageType)
    BY <1>1
  <2>2. u = [s EXCEPT !.channel = q]
    BY DEF Popped
  <2> HIDE DEF q
  <2>3. u \in StateType /\ u.om = s.om /\ u.book = s.book /\ u.ord = s.ord /\ u.channel = q
    BY <1>1, <2>1, <2>2 DEF StateType
  <2> QED BY <2>3 DEF q
<1>3. /\ m \in MessageType /\ m.id \in OrderIds /\ MessageSound(u, m)
      /\ m \in ToSet(s.channel) /\ ToSet(u.channel) \subseteq ToSet(s.channel)
      /\ m.id \notin ToSet(pending) /\ \A d \in ToSet(u.channel) : d.id # m.id
      /\ Good(u, pending, {})
  <2>1. /\ m \in MessageType /\ m.id \in OrderIds /\ MessageSound(u, m)
        /\ m \in ToSet(s.channel) /\ m.id \notin ToSet(pending)
    BY <1>2, HeadTaken
  <2>2. ToSet(u.channel) \subseteq ToSet(s.channel)
    BY <1>2, HeadTaken
  <2>3. \A d \in ToSet(u.channel) : d.id # m.id
    BY <1>2, HeadTaken
  <2>4. Good(u, pending, {})
    BY <1>2, HeadTaken
  <2> QED BY <2>1, <2>2, <2>3, <2>4
<1>4. ClientKnown(u) /\ SameDays(s, u)
  BY <1>2 DEF ClientKnown, SameDays, ForToday
<1>5. /\ \A D : DayWorks(s, D) => DayWorks(u, D)
      /\ \A D : DayAsked(s, pending, D) => DayAsked(u, pending, D)
      /\ DayTrades(s) => DayTrades(u)
  BY <1>2, <1>3, <1>4, DaysKept
<1>6. DayMade(u, n) /\ \A now : DayMade(s, now) => DayMade(u, now)
  BY <1>4, DayMadeKept
<1>7. CASE m.kind = "Request"
  <2>1. t = u /\ next = Append(pending, m.id) /\ pending \in Seq(OrderIds)
    BY <1>7 DEF Good, InOnePlace
  <2>2. ToSet(next) = ToSet(pending) \cup {m.id}
    BY <1>3, <2>1, ToSetAppend
  <2>3. ASSUME NEW D, DayAsked(s, pending, D)
        PROVE  DayAsked(t, next, D)
    BY <1>2, <1>3, <1>7, <2>1, <2>2, <2>3 DEF DayAsked
  <2> QED BY <1>4, <1>5, <1>6, <2>1, <2>3 DEF DaysGoOn
<1>8. CASE m.kind = "Validated"
  <2>1. t = WithOrder(u, m.id) /\ next = pending /\ m.id \notin ToSet(u.book.queue)
    BY <1>3, <1>8 DEF MessageSound
  <2> DEFINE b == OnOrder(u.book, m.id)
             o == AddActive(u.om, m.id)
  <2>2. t = [u EXCEPT !.book = b, !.om = o]
    BY <2>1 DEF WithOrder
  <2>3. \A j \in OrderIds : b.status[j] = IF j = m.id THEN "Submitted" ELSE u.book.status[j]
    <3>1. BookSound(u.book, u.ord) /\ u.ord[m.id] \in Order
      BY <1>3 DEF Good, MessageSound
    <3> QED BY <1>3, <2>1, <3>1, OnOrderProperties
  <2>4. /\ \A j \in OrderIds : o.status[j] = IF j = m.id THEN "New" ELSE u.om.status[j]
        /\ o.plans = u.om.plans
    <3>1. u.om \in RegistryType
      BY <1>2 DEF StateType
    <3> QED BY <1>3, <3>1, AddActiveProperties
  <2> HIDE DEF b, o
  <2>5. t.book = b /\ t.om = o /\ t.ord = u.ord /\ t.channel = u.channel
    BY <1>2, <2>2 DEF StateType
  <2>6. \A i \in Active(t.book) : i = m.id \/ i \in Active(u.book)
    BY <2>3, <2>5 DEF Active
  <2>7. ClientKnown(t)
    BY <1>4, <2>4, <2>5, <2>6, StatusFacts DEF ClientKnown, Active
  <2>8. ASSUME NEW D, DayWorks(s, D), DayAsked(s, pending, D)
        PROVE  DayWorks(t, D) /\ DayAsked(t, next, D)
    <3>1. DayWorks(u, D) /\ DayAsked(u, pending, D)
      BY <1>5, <2>8
    <3>2. ForToday(u.ord[m.id]) => DateOf[u.ord[m.id].created] \in D
      BY <1>2, <1>3, <1>8, <2>8 DEF DayAsked
    <3>3. DayWorks(t, D)
      BY <2>5, <2>6, <3>1, <3>2 DEF DayWorks
    <3> QED BY <2>1, <2>5, <3>1, <3>3 DEF DayAsked
  <2>9. DayTrades(u) => DayTrades(t)
    BY <2>5 DEF DayTrades
  <2>10. \A now : DayMade(u, now) => DayMade(t, now)
    BY <2>4, <2>5 DEF DayMade
  <2> QED BY <1>5, <1>6, <2>7, <2>8, <2>9, <2>10 DEF DaysGoOn
<1>9. CASE m.kind = "Report"
  <2> DEFINE R == {m}
  <2>1. m \in ReportType /\ t = ApplyReport(u, m) /\ next = pending
    BY <1>3, <1>9 DEF MessageType
  <2>2. InOnePlace(u, pending, R)
    BY <1>3 DEF Good, InOnePlace
  <2>3. R \subseteq ReportType /\ m \in R /\ \A d \in R : MessageSound(u, d)
    BY <1>3, <2>1
  <2> HIDE DEF R
  <2>4. Good(u, pending, R)
    BY <1>3, <2>2, <2>3 DEF Good
  <2>5. ClientKnown(t)
    BY <1>4, <2>1, <2>3, <2>4, ReportKnown
  <2>6. \A D : DayWorks(u, D) => DayWorks(t, D)
    BY <1>6, <2>1, <2>3, <2>4, ReportDays
  <2>7. \A D : DayAsked(u, pending, D) => DayAsked(t, pending, D)
    BY <1>6, <2>1, <2>3, <2>4, ReportDays
  <2>8. DayTrades(u) => DayTrades(t)
    BY <1>6, <2>1, <2>3, <2>4, ReportDays
  <2>9. SameDays(u, t)
    BY <1>6, <2>1, <2>3, <2>4, ReportDays
  <2>10. \A now : DayMade(u, now) => DayMade(t, now)
    BY <2>9, DayMadeKept
  <2> QED BY <1>5, <1>6, <2>1, <2>5, <2>6, <2>7, <2>8, <2>10 DEF DaysGoOn
<1>10. m.kind \in {"Request", "Validated", "Report"}
  BY <1>3 DEF MessageType, ReportType
<1> QED BY <1>7, <1>8, <1>9, <1>10

\* A match of the current event, on the date D: its reports enter the channel.
LEMMA MatchDays ==
    ASSUME NEW s, NEW pending, Good(s, pending, {}), NEW event \in EventType,
           NEW now \in Nat, NEW session, NEW priced,
           NEW v \in VerdictsOf(s.book, s.ord, {event}, priced, OrderIds),
           NEW done, done = OnEvent(s.book, s.ord, event, now, session, priced, v),
           NEW t, t.om = s.om, t.ord = s.ord, t.book = done.book,
           t.channel = s.channel \o done.reports, ClientKnown(s), DayTrades(s),
           (\E i \in OrderIds : s.ord[i] \in Order) => DayWorks(s, {DateOf[event.ts]})
    PROVE  DaysGoOn(s, pending, t, pending)
<1>1. /\ BookSound(s.book, s.ord) /\ s.channel \in Seq(MessageType)
      /\ \A i \in Active(s.book) : i \in OrderIds /\ s.ord[i] \in Order
  BY DEF Good, StateType, BookSound, Active
<1>2. /\ CallSound(s.book, s.ord, Nat, done)
      /\ \A k \in DOMAIN done.reports : done.reports[k].trade > 0
                                            => done.reports[k].at = event.ts
  <2> DEFINE b == s.book
             o == s.ord
  <2>1. BookSound(b, o) /\ v \in VerdictsOf(b, o, {event}, priced, OrderIds)
        /\ done = OnEvent(b, o, event, now, session, priced, v)
    BY <1>1
  <2> HIDE DEF b, o
  <2>2. EventSound(b, o, event, done)
    BY <2>1, OnEventSound
  <2> QED BY <2>2 DEF b, o, EventSound
<1> DEFINE R == done.reports
<1>3. \A k \in DOMAIN R : R[k].trade > 0 => R[k].at = event.ts
  BY <1>2
<1>4. /\ R \in Seq(ReportType) /\ \A k \in DOMAIN R : R[k].id \in Active(s.book)
      /\ \A i \in Active(t.book) : i \in Active(s.book)
  BY <1>2 DEF CallSound, Outcome, Genuine
<1> HIDE DEF R
<1>5. \A k \in DOMAIN R : R[k] \in MessageType /\ R[k].kind = "Report"
  <2>1. \A k \in DOMAIN R : R[k] \in ReportType
    BY <1>4
  <2> QED BY <2>1 DEF MessageType, ReportType
<1>6. R \in Seq(MessageType)
  BY <1>4, <1>5
<1>7. ToSet(t.channel) = ToSet(s.channel) \cup ToSet(R)
  BY <1>1, <1>6, ToSetConcat DEF R
<1>8. \A m \in ToSet(R) : /\ m.kind = "Report" /\ m.id \in Active(s.book)
                          /\ m.trade > 0 => m.at = event.ts
  BY <1>3, <1>4, <1>5 DEF ToSet
<1>9. SameDays(s, t)
  BY DEF SameDays, ForToday
<1>10. ClientKnown(t)
  BY <1>4 DEF ClientKnown
<1>11. \A D : DayWorks(s, D) => DayWorks(t, D)
  BY <1>4, <1>9, DaysKept
<1>12. \A D : DayAsked(s, pending, D) => DayAsked(t, pending, D)
  BY <1>7, <1>8, <1>9, DaysKept
<1>13. DayTrades(t)
  <2>1. \A m \in ToSet(R) : m.trade > 0 /\ ForToday(s.ord[m.id])
                              => DateOf[m.at] = DateOf[s.ord[m.id].created]
    BY <1>1, <1>8 DEF DayWorks
  <2> QED BY <1>7, <2>1 DEF DayTrades
<1>14. \A n : DayMade(s, n) => DayMade(t, n)
  BY <1>9, DayMadeKept
<1> QED BY <1>10, <1>11, <1>12, <1>13, <1>14 DEF DaysGoOn

\* The pending requests are answered.
LEMMA AnswerDays ==
    ASSUME NEW s, NEW pending, Good(s, pending, {}), NEW ids \in Seq(OrderIds),
           ToSet(ids) \subseteq ToSet(pending), NEW next, ToSet(next) \subseteq ToSet(pending),
           NEW risk, \A i \in ToSet(ids) : risk[i] \in Nat, NEW at,
           NEW t, t.om = s.om, t.book = s.book, t.channel = Answers(ids, risk, at),
           t.ord = Reduced(s.ord, ids, risk), ClientKnown(s)
    PROVE  DaysGoOn(s, pending, t, next)
<1>1. SameDays(s, t)
  <2>1. ASSUME NEW i \in OrderIds
        PROVE  /\ s.ord[i] \in Order =>
                    /\ t.ord[i] \in Order /\ t.ord[i].tif = s.ord[i].tif
                    /\ t.ord[i].offset = s.ord[i].offset /\ t.ord[i].created = s.ord[i].created
               /\ s.ord[i] \notin Order => ~(t.ord[i] \in Order /\ t.ord[i].tif = "Day")
    <3>1. t.ord[i] = IF i \in ToSet(ids) /\ risk[i] # 0 THEN [s.ord[i] EXCEPT !.qty = risk[i]]
                     ELSE s.ord[i]
      BY DEF Reduced
    <3>2. i \in ToSet(ids) => s.ord[i] \in Order
      BY DEF Good, RequestSound
    <3>3. CASE i \in ToSet(ids) /\ risk[i] # 0
      <4>1. s.ord[i] \in Order /\ risk[i] \in Nat \ {0}
            /\ t.ord[i] = [s.ord[i] EXCEPT !.qty = risk[i]]
        BY <3>1, <3>2, <3>3
      <4> QED BY <4>1 DEF Order
    <3>4. CASE ~(i \in ToSet(ids) /\ risk[i] # 0)
      BY <3>1, <3>4 DEF ForToday
    <3> QED BY <3>3, <3>4
  <2> QED BY <2>1 DEF SameDays
<1>2. ClientKnown(t)
  BY DEF ClientKnown
<1>3. \A m \in ToSet(t.channel) : /\ m.id \in ToSet(pending)
                                  /\ m.kind = "Report" => m.trade = 0
  <2>1. \A k \in DOMAIN ids : ids[k] \in ToSet(pending)
    BY DEF ToSet
  <2>2. \A k \in DOMAIN ids : LET m == Answers(ids, risk, at)[k]
                              IN  m.id = ids[k] /\ (m.kind = "Report" => m.trade = 0)
    BY DEF Answers, Report
  <2>3. DOMAIN Answers(ids, risk, at) = DOMAIN ids
    BY DEF Answers
  <2> QED BY <2>1, <2>2, <2>3 DEF ToSet
<1>4. DayTrades(t)
  BY <1>3 DEF DayTrades
<1>5. \A D : DayWorks(s, D) => DayWorks(t, D)
  BY <1>1, DaysKept
<1>6. \A D : DayAsked(s, pending, D) => DayAsked(t, next, D)
  BY <1>1, <1>3, DaysKept
<1>7. \A now : DayMade(s, now) => DayMade(t, now)
  BY <1>1, DayMadeKept
<1> QED BY <1>2, <1>4, <1>5, <1>6, <1>7 DEF DaysGoOn

-----------------------------------------------------------------------------
\* Between two slices the Day orders that work are of the dates D, none is on its
\* way, and no trade is; nothing entered the history h.
DayRests(s, D, h) == /\ ClientKnown(s) /\ DayWorks(s, D) /\ DayAsked(s, <<>>, {})
                     /\ DayTrades(s) /\ DayMade(s, Now) /\ s.om.history = h

LEMMA LastMatchDays ==
    ASSUME NEW s, Good(s, <<>>, {}), s.channel = <<>>, NEW D, NEW h, DayRests(s, D, h),
           s.book = book, s.ord = ord, feed.last \in Nat, BarsSound(feed.bars, feed.last),
           SliceOpen, NEW v \in FinalVerdicts, NEW t, t = LastMatch(s, v)
    PROVE  DayRests(t, D, h)
<1>0. /\ s \in StateType /\ s.ledger \in LedgerType /\ BookSound(s.book, s.ord)
      /\ ToSet(s.channel) = {} /\ ToSet(<<>>) = {}
  BY DEF Good, StateType, ToSet
<1>1. CASE feed.bars = {}
  <2>1. t = s
    BY <1>1 DEF LastMatch
  <2> QED BY <2>1
<1>2. CASE feed.bars # {}
  <2> DEFINE done == FinalizeTimestamp(s.book, s.ord, feed.bars, feed.last, feed.priced, v)
             u == [s EXCEPT !.book = done.book]
             R == done.reports
             n == Len(R)
             applied == FoldLeft(ApplyReport, u, R)
  <2>1. t = [applied EXCEPT !.ledger = Flush(@)]
    BY <1>2 DEF LastMatch
  <2>2. CallSound(s.book, s.ord, {feed.last}, done)
    <3>1. v \in VerdictsOf(s.book, s.ord, feed.bars, feed.priced,
                           ToFinalize(PrepareSlice(s.book, feed.last), s.ord, feed.last))
      BY DEF FinalVerdicts
    <3> HIDE DEF done
    <3>2. done = FinalizeTimestamp(s.book, s.ord, feed.bars, feed.last, feed.priced, v)
      BY DEF done
    <3> QED BY <1>0, <1>2, <3>1, <3>2, FinalizeTimestampSound
  <2> HIDE DEF done
  <2>3. /\ u \in StateType /\ u.om = s.om /\ u.ord = s.ord /\ u.channel = s.channel
        /\ u.book = done.book
    BY <1>0, <2>2 DEF CallSound, BookSound, StateType
  <2> HIDE DEF u
  <2>4. Good(u, <<>>, ToSet(R))
    <3>1. \A m \in ToSet(s.channel) : m.id \notin Active(s.book)
      BY <1>0
    <3>2. Good(u, <<>>, ToSet(done.reports))
      BY <2>2, <2>3, <3>1, CallKeeps
    <3> QED BY <3>2
  <2>5. /\ R \in Seq(ReportType) /\ \A k, l \in DOMAIN R : R[k].id = R[l].id => k = l
        /\ \A i \in Active(u.book) : i \in Active(s.book)
    BY <2>2, <2>3 DEF CallSound, Outcome
  <2> HIDE DEF R
  <2> DEFINE Rest(k) == {R[l] : l \in k + 1 .. n}
             Half(k, a) == Good(a, <<>>, Rest(k)) /\ DayRests(a, D, h)
             P == {p \in (0 .. n) \X StateType : Half(p[1], p[2])}
  <2>6. n \in Nat /\ DOMAIN R = 1 .. n
    BY <2>5
  <2> HIDE DEF n
  <2>7. <<0, u>> \in P
    <3>1. Rest(0) = ToSet(R)
      BY <2>6 DEF ToSet
    <3>2. DayRests(u, D, h)
      BY <1>0, <2>3, <2>5 DEF DayRests, DayWorks, DayAsked, DayTrades, ClientKnown, DayMade
    <3>3. Half(0, u)
      BY <2>4, <3>1, <3>2
    <3> HIDE DEF Half
    <3> QED BY <2>3, <2>6, <3>3
  <2>8. ASSUME NEW k \in 1 .. n, NEW a, <<k - 1, a>> \in P
        PROVE  <<k, ApplyReport(a, R[k])>> \in P
    <3> DEFINE b == ApplyReport(a, R[k])
    <3>1. Half(k - 1, a) /\ k - 1 \in 0 .. n
      <4> HIDE DEF Half
      <4>1. \A p \in P : Half(p[1], p[2]) /\ p[1] \in 0 .. n
        OBVIOUS
      <4>2. <<k - 1, a>>[1] = k - 1 /\ <<k - 1, a>>[2] = a
        OBVIOUS
      <4> HIDE DEF P
      <4> QED BY <4>1, <4>2, <2>8
    <3>2. R[k] \in Rest(k - 1) /\ Rest(k - 1) \ {R[k]} = Rest(k)
      <4>1. (k - 1) + 1 = k /\ k \in Nat
        BY <2>6
      <4>2. Rest(k - 1) = Rest(k) \cup {R[k]}
        <5>1. k .. n = (k + 1 .. n) \cup {k}
          BY <2>6, <4>1
        <5> QED BY <4>1, <5>1
      <4>3. R[k] \notin Rest(k)
        BY <2>5, <2>6, <4>1
      <4> HIDE DEF Rest
      <4> QED BY <4>2, <4>3
    <3> HIDE DEF Rest, b
    <3>3. Good(a, <<>>, Rest(k - 1)) /\ DayRests(a, D, h) /\ b = ApplyReport(a, R[k])
      BY <3>1 DEF b
    <3>4. Good(b, <<>>, Rest(k - 1) \ {R[k]})
      BY <3>2, <3>3, ReportKeeps
    <3>9. ClientKnown(b)
      BY <3>2, <3>3, ReportKnown DEF DayRests
    <3>5. /\ DayWorks(a, D) => DayWorks(b, D)
          /\ DayAsked(a, <<>>, {}) => DayAsked(b, <<>>, {})
          /\ DayTrades(a) => DayTrades(b)
      BY <3>2, <3>3, ReportDays DEF DayRests
    <3>6. SameDays(a, b) /\ b.om.history = a.om.history
      BY <3>2, <3>3, ReportDays DEF DayRests
    <3>8. DayRests(b, D, h)
      BY <3>3, <3>5, <3>6, <3>9, DayMadeKept DEF DayRests
    <3>7. Half(k, b) /\ b \in StateType
      BY <3>2, <3>4, <3>8 DEF Good
    <3> HIDE DEF Half
    <3> QED BY <2>6, <3>7 DEF b
  <2>9. <<n, applied>> \in P
    <3> HIDE DEF P
    <3> QED BY <2>5, <2>7, <2>8, ReportsInduction DEF n
  <2>10. Half(n, applied)
    <3> HIDE DEF Half
    <3>1. \A p \in P : Half(p[1], p[2])
      OBVIOUS
    <3>2. <<n, applied>>[1] = n /\ <<n, applied>>[2] = applied
      OBVIOUS
    <3> HIDE DEF P
    <3> QED BY <2>9, <3>1, <3>2
  <2> HIDE DEF applied, Rest
  <2>11. applied \in StateType
    BY <2>10 DEF Good
  <2>12. t.om = applied.om /\ t.ord = applied.ord /\ t.channel = applied.channel
         /\ t.book = applied.book
    BY <2>1, <2>11 DEF StateType
  <2> QED BY <2>10, <2>12 DEF DayRests, DayWorks, DayAsked, DayTrades, ClientKnown, DayMade
<1> QED BY <1>1, <1>2

\* The rejections for missing symbols.
LEMMA RejectMissingDays ==
    ASSUME NEW s, Good(s, <<>>, {}), feed.last \in Nat, NEW D, NEW h, DayRests(s, D, h),
           NEW t, t = RejectMissing(s)
    PROVE  DayRests(t, D, h)
<1> DEFINE q == MissingReports(s)
           b == OnCancel(s.book, MissingSymbol(s))
           c == s.channel \o q
<1>1. t = [s EXCEPT !.book = b, !.channel = c]
  BY DEF RejectMissing
<1>2. s \in StateType /\ s.channel \in Seq(MessageType) /\ s.book \in BookType
  BY DEF Good, StateType
<1>3. q \in Seq(ReportType) /\ \A m \in ToSet(q) : m.kind = "Report" /\ m.trade = 0
  <2>1. /\ q \in Seq(ReportType)
        /\ \A r \in ToSet(q) : r = Report(r.id, "Rejected", s.om.filled[r.id], 0, feed.last)
    BY <1>2, MissingReportsProperties
  <2>2. \A i, f : Report(i, "Rejected", f, 0, feed.last).kind = "Report"
                  /\ Report(i, "Rejected", f, 0, feed.last).trade = 0
    BY DEF Report
  <2> HIDE DEF q
  <2> QED BY <2>1, <2>2
<1>4. Active(b) = Active(s.book) \ MissingSymbol(s)
  BY <1>2, OnCancelProperties
<1> HIDE DEF q, b
<1>5. q \in Seq(MessageType)
  BY <1>3 DEF MessageType
<1>6. ToSet(c) = ToSet(s.channel) \cup ToSet(q)
  BY <1>2, <1>5, ToSetConcat
<1> HIDE DEF c
<1>7. t.om = s.om /\ t.ord = s.ord /\ t.book = b /\ t.channel = c
  BY <1>1, <1>2 DEF StateType
<1>8. ClientKnown(t) /\ DayWorks(t, D)
  BY <1>4, <1>7 DEF DayRests, ClientKnown, DayWorks
<1>9. DayAsked(t, <<>>, {}) /\ DayTrades(t)
  BY <1>3, <1>6, <1>7 DEF DayRests, DayAsked, DayTrades
<1>10. DayMade(t, Now) /\ t.om.history = h
  BY <1>7 DEF DayRests, DayMade
<1> QED BY <1>8, <1>9, <1>10 DEF DayRests

\* The settlement expires the Day orders of the date that ends, in both books.
LEMMA SettleDays ==
    ASSUME NEW s, Good(s, <<>>, {}), NEW D, NEW h, DayRests(s, D, h), NEW t, t = SettleDay(s)
    PROVE  DayRests(t, {}, t.om.history)
<1> DEFINE X == ExpiredDayOrders(s)
           b == OnCancel(s.book, X)
           o == ExpireAtSettlement(s.om, X)
<1>1. s \in StateType /\ s.book \in BookType /\ s.om \in RegistryType
  BY DEF Good, StateType
<1>2. t = [s EXCEPT !.om = o, !.book = b]
  BY DEF SettleDay
<1>3. Active(b) = Active(s.book) \ X
  BY <1>1, OnCancelProperties
<1>4. /\ \A i \in OrderIds : o.status[i] = IF i \in X THEN Absent ELSE s.om.status[i]
      /\ o.plans = s.om.plans
  <2> DEFINE z == ExpireAtSettlement(s.om, X)
  <2>1. z = ExpireAtSettlement(s.om, X)
    OBVIOUS
  <2> HIDE DEF z
  <2>2. /\ \A i \in OrderIds : z.status[i] = IF i \in X THEN Absent ELSE s.om.status[i]
        /\ z.plans = s.om.plans
    BY <1>1, <2>1, ExpireProperties
  <2> QED BY <2>1, <2>2
<1> HIDE DEF b, o
<1>5. t.om = o /\ t.book = b /\ t.ord = s.ord /\ t.channel = s.channel
  BY <1>1, <1>2 DEF StateType
<1>6. \A i \in Active(t.book) : i \in Active(s.book) /\ i \notin X /\ i \in OrderIds
  BY <1>3, <1>5 DEF Active
<1>7. ClientKnown(t)
  BY <1>4, <1>5, <1>6 DEF ClientKnown, DayRests
<1>8. DayWorks(t, {})
  <2> SUFFICES ASSUME NEW i \in Active(t.book), ForToday(t.ord[i])
               PROVE  FALSE
    BY DEF DayWorks
  <2>1. i \in Active(s.book) /\ i \notin X /\ i \in OrderIds
    BY <1>6
  <2>2. s.om.status[i] # Absent
    BY <2>1, StatusFacts DEF DayRests, ClientKnown
  <2>3. s.ord[i].tif = "Day" /\ ~AwaitsSlice(s.ord[i])
    BY <1>5 DEF ForToday, AwaitsSlice
  <2> QED BY <2>1, <2>2, <2>3 DEF ExpiredDayOrders
<1>9. DayAsked(t, <<>>, {}) /\ DayTrades(t)
  BY <1>5 DEF DayRests, DayAsked, DayTrades
<1>10. DayMade(t, Now)
  BY <1>4, <1>5 DEF DayRests, DayMade
<1> QED BY <1>7, <1>8, <1>9, <1>10 DEF DayRests

-----------------------------------------------------------------------------
\* The clock shows a timestamp of the feed, of the feed's date.
Dated == feed.last = Now /\ Now \in Times /\ feed.date = DateOf[Now]

\* Before the first bar there is no clock and no order.
FeedDay ==
    /\ feed.timers = {}
    /\ \/ /\ feed.last = 0 /\ pc \in {"Channel1", "Data", "Finish", "Done"}
          /\ \A i \in OrderIds : ord[i] \notin Order
       \/ Dated

DayNow ==
    LET s == State(drain.suppressed)
    IN  /\ FeedDay /\ ClientKnown(s) /\ DayWorks(s, {feed.date})
        /\ DayAsked(s, drain.pending, {feed.date}) /\ DayTrades(s) /\ DayMade(s, Now)

\* The state becomes t.
LEMMA DaysNext ==
    ASSUME FeedDay', NEW t, t.om = om', t.book = book', t.ord = ord', t.channel = channel',
           NEW D, D = {feed'.date}, ClientKnown(t), DayWorks(t, D),
           DayAsked(t, drain'.pending, D), DayTrades(t), DayMade(t, Now')
    PROVE  DayNow'
<1> DEFINE u == State(drain.suppressed)'
<1>1. u.om = t.om /\ u.book = t.book /\ u.ord = t.ord /\ u.channel = t.channel
  BY DEF State
<1> HIDE DEF u
<1>2. ClientKnown(u) /\ DayWorks(u, D) /\ DayAsked(u, drain'.pending, D) /\ DayTrades(u)
      /\ DayMade(u, Now')
  BY <1>1 DEF ClientKnown, DayWorks, DayAsked, DayTrades, DayMade
<1> QED BY <1>2 DEF DayNow, u

\* The present state.
LEMMA DayFacts ==
    ASSUME IInv, DayNow, NEW s, s = State(drain.suppressed)
    PROVE  /\ Good(s, drain.pending, {}) /\ s \in StateType /\ drain \in DrainType
           /\ s.om = om /\ s.book = book /\ s.ord = ord /\ s.channel = channel
           /\ FeedDay /\ ClientKnown(s) /\ DayWorks(s, {feed.date})
           /\ DayAsked(s, drain.pending, {feed.date}) /\ DayTrades(s) /\ DayMade(s, Now)
<1>1. /\ Good(s, drain.pending, {}) /\ s \in StateType /\ drain \in DrainType
      /\ s.om = om /\ s.book = book /\ s.ord = ord /\ s.channel = channel
  BY FundFacts
<1> QED BY <1>1 DEF DayNow

\* While an order exists the feed's date is that of the clock.
LEMMA DayOfOrders ==
    ASSUME FeedDay, NEW i \in OrderIds, ord[i] \in Order
    PROVE  Dated
BY DEF FeedDay

\* The days of orders go on when the feed does.
LEMMA FeedDayKept ==
    ASSUME FeedDay, Dated, feed'.timers = feed.timers, feed'.last = feed.last,
           feed'.date = feed.date, feed'.event = feed.event
    PROVE  FeedDay' /\ Now' = Now
BY DEF FeedDay, Dated, Now

-----------------------------------------------------------------------------
LEMMA ReceiveStepDays ==
    ASSUME IInv, DayNow, ChannelReceive
    PROVE  DayNow'
<1> DEFINE s == State(drain.suppressed)
           pending == drain.pending
           D == {feed.date}
           m == Head(channel)
           u == Popped(s)
           t == CASE m.kind = "Request"   -> u
                  [] m.kind = "Validated" -> WithOrder(u, m.id)
                  [] m.kind = "Report"    -> ApplyReport(u, m)
           next == IF m.kind = "Request" THEN Append(pending, m.id) ELSE pending
<1>1. /\ Draining /\ channel # <<>> /\ Becomes(t) /\ pc' = pc /\ feed' = feed
      /\ drain' = [drain EXCEPT !.suppressed = t.suppressed, !.pending = next]
  BY DEF ChannelReceive, Popped, WithOrder
<1>2. /\ Good(s, pending, {}) /\ s.channel = channel /\ s.ord = ord /\ drain \in DrainType
      /\ FeedDay /\ ClientKnown(s) /\ DayWorks(s, D) /\ DayAsked(s, pending, D) /\ DayTrades(s)
      /\ DayMade(s, Now)
  <2> DEFINE x == s
  <2>1. x = State(drain.suppressed)
    OBVIOUS
  <2> HIDE DEF x
  <2>2. /\ Good(x, pending, {}) /\ x.channel = channel /\ x.ord = ord /\ drain \in DrainType
        /\ FeedDay /\ ClientKnown(x) /\ DayWorks(x, D) /\ DayAsked(x, pending, D) /\ DayTrades(x)
        /\ DayMade(x, Now)
    BY <2>1, DayFacts
  <2> QED BY <2>2 DEF x
<1> HIDE DEF s, pending
<1>3. /\ m.kind = "Request" => t = u
      /\ m.kind = "Validated" => t = WithOrder(u, m.id)
      /\ m.kind = "Report" => t = ApplyReport(u, m)
  <2> HIDE DEF m, u
  <2>1. "Request" # "Validated" /\ "Request" # "Report" /\ "Validated" # "Report"
    OBVIOUS
  <2>2. CASE m.kind = "Request"
    BY <2>2
  <2>3. CASE m.kind = "Validated"
    BY <2>3
  <2>4. CASE m.kind = "Report"
    BY <2>4
  <2> QED BY <2>1, <2>2, <2>3, <2>4
<1> HIDE DEF t, next
<1>4. /\ t \in StateType /\ ClientKnown(t) /\ DayWorks(t, D) /\ DayAsked(t, next, D)
      /\ DayTrades(t) /\ DayMade(t, Now)
  <2>1. m = Head(s.channel) /\ u = Popped(s) /\ s.channel # <<>>
    BY <1>1, <1>2
  <2>2. next = IF m.kind = "Request" THEN Append(pending, m.id) ELSE pending
    BY DEF next
  <2> HIDE DEF m, u
  <2>3. t \in StateType
    BY <1>2, <1>3, <2>1, ReceiveKeeps
  <2> HIDE DEF D
  <2>4. DaysGoOn(s, pending, t, next)
    BY <1>2, <1>3, <2>1, <2>2, <2>3, ReceiveDays
  <2> QED BY <1>2, <2>3, <2>4 DEF DaysGoOn
<1>5. Dated
  <2>1. m \in ToSet(s.channel)
    <3>1. s.channel \in Seq(MessageType)
      BY <1>2 DEF Good, StateType
    <3> QED BY <1>1, <1>2, <3>1 DEF ToSet
  <2> HIDE DEF m
  <2>2. m.id \in OrderIds /\ s.ord[m.id] \in Order
    BY <1>2, <2>1, MessageIds DEF Good, MessageSound
  <2> QED BY <1>2, <2>2, DayOfOrders
<1> HIDE DEF m, u
<1>6. FeedDay' /\ Now' = Now
  BY <1>1, <1>2, <1>5, FeedDayKept
<1>7. drain'.pending = next
  BY <1>1, <1>2 DEF DrainType
<1>8. t.om = om' /\ t.book = book' /\ t.ord = ord' /\ t.channel = channel'
  BY <1>1 DEF Becomes
<1> QED BY <1>1, <1>4, <1>6, <1>7, <1>8, DaysNext DEF D

\* The client matches the current event.
LEMMA EventDays ==
    ASSUME IInv, DayNow, NEW v \in VerdictsOf(book, ord, {feed.event}, feed.priced, OrderIds),
           NEW done, done = OnEvent(book, ord, feed.event, Now, feed.session, feed.priced, v),
           UNCHANGED <<om, ord, feed>>, book' = done.book,
           channel' = channel \o done.reports, drain'.pending = drain.pending,
           FeedDay', Now' = Now
    PROVE  DayNow'
<1> DEFINE s == State(drain.suppressed)
           t == State(drain.suppressed)'
           D == {feed.date}
<1>1. s = State(drain.suppressed)
  OBVIOUS
<1>2. t.om = om' /\ t.book = book' /\ t.ord = ord' /\ t.channel = channel'
  BY DEF State
<1> HIDE DEF s, t
<1>3. /\ Good(s, drain.pending, {}) /\ FeedDay
      /\ s.om = om /\ s.book = book /\ s.ord = ord /\ s.channel = channel
      /\ ClientKnown(s) /\ DayWorks(s, D) /\ DayAsked(s, drain.pending, D) /\ DayTrades(s)
      /\ DayMade(s, Now)
  BY <1>1, DayFacts
<1>4. feed.event \in EventType /\ Now \in Nat /\ Now = feed.event.ts
  BY DEF IInv, FeedSound, FeedType, EventType, Now
<1>5. (\E i \in OrderIds : s.ord[i] \in Order) => DayWorks(s, {DateOf[feed.event.ts]})
  BY <1>3, <1>4, DayOfOrders DEF Dated
<1>6. /\ v \in VerdictsOf(s.book, s.ord, {feed.event}, feed.priced, OrderIds)
      /\ done = OnEvent(s.book, s.ord, feed.event, Now, feed.session, feed.priced, v)
  BY <1>3
<1>7. t.om = s.om /\ t.ord = s.ord /\ t.book = done.book /\ t.channel = s.channel \o done.reports
  BY <1>2, <1>3
<1> HIDE DEF D
<1>8. DaysGoOn(s, drain.pending, t, drain.pending)
  BY <1>3, <1>4, <1>5, <1>6, <1>7, MatchDays
<1>9. /\ ClientKnown(t) /\ DayWorks(t, D) /\ DayAsked(t, drain'.pending, D) /\ DayTrades(t)
      /\ DayMade(t, Now') /\ D = {feed'.date}
  BY <1>3, <1>8 DEF D, DaysGoOn
<1> QED BY <1>2, <1>9, DaysNext

LEMMA IntermediateDays ==
    ASSUME IInv, DayNow, channel = <<>>, drain.pending # <<>>, IntermediateMatch,
           UNCHANGED <<om, pc, feed>>
    PROVE  DayNow'
<1>1. PICK v \in VerdictsOf(book, ord, {feed.event}, feed.priced, OrderIds) :
        LET done == OnEvent(book, ord, feed.event, Now, feed.session, feed.priced, v)
        IN  /\ book' = done.book
            /\ channel' = channel \o done.reports
            /\ drain' = [drain EXCEPT !.intermediate = FALSE, !.settle = TRUE]
            /\ UNCHANGED ord
  BY DEF IntermediateMatch
<1>2. drain'.pending = drain.pending
  BY <1>1 DEF IInv, DrainType
<1>3. FeedDay' /\ Now' = Now
  BY <1>1 DEF DayNow, FeedDay, Dated, Now
<1> DEFINE done == OnEvent(book, ord, feed.event, Now, feed.session, feed.priced, v)
<1>4. /\ done = OnEvent(book, ord, feed.event, Now, feed.session, feed.priced, v)
      /\ book' = done.book /\ channel' = channel \o done.reports /\ ord' = ord
  BY <1>1
<1> HIDE DEF done
<1> QED BY <1>2, <1>3, <1>4, EventDays

LEMMA RequestsTurnDays ==
    ASSUME IInv, DayNow, channel = <<>>, drain.pending # <<>>, RequestsTurn,
           UNCHANGED <<om, pc, feed>>
    PROVE  DayNow'
<1> DEFINE s == State(drain.suppressed)
           pending == drain.pending
           D == {feed.date}
           batch == IF Mixed THEN Reduces ELSE drain.pending
           t == State(drain.suppressed)'
<1>1. PICK risk \in [ToSet(batch) -> Nat \cap UNION {RiskVerdicts(ord[i]) : i \in ToSet(batch)}] :
          /\ \A i \in ToSet(batch) : risk[i] \in RiskVerdicts(ord[i])
          /\ ProcessRequests(batch, risk)
          /\ drain' = [drain EXCEPT
                 !.pending = Waiting,
                 !.intermediate = Mixed /\ PhaseOf("PostExec", ToSet(drain.pending)),
                 !.settle = FALSE]
          /\ UNCHANGED book
  BY DEF RequestsTurn
<1>2. /\ Good(s, pending, {}) /\ FeedDay /\ drain \in DrainType
      /\ s.om = om /\ s.book = book /\ s.ord = ord /\ s.channel = channel
      /\ ClientKnown(s) /\ DayWorks(s, D) /\ DayAsked(s, pending, D) /\ DayTrades(s)
      /\ DayMade(s, Now)
  <2> DEFINE x == s
  <2>1. x = State(drain.suppressed)
    OBVIOUS
  <2> HIDE DEF x
  <2>2. /\ Good(x, pending, {}) /\ FeedDay /\ drain \in DrainType
        /\ x.om = om /\ x.book = book /\ x.ord = ord /\ x.channel = channel
        /\ ClientKnown(x) /\ DayWorks(x, D) /\ DayAsked(x, pending, D) /\ DayTrades(x)
        /\ DayMade(x, Now)
    BY <2>1, DayFacts
  <2> QED BY <2>2 DEF x
<1>3. pending \in Seq(OrderIds) /\ IsInjective(pending)
      /\ \A i \in ToSet(pending) : i \in OrderIds /\ s.ord[i] \in Order
  BY <1>2 DEF Good, InOnePlace, RequestSound, ToSet
<1> HIDE DEF s
<1>4. /\ batch \in Seq(OrderIds) /\ ToSet(batch) \cup ToSet(Waiting) = ToSet(pending)
  <2>1. batch = IF Mixed THEN Reduces ELSE drain.pending
    OBVIOUS
  <2> HIDE DEF batch
  <2> QED BY <1>3, <2>1, BatchFacts
<1> HIDE DEF batch
<1>5. \A i \in ToSet(batch) : risk[i] \in Nat
  BY <1>1
<1>6. channel' = Answers(batch, risk, Now) /\ ord' = Reduced(ord, batch, risk)
  <2>1. /\ channel' = <<>> \o Answers(batch, risk, Now)
        /\ ord' = Reduced(ord, batch, risk)
    BY <1>1 DEF ProcessRequests, Answers, Reduced
  <2>2. Answers(batch, risk, Now) \in Seq({Answers(batch, risk, Now)[k] : k \in DOMAIN batch})
    BY <1>4 DEF Answers
  <2> QED BY <2>1, <2>2
<1>7. drain'.pending = Waiting
  <2>1. \E mid \in BOOLEAN : drain' = [drain EXCEPT !.pending = Waiting, !.intermediate = mid,
                                                    !.settle = FALSE]
    BY <1>1 DEF Mixed
  <2> QED BY <1>2, <2>1 DEF DrainType
<1>8. /\ t.om = s.om /\ t.book = s.book /\ t.channel = Answers(batch, risk, Now)
      /\ t.ord = Reduced(s.ord, batch, risk)
  BY <1>1, <1>2, <1>6 DEF State
<1>9. t.om = om' /\ t.book = book' /\ t.ord = ord' /\ t.channel = channel'
  BY DEF State
<1>10. Dated
  <2>1. \E i \in ToSet(pending) : TRUE
    <3>1. pending \in Seq(OrderIds) /\ pending # <<>>
      BY <1>3
    <3>2. pending[1] \in ToSet(pending)
      <4> HIDE DEF pending
      <4> QED BY <3>1 DEF ToSet
    <3> QED BY <3>2
  <2> QED BY <1>2, <1>3, <2>1, DayOfOrders
<1> HIDE DEF t, pending, D
<1>11. DaysGoOn(s, pending, t, Waiting)
  <2>1. ToSet(batch) \subseteq ToSet(pending) /\ ToSet(Waiting) \subseteq ToSet(pending)
    BY <1>4
  <2> QED BY <1>2, <1>4, <1>5, <1>8, <2>1, AnswerDays
<1>12. FeedDay' /\ Now' = Now
  BY <1>2, <1>10, FeedDayKept
<1>13. D = {feed'.date}
  BY DEF D
<1>14. /\ ClientKnown(t) /\ DayWorks(t, D) /\ DayAsked(t, drain'.pending, D) /\ DayTrades(t)
       /\ DayMade(t, Now')
  BY <1>2, <1>7, <1>11, <1>12 DEF DaysGoOn
<1> QED BY <1>9, <1>12, <1>13, <1>14, DaysNext

LEMMA TurnDays ==
    ASSUME IInv, DayNow, ChannelTurn
    PROVE  DayNow'
<1>1. /\ channel = <<>> /\ drain.pending # <<>> /\ UNCHANGED <<pc, om, feed>>
      /\ IntermediateMatch \/ RequestsTurn
  BY DEF ChannelTurn
<1> QED BY <1>1, IntermediateDays, RequestsTurnDays

\* A stage that sends nothing and in which no order starts.
LEMMA StageDays ==
    ASSUME IInv, DayNow, UNCHANGED <<book, ord, channel, feed>>, drain.pending = <<>>,
           drain'.pending = <<>>,
           \A i \in OrderIds : /\ om.status[i] \in Live => om'.status[i] \in Live
                               /\ om'.plans[i] \subseteq om.plans[i],
           \/ Dated
           \/ pc \in {"Channel1", "Finish"} /\ pc' \in {"Data", "Done"}
    PROVE  DayNow'
<1> DEFINE s == State(drain.suppressed)
           t == State(drain.suppressed)'
           D == {feed.date}
<1>1. s = State(drain.suppressed)
  OBVIOUS
<1>2. t.om = om' /\ t.book = book' /\ t.ord = ord' /\ t.channel = channel'
  BY DEF State
<1> HIDE DEF s, t
<1>3. /\ FeedDay /\ s.om = om /\ s.book = book /\ s.ord = ord /\ s.channel = channel
      /\ ClientKnown(s) /\ DayWorks(s, D) /\ DayAsked(s, <<>>, D) /\ DayTrades(s)
      /\ DayMade(s, Now)
  BY <1>1, DayFacts
<1>4. FeedDay' /\ Now' = Now
  BY <1>3 DEF FeedDay, Dated, Now
<1>5. ClientKnown(t)
  BY <1>2, <1>3 DEF ClientKnown, Active
<1>6. /\ DayWorks(t, D) /\ DayAsked(t, drain'.pending, D) /\ DayTrades(t)
      /\ DayMade(t, Now') /\ D = {feed'.date}
  BY <1>2, <1>3, <1>4 DEF DayWorks, DayAsked, DayTrades, DayMade
<1> QED BY <1>2, <1>4, <1>5, <1>6, DaysNext

\* After a stage with a clock the feed has a date.
LEMMA DateKnown ==
    ASSUME DayNow, pc \notin {"Channel1", "Data", "Finish", "Done"}
    PROVE  Dated
BY DEF DayNow, FeedDay

LEMMA LeaveDays ==
    ASSUME IInv, DayNow, ChannelLeave
    PROVE  DayNow'
<1>1. /\ Draining /\ drain.pending = <<>> /\ drain' = IdleDrain
      /\ pc' = StageAfter(pc) /\ UNCHANGED <<om, book, ord, channel, feed>>
  BY DEF ChannelLeave
<1>2. drain'.pending = <<>>
  BY <1>1, IdleDrainTyped
<1>3. CASE pc = "Channel1"
  BY <1>1, <1>2, <1>3, StageNames, StageDays
<1>4. CASE pc # "Channel1"
  <2>1. pc \notin {"Channel1", "Data", "Finish", "Done"}
    BY <1>1, <1>4 DEF Draining
  <2> QED BY <1>1, <1>2, <2>1, DateKnown, StageDays
<1> QED BY <1>3, <1>4

LEMMA CleanupDays ==
    ASSUME IInv, DayNow, CleanupStage \/ Finish
    PROVE  DayNow'
<1>1. /\ om' = Cleanup(om) /\ UNCHANGED <<book, ord, channel, drain, feed>> /\ ~Draining
      /\ \/ pc = "Cleanup"
         \/ pc = "Finish" /\ pc' = "Done"
  BY DEF CleanupStage, Finish, Draining
<1>2. drain.pending = <<>> /\ drain'.pending = <<>>
  BY <1>1, IdleFacts
<1>3. \A i \in OrderIds : /\ om.status[i] \in Live => om'.status[i] \in Live
                          /\ om'.plans[i] \subseteq om.plans[i]
  <2>1. \A i \in OrderIds : /\ om'.status[i] = IF om.status[i] \in Finished THEN Absent
                                               ELSE om.status[i]
                            /\ om'.plans[i] \subseteq om.plans[i]
    BY <1>1, RestFacts, CleanupProperties
  <2> QED BY <2>1, StatusFacts
<1>4. CASE pc = "Cleanup"
  BY <1>1, <1>2, <1>3, <1>4, DateKnown, StageDays
<1>5. CASE pc = "Finish" /\ pc' = "Done"
  BY <1>1, <1>2, <1>3, <1>5, StageDays
<1> QED BY <1>1, <1>4, <1>5

LEMMA ExecuteDays ==
    ASSUME IInv, DayNow, Execute
    PROVE  DayNow'
<1>1. /\ pc \in {"PreExec", "PostExec"} /\ UNCHANGED <<om, ord, drain, ledger, feed>>
      /\ ~Draining
  BY DEF Execute, Draining
<1>2. drain.pending = <<>> /\ drain'.pending = <<>> /\ Dated
  BY <1>1, IdleFacts, DateKnown
<1>3. CASE UNCHANGED <<book, channel>>
  BY <1>1, <1>2, <1>3, StageDays
<1>4. CASE \E v \in VerdictsOf(book, ord, {feed.event}, feed.priced, OrderIds) :
              LET done == OnEvent(book, ord, feed.event, Now, feed.session, feed.priced, v)
              IN  book' = done.book /\ channel' = channel \o done.reports
  <2>1. PICK v \in VerdictsOf(book, ord, {feed.event}, feed.priced, OrderIds) :
              LET done == OnEvent(book, ord, feed.event, Now, feed.session, feed.priced, v)
              IN  book' = done.book /\ channel' = channel \o done.reports
    BY <1>4
  <2> DEFINE done == OnEvent(book, ord, feed.event, Now, feed.session, feed.priced, v)
  <2>2. /\ done = OnEvent(book, ord, feed.event, Now, feed.session, feed.priced, v)
        /\ book' = done.book /\ channel' = channel \o done.reports
    BY <2>1
  <2> HIDE DEF done
  <2>3. FeedDay' /\ Now' = Now
    <3>1. FeedDay
      BY DEF DayNow
    <3> QED BY <1>1, <1>2, <3>1, FeedDayKept
  <2> QED BY <1>1, <1>2, <2>2, <2>3, EventDays
<1> QED BY <1>3, <1>4 DEF Execute

LEMMA StutterDays ==
    ASSUME DayNow, UNCHANGED vars
    PROVE  DayNow'
<1>1. /\ drain' = drain /\ feed' = feed /\ State(drain.suppressed)' = State(drain.suppressed)
      /\ FeedDay' = FeedDay /\ Now' = Now
  BY DEF vars, State, FeedDay, Dated, Now
<1> QED BY <1>1 DEF DayNow

\* At the data stage nothing is on its way.
LEMMA RestDays ==
    ASSUME IInv, DayNow, pc = "Data", NEW s, s = State({})
    PROVE  /\ Good(s, <<>>, {}) /\ s.channel = <<>> /\ s.ledger.unbooked = None
           /\ s.book = book /\ s.ord = ord /\ s.om = om /\ DayRests(s, {feed.date}, om.history)
<1>1. ~Draining /\ channel = <<>>
  BY DEF IInv, StageSound, Draining
<1>2. drain.suppressed = {} /\ drain.pending = <<>> /\ ledger.unbooked = None
  BY <1>1, IdleFacts
<1>3. s = State(drain.suppressed) /\ s.ledger = ledger
  BY <1>2 DEF State
<1>4. /\ Good(s, <<>>, {}) /\ s.om = om /\ s.book = book /\ s.ord = ord /\ s.channel = <<>>
      /\ ClientKnown(s) /\ DayWorks(s, {feed.date}) /\ DayTrades(s)
      /\ DayMade(s, Now)
  BY <1>1, <1>2, <1>3, DayFacts
<1>5. DayAsked(s, <<>>, {})
  <2>1. ToSet(<<>>) = {}
    BY DEF ToSet
  <2> QED BY <1>4, <2>1 DEF DayAsked
<1> QED BY <1>2, <1>3, <1>4, <1>5 DEF DayRests

\* The end of a slice.
LEMMA FinalizeDays ==
    ASSUME IInv, DayNow, pc = "Data", NEW v \in FinalVerdicts, NEW t, t = Finalize(v)
    PROVE  DayRests(t, {feed.date}, om.history)
<1> DEFINE s == State({})
           D == {feed.date}
           h == om.history
<1>1. /\ Good(s, <<>>, {}) /\ s.channel = <<>> /\ s.ledger.unbooked = None
      /\ s.book = book /\ s.ord = ord /\ DayRests(s, D, h)
  <2>1. s = State({})
    OBVIOUS
  <2> HIDE DEF s
  <2> QED BY <2>1, RestDays
<1>2. feed.last \in Nat /\ BarsSound(feed.bars, feed.last)
  BY DEF IInv, FeedSound, FeedType
<1> HIDE DEF s, D, h
<1>3. CASE SliceOpen
  <2> DEFINE u == LastMatch(s, v)
  <2>1. t = RejectMissing(u) /\ u = LastMatch(s, v)
    BY <1>3 DEF Finalize, s
  <2> HIDE DEF u
  <2>2. Good(u, <<>>, {})
    BY <1>1, <1>2, <1>3, <2>1, LastMatchKeeps
  <2>3. DayRests(u, D, h)
    BY <1>1, <1>2, <1>3, <2>1, LastMatchDays
  <2>4. DayRests(t, D, h)
    BY <1>2, <2>1, <2>2, <2>3, RejectMissingDays
  <2> QED BY <2>4 DEF D, h
<1>4. CASE ~SliceOpen
  <2>1. t = s
    BY <1>4 DEF Finalize, s
  <2> QED BY <1>1, <2>1 DEF D, h
<1> QED BY <1>3, <1>4

\* The data stage becomes t, in which the Day orders that work are of the dates D.
LEMMA BecomesDays ==
    ASSUME IInv, pc = "Data", NEW t, NEW D, NEW h, DayRests(t, D, h), D \subseteq {feed'.date},
           Becomes(t), drain' = drain, FeedDay', Now' \in Nat,
           Now <= Now'
    PROVE  DayNow'
<1>1. drain'.pending = <<>>
  <2>1. ~Draining
    BY DEF Draining
  <2> QED BY <2>1, IdleFacts
<1>2. t.om = om' /\ t.book = book' /\ t.ord = ord' /\ t.channel = channel'
  BY DEF Becomes
<1> DEFINE E == {feed'.date}
<1>3. D \subseteq E /\ E = {feed'.date}
  OBVIOUS
<1> HIDE DEF E
<1>4. DayWorks(t, E) /\ DayAsked(t, <<>>, E)
  BY <1>3 DEF DayRests, DayWorks, DayAsked
<1>5. ClientKnown(t) /\ DayTrades(t)
  BY DEF DayRests
<1>6. DayMade(t, Now')
  <2>1. Now \in Nat /\ Now' \in Nat
    BY DEF IInv, FeedSound, FeedType, EventType, Now
  <2>2. \A i \in OrderIds : t.ord[i] \in Order => t.ord[i].created \in Nat
    BY DEF Order
  <2> QED BY <2>1, <2>2 DEF DayRests, DayMade
<1> QED BY <1>1, <1>2, <1>3, <1>4, <1>5, <1>6, DaysNext

\* A bar, before which the settlement of the date it leaves.
LEMMA DataBarDays ==
    ASSUME IInv, DayNow, NEW sym \in Symbols, NEW ts \in Times, NEW traded \in BOOLEAN,
           NEW session \in Sessions, DataBar(sym, ts, traded, session)
    PROVE  DayNow'
<1> DEFINE newSlice == feed.last # 0 /\ ts > feed.last
           f == IF newSlice
                THEN [FinalizedFeed EXCEPT !.seen = {}, !.tradable = {}, !.bars = {}]
                ELSE feed
           bar == [kind |-> "Bar", sym |-> sym, ts |-> ts, traded |-> traded]
           g == feed'
<1>1. PICK v \in IF ts > feed.last THEN FinalVerdicts ELSE {<<>>} :
        LET s == IF newSlice THEN Finalize(v) ELSE State({})
        IN  /\ Becomes(IF DateOf[ts] = feed.date THEN s ELSE SettleDay(s))
            /\ g = [f EXCEPT !.last = ts, !.date = DateOf[ts],
                             !.seen = @ \cup {sym},
                             !.tradable = IF traded THEN @ \cup {sym} ELSE @,
                             !.bars = @ \cup {bar},
                             !.event = bar, !.session = session]
  BY DEF DataBar
<1>2. pc = "Data" /\ drain' = drain /\ ts >= Now
  BY DEF DataBar
<1> DEFINE s == IF newSlice THEN Finalize(v) ELSE State({})
           t == IF DateOf[ts] = feed.date THEN s ELSE SettleDay(s)
<1>3. Good(s, <<>>, {}) /\ DayRests(s, {feed.date}, om.history)
  <2>1. CASE newSlice
    <3>1. v \in FinalVerdicts /\ s = Finalize(v)
      BY <1>1, <2>1
    <3> HIDE DEF s
    <3> QED BY <1>2, <3>1, FinalizeKeeps, FinalizeDays
  <2>2. CASE ~newSlice
    <3>1. s = State({})
      BY <2>2
    <3> HIDE DEF s
    <3> QED BY <1>2, <3>1, RestDays
  <2> QED BY <2>1, <2>2
<1>4. Becomes(t)
  BY <1>1
<1>5. g.last = ts /\ g.date = DateOf[ts] /\ g.event = bar /\ g.timers = feed.timers
  <2>1. FeedSound /\ feed \in FeedType
    BY DEF IInv, FeedSound
  <2>2. f \in FeedType /\ f.timers = feed.timers
    <3>1. CASE newSlice
      <4>1. f = [FinalizedFeed EXCEPT !.seen = {}, !.tradable = {}, !.bars = {}]
        BY <3>1
      <4>2. FinalizedFeed \in FeedType /\ FinalizedFeed.timers = feed.timers
        BY <2>1, FinalizedFeedFacts
      <4> HIDE DEF f, newSlice
      <4>3. f \in FeedType /\ f.timers = FinalizedFeed.timers
        BY <4>1, <4>2 DEF FeedType
      <4> QED BY <4>2, <4>3
    <3>2. CASE ~newSlice
      BY <2>1, <3>2
    <3> QED BY <3>1, <3>2
  <2>3. \E seen, tradable, bars :
           g = [f EXCEPT !.last = ts, !.date = DateOf[ts], !.seen = seen, !.tradable = tradable,
                         !.bars = bars, !.event = bar, !.session = session]
    <3> HIDE DEF bar, f, g
    <3> QED BY <1>1
  <2> HIDE DEF bar, f, g
  <2> QED BY <2>2, <2>3 DEF FeedType
<1>6. FeedDay' /\ Now' \in Nat /\ Now <= Now'
  <2>1. feed.timers = {} /\ ts \in Nat /\ Now \in Nat
    BY TimesAssumption DEF DayNow, FeedDay, IInv, FeedSound, FeedType, EventType, Now
  <2>2. Now' = ts /\ feed'.last = ts /\ feed'.date = DateOf[ts] /\ feed'.timers = {}
    BY <1>5, <2>1 DEF Now
  <2> QED BY <1>2, <2>1, <2>2 DEF FeedDay, Dated
<1>7. feed'.date = DateOf[ts]
  BY <1>5
<1> HIDE DEF s, f, g, bar
<1>8. CASE DateOf[ts] = feed.date
  <2>1. t = s
    BY <1>8
  <2> HIDE DEF t
  <2> QED BY <1>2, <1>3, <1>4, <1>6, <1>7, <1>8, <2>1, BecomesDays
<1>9. CASE DateOf[ts] # feed.date
  <2>1. t = SettleDay(s)
    BY <1>9
  <2> HIDE DEF t
  <2>2. DayRests(t, {}, t.om.history)
    BY <1>3, <2>1, SettleDays
  <2> QED BY <1>2, <1>4, <1>6, <2>2, BecomesDays
<1> QED BY <1>8, <1>9

\* The feed ends.
LEMMA DataEndDays ==
    ASSUME IInv, DayNow, DataEnd
    PROVE  DayNow'
<1>1. PICK v \in FinalVerdicts : Becomes(Finalize(v))
  BY DEF DataEnd
<1>2. pc = "Data" /\ pc' = "Finish" /\ drain' = drain /\ feed' = FinalizedFeed
  BY DEF DataEnd
<1> DEFINE t == Finalize(v)
           D == {feed.date}
<1>3. t = Finalize(v) /\ Becomes(t) /\ D = {feed.date}
  BY <1>1
<1> HIDE DEF t, D
<1>4. DayRests(t, D, om.history)
  BY <1>2, <1>3, FinalizeDays
<1>5. feed'.last = feed.last /\ feed'.date = feed.date /\ feed'.event = feed.event /\ feed'.timers = feed.timers
  <2>1. FeedSound /\ feed \in FeedType
    BY DEF IInv, FeedSound
  <2>2. feed'.last = feed.last /\ feed'.event = feed.event /\ feed'.timers = feed.timers
    BY <1>2, <2>1, FinalizedFeedFacts
  <2>3. feed'.date = feed.date
    <3>1. CASE SliceOpen
      <4>1. feed' = [feed EXCEPT !.finalized = feed.last, !.bars = {}]
        BY <1>2, <3>1 DEF FinalizedFeed
      <4> QED BY <2>1, <4>1 DEF FeedType
    <3>2. CASE ~SliceOpen
      BY <1>2, <3>2 DEF FinalizedFeed
    <3> QED BY <3>1, <3>2
  <2> QED BY <2>2, <2>3
<1>6. FeedDay'
  <2>1. FeedDay
    BY DEF DayNow
  <2>2. CASE Dated
    BY <1>5, <2>1, <2>2, FeedDayKept
  <2>3. CASE ~Dated
    <3>1. feed.last = 0 /\ \A i \in OrderIds : ord[i] \notin Order
      BY <2>1, <2>3 DEF FeedDay
    <3>2. ord' = ord /\ feed' = feed
      <4>1. ~SliceOpen
        BY <3>1 DEF SliceOpen
      <4>2. t = State({}) /\ feed' = feed
        BY <1>2, <1>3, <4>1 DEF Finalize, FinalizedFeed
      <4> QED BY <1>3, <4>2 DEF Becomes, State
    <3> QED BY <1>2, <2>1, <3>1, <3>2 DEF FeedDay
  <2> QED BY <2>2, <2>3
<1>7. Now' = Now /\ Now \in Nat
  BY <1>5 DEF IInv, FeedSound, FeedType, EventType, Now
<1> QED BY <1>2, <1>3, <1>4, <1>5, <1>6, <1>7, BecomesDays

\* The orders of a callback are of the date of the feed.
LEMMA StrategyDays ==
    ASSUME NoDayBrackets, IInv, DayNow, Strategy
    PROVE  DayNow'
<1>1. /\ pc = "Strategy" /\ ~Draining /\ drain' = drain /\ channel = <<>>
      /\ feed' = [feed EXCEPT !.priced = IF feed.event.kind = "Bar"
                                         THEN @ \cup {feed.event.sym} ELSE @]
  BY DEF Strategy, Draining, IInv, StageSound
<1>2. PICK m \in Moves, S \in SUBSET {i \in OrderIds : om.status[i] \in Live} :
         Room(m) /\ Callback(m, S)
  BY DEF Strategy
<1> DEFINE s == State(drain.suppressed)
           t == State(drain.suppressed)'
           n == Cardinality(Used(ord))
           D == {feed.date}
           bound == LinkOrders(m, n)
           b == OnCancel(book, S)
<1>3. /\ s.book = book /\ s.om = om /\ s.ord = ord /\ Good(s, drain.pending, {})
      /\ ClientKnown(s) /\ DayWorks(s, D) /\ DayMade(s, Now)
  <2> DEFINE x == s
  <2>1. x = State(drain.suppressed)
    OBVIOUS
  <2> HIDE DEF x
  <2>2. /\ x.book = book /\ x.om = om /\ x.ord = ord /\ Good(x, drain.pending, {})
        /\ ClientKnown(x) /\ DayWorks(x, D) /\ DayMade(x, Now)
    BY <2>1, DayFacts
  <2> QED BY <2>2 DEF x
<1>4. t.om = om' /\ t.book = book' /\ t.ord = ord' /\ t.channel = channel'
  BY DEF State
<1> HIDE DEF s, t
<1>5. ord' = WithNew(m, n) /\ om' = CancelEach(bound, S) /\ book' = b
  BY <1>2 DEF Callback, WithNew
<1>6. /\ n \in Nat /\ n + Len(m.orders) <= Cardinality(OrderIds)
      /\ Used(ord) = 1 .. n /\ ord \in [OrderIds -> Order \cup {NoOrder}]
  <2>1. n = Cardinality(Used(ord)) /\ Room(m)
    BY <1>2
  <2> HIDE DEF n
  <2> QED BY <2>1, RoomLeft
<1>7. \A d \in ToSet(channel') :
              /\ d.kind = "Report" => d.trade = 0
              /\ d.kind # "Report" => \E k \in DOMAIN m.orders : d.id = n + k
  BY <1>1, <1>2, CallbackSends
<1> HIDE DEF n
<1>8. Now \in Nat /\ m.orders \in Seq(Order) /\ om \in RegistryType
  BY MovesAssumption, RestFacts DEF IInv, FeedSound, FeedType, EventType, Now
<1>9. \A i \in OrderIds : IF i \in n + 1 .. n + Len(m.orders)
                          THEN ord'[i] \in Order /\ ord'[i].created = Now
                          ELSE ord'[i] = ord[i]
  <2> DEFINE new == WithNew(m, n)
  <2>1. new = WithNew(m, n)
    OBVIOUS
  <2> HIDE DEF new
  <2>2. \A i \in OrderIds : IF i \in n + 1 .. n + Len(m.orders)
                            THEN new[i] \in Order /\ new[i].created = Now
                            ELSE new[i] = ord[i]
    BY <1>6, <1>8, <2>1, CallbackOrders
  <2> QED BY <1>5, <2>1, <2>2
<1>10. \A i \in OrderIds : om'.status[i] = IF i \in S /\ om.status[i] \in Live THEN "Cancelled"
                                           ELSE om.status[i]
  <2>1. bound = LinkOrders(m, n)
    OBVIOUS
  <2> HIDE DEF bound
  <2>2. bound \in RegistryType /\ bound.status = om.status
    BY <1>6, <1>8, <2>1, LinkOrdersProperties
  <2> DEFINE r == CancelEach(bound, S)
  <2>3. r = CancelEach(bound, S)
    OBVIOUS
  <2> HIDE DEF r
  <2>4. r.status = [j \in OrderIds |-> IF j \in S /\ bound.status[j] \in Live
                                       THEN "Cancelled" ELSE bound.status[j]]
    BY <2>2, <2>3, CancelEachLoosens
  <2> QED BY <1>5, <2>2, <2>3, <2>4
<1>22. om'.plans = bound.plans
  <2>1. bound = LinkOrders(m, n)
    OBVIOUS
  <2> HIDE DEF bound
  <2>2. bound \in RegistryType
    BY <1>6, <1>8, <2>1, LinkOrdersProperties
  <2>3. CancelEach(bound, S).plans = bound.plans
    BY <2>2, CancelKeepsPlans
  <2> QED BY <1>5, <2>3
<1> HIDE DEF bound
<1>11. Active(book') = Active(book) \ S
  <2>1. book \in BookType
    BY <1>3 DEF Good, StateType
  <2> QED BY <1>5, <2>1, OnCancelProperties
<1> HIDE DEF b
<1>12. \A i \in Active(book) : i \in OrderIds /\ ord'[i] = ord[i]
  <2> SUFFICES ASSUME NEW i \in Active(book)
               PROVE  i \in OrderIds /\ ord'[i] = ord[i]
    OBVIOUS
  <2>1. i \in OrderIds /\ ord[i] \in Order
    BY <1>3 DEF Good, BookSound, Active
  <2>2. i \in 1 .. n
    BY <1>6, <2>1, NoOrderAssumption DEF Used
  <2>3. i \notin n + 1 .. n + Len(m.orders)
    <3>1. Len(m.orders) \in Nat
      BY <1>8
    <3> QED BY <1>6, <2>2, <3>1
  <2> QED BY <1>9, <2>1, <2>3
<1>13. Dated
  BY <1>1, DateKnown
<1>14. /\ feed'.last = feed.last /\ feed'.date = feed.date /\ feed'.event = feed.event
       /\ feed'.timers = feed.timers
  <2> DEFINE p == IF feed.event.kind = "Bar" THEN feed.priced \cup {feed.event.sym} ELSE feed.priced
  <2>1. feed' = [feed EXCEPT !.priced = p] /\ feed \in FeedType
    BY <1>1 DEF IInv, FeedSound
  <2> HIDE DEF p
  <2> QED BY <2>1 DEF FeedType
<1>15. FeedDay' /\ Now' = Now
  BY <1>13, <1>14, FeedDayKept DEF DayNow
<1>16. ClientKnown(t)
  BY <1>3, <1>4, <1>10, <1>11 DEF ClientKnown, Active
<1>17. DayWorks(t, D)
  BY <1>3, <1>4, <1>11, <1>12 DEF DayWorks
<1>18. DayTrades(t)
  BY <1>4, <1>7 DEF DayTrades
<1>19. DayAsked(t, drain'.pending, D)
  <2>1. drain'.pending = <<>> /\ ToSet(<<>>) = {}
    BY <1>1, IdleFacts DEF ToSet
  <2>2. ASSUME NEW d \in ToSet(channel'), d.kind # "Report", ForToday(ord'[d.id])
        PROVE  DateOf[ord'[d.id].created] \in D
    <3>1. PICK k \in DOMAIN m.orders : d.id = n + k
      BY <1>7, <2>2
    <3>2. k \in 1 .. Len(m.orders) /\ Len(m.orders) \in Nat
      BY <1>8
    <3>3. d.id \in n + 1 .. n + Len(m.orders) /\ d.id \in OrderIds
      <4> DEFINE j == d.id
                 l == Len(m.orders)
                 N == Cardinality(OrderIds)
      <4>1. j = n + k /\ n \in Nat /\ k \in 1 .. l /\ l \in Nat /\ n + l <= N
        BY <1>6, <3>1, <3>2
      <4>2. OrderIds = 1 .. N /\ N \in Nat
        BY OrderIdsAssumption, FS_CardinalityType
      <4> HIDE DEF j, l, N
      <4>3. j \in n + 1 .. n + l /\ j \in 1 .. N
        BY <4>1, <4>2
      <4> QED BY <4>2, <4>3 DEF j, l
    <3> QED BY <1>9, <1>13, <3>3 DEF Dated
  <2> QED BY <1>4, <2>1, <2>2 DEF DayAsked
<1>20. D = {feed'.date}
  BY <1>14
<1>21. \A i \in OrderIds : ord'[i] \in Order /\ ord'[i].tif = "Day" => ord'[i].created <= Now'
  BY <1>3, <1>8, <1>9, <1>15 DEF DayMade
<1>23. ASSUME NEW i \in OrderIds, om'.plans[i] # {}
       PROVE  ord'[i] \in Order /\ ord'[i].tif # "Day"
  <2>1. CASE i = n + 1 /\ m.exits # {}
    <3>1. i \in n + 1 .. n + Len(m.orders) /\ i - n = 1 /\ Len(m.orders) = 1
      <4>1. Len(m.orders) = 1 /\ i = n + 1
        BY <2>1, MovesAssumption
      <4>2. n + 1 \in n + 1 .. n + 1 /\ (n + 1) - n = 1
        BY <1>6
      <4> QED BY <4>1, <4>2
    <3> DEFINE x == m.orders[1]
               tw == IF m.oco THEN 2 * n + 3 - i ELSE 0
    <3>2. x \in Order /\ x.tif # "Day"
      BY <1>8, <2>1, <3>1 DEF NoDayBrackets
    <3>3. ord'[i] = [x EXCEPT !.created = Now, !.parent = 0, !.twin = tw]
      BY <1>5, <3>1 DEF WithNew
    <3>4. ord'[i] \in Order
      BY <1>9, <3>1
    <3> HIDE DEF x, tw
    <3>5. ord'[i].tif = x.tif
      BY <3>2, <3>3 DEF Order
    <3> QED BY <3>2, <3>4, <3>5
  <2>2. CASE i # n + 1 \/ m.exits = {}
    <3>1. bound.plans[i] = om.plans[i]
      BY <1>8, <2>2, PlansHandedOver DEF bound
    <3>2. ord[i] \in Order /\ ord[i].tif # "Day"
      BY <1>3, <1>22, <1>23, <3>1 DEF DayMade
    <3>3. i \in 1 .. n
      BY <1>6, <3>2, NoOrderAssumption DEF Used
    <3>4. i \notin n + 1 .. n + Len(m.orders)
      <4>1. Len(m.orders) \in Nat
        BY <1>8
      <4> QED BY <1>6, <3>3, <4>1
    <3>5. ord'[i] = ord[i]
      BY <1>9, <3>4
    <3> QED BY <3>2, <3>5
  <2> QED BY <2>1, <2>2
<1>24. DayMade(t, Now')
  BY <1>4, <1>21, <1>23 DEF DayMade
<1> HIDE DEF D
<1> QED BY <1>4, <1>15, <1>16, <1>17, <1>18, <1>19, <1>20, <1>24, DaysNext

\* Without timers and brackets of Day orders.
LEMMA StepDays ==
    ASSUME NoDayBrackets, IInv, DayNow, [Next]_vars
    PROVE  DayNow'
<1>1. CASE ChannelReceive
  BY <1>1, ReceiveStepDays
<1>2. CASE ChannelTurn
  BY <1>2, TurnDays
<1>3. CASE ChannelLeave
  BY <1>3, LeaveDays
<1>4. CASE \E sym \in Symbols, ts \in Times, traded \in BOOLEAN, session \in Sessions :
              DataBar(sym, ts, traded, session)
  BY <1>4, DataBarDays
<1>5. ~(\E session \in Sessions : DataTimer(session))
  BY DEF DataTimer, DayNow, FeedDay
<1>6. CASE DataEnd
  BY <1>6, DataEndDays
<1>7. CASE Execute
  BY <1>7, ExecuteDays
<1>8. CASE Strategy
  BY <1>8, StrategyDays
<1>9. CASE CleanupStage \/ Finish
  BY <1>9, CleanupDays
<1>10. CASE UNCHANGED vars \/ Returned
  BY <1>10, StutterDays DEF Returned
<1> QED BY <1>1, <1>2, <1>3, <1>4, <1>5, <1>6, <1>7, <1>8, <1>9, <1>10 DEF Next

LEMMA InitDays == ASSUME Timers = {}, Init PROVE DayNow
<1> DEFINE s == State(drain.suppressed)
<1>1. /\ s.book = EmptyBook /\ s.om = EmptyRegistry /\ s.channel = <<>>
      /\ drain.pending = <<>> /\ s.ord = ord /\ ord = [i \in OrderIds |-> NoOrder]
      /\ pc = "Channel1" /\ feed.last = 0 /\ feed.timers = {}
  BY StageFacts DEF Init, State, IdleDrain, Stages
<1> HIDE DEF s
<1>2. Active(s.book) = {}
  BY <1>1, StatusFacts DEF Active, EmptyBook
<1>3. ToSet(<<>>) = {}
  BY DEF ToSet
<1>4. FeedDay
  BY <1>1, NoOrderAssumption DEF FeedDay
<1>5. \A i \in OrderIds : s.om.plans[i] = {}
  BY <1>1 DEF EmptyRegistry
<1>6. DayMade(s, Now)
  BY <1>1, <1>5, NoOrderAssumption DEF DayMade
<1> QED BY <1>1, <1>2, <1>3, <1>4, <1>6 DEF DayNow, ClientKnown, DayWorks, DayAsked, DayTrades, s

\* DayTradesInItsDay: a same-cycle Day order trades only on its trading date, if the
\* strategy schedules no timer and places no bracket of Day orders. A timer moves the
\* clock, and with it the creation of orders, but not the date that the settlement
\* compares; and the exits of a Day entry that the last match of a date fills are in the
\* channel, out of the settlement's reach, when the date ends.
THEOREM DayTradesInItsDayCorrect ==
    ASSUME NoTimers, NoDayBrackets PROVE Spec => []DayTradesInItsDay
<1>1. Init => IInv /\ DayNow
  BY InitSound, InitDays DEF NoTimers
<1>2. IInv /\ DayNow /\ [Next]_vars => (IInv /\ DayNow)'
  BY StepSound, StepDays
<1>3. IInv /\ DayNow => DayTradesInItsDay
  <2> SUFFICES ASSUME IInv, DayNow, NEW k \in DOMAIN channel, channel[k].kind = "Report",
                      channel[k].trade > 0, ord[channel[k].id].tif = "Day",
                      ord[channel[k].id].offset = 0
               PROVE  DateOf[channel[k].at] = DateOf[ord[channel[k].id].created]
    BY DEF DayTradesInItsDay
  <2> DEFINE s == State(drain.suppressed)
  <2>1. s = State(drain.suppressed)
    OBVIOUS
  <2> HIDE DEF s
  <2>2. Good(s, drain.pending, {}) /\ s.ord = ord /\ s.channel = channel /\ DayTrades(s)
    BY <2>1, DayFacts
  <2> DEFINE m == channel[k]
  <2>3. m \in ToSet(s.channel)
    BY <2>2 DEF ToSet
  <2>4. s.ord[m.id] \in Order
    <3> HIDE DEF m
    <3> QED BY <2>2, <2>3 DEF Good, MessageSound
  <2> QED BY <2>2, <2>3, <2>4 DEF DayTrades, ForToday
<1> QED BY <1>1, <1>2, <1>3, PTL DEF Spec

-----------------------------------------------------------------------------
\* The settlement leaves the history of an order that awaits its slice.
LEMMA SettleHistory ==
    ASSUME NEW s, s.om \in RegistryType, NEW t, t = SettleDay(s), NEW i \in OrderIds,
           t.om.history[i] # s.om.history[i]
    PROVE  s.ord[i].tif = "Day" /\ ~AwaitsSlice(s.ord[i])
<1> DEFINE X == ExpiredDayOrders(s)
           o == ExpireAtSettlement(s.om, X)
<1>1. t.om = o \/ t.om.history = s.om.history
  <2>1. t = [s EXCEPT !.om = o, !.book = OnCancel(s.book, X)]
    BY DEF SettleDay
  <2> HIDE DEF o, X
  <2> QED BY <2>1
<1>2. o.history[i] = s.om.history[i] \/ i \in X
  <2>1. o = ExpireAtSettlement(s.om, X)
    OBVIOUS
  <2> HIDE DEF o
  <2>2. \A j \in OrderIds :
          o.history[j] = IF j \in X
                         THEN Append(s.om.history[j], [status |-> "Expired", filled |-> s.om.filled[j]])
                         ELSE s.om.history[j]
    <3> HIDE DEF X
    <3> QED BY <2>1, ExpireProperties
  <2> HIDE DEF X
  <2> QED BY <2>2
<1> QED BY <1>1, <1>2 DEF ExpiredDayOrders

\* At the data stage only a bar of another date adds to a history.
LEMMA DataHistory ==
    ASSUME IInv, DayNow, [Next]_vars, pc = "Data", NEW i \in Used(ord), ord[i].offset = 1,
           Len(om'.history[i]) > Len(om.history[i])
    PROVE  feed.last > ord[i].created
<1>1. i \in OrderIds /\ ord[i] \in Order
  <2> DEFINE z == State(drain.suppressed)
  <2>1. z.ord = ord /\ z \in StateType
    <3>1. z = State(drain.suppressed)
      OBVIOUS
    <3> HIDE DEF z
    <3> QED BY <3>1, FundFacts
  <2> HIDE DEF z
  <2> QED BY <2>1 DEF StateType, Used
<1>0. om.history[i] \in Seq(Row) /\ Len(om.history[i]) \in Nat
  BY <1>1, RestFacts DEF RegistryType
<1>2. CASE \E sym \in Symbols, ts \in Times, traded \in BOOLEAN, session \in Sessions :
              DataBar(sym, ts, traded, session)
  <2>0. PICK sym \in Symbols, ts \in Times, traded \in BOOLEAN, session \in Sessions :
          DataBar(sym, ts, traded, session)
    BY <1>2
  <2>1. PICK v \in IF ts > feed.last THEN FinalVerdicts ELSE {<<>>} :
          LET newSlice == feed.last # 0 /\ ts > feed.last
              s == IF newSlice THEN Finalize(v) ELSE State({})
          IN  Becomes(IF DateOf[ts] = feed.date THEN s ELSE SettleDay(s))
    BY <2>0 DEF DataBar
  <2> DEFINE newSlice == feed.last # 0 /\ ts > feed.last
             s == IF newSlice THEN Finalize(v) ELSE State({})
             t == IF DateOf[ts] = feed.date THEN s ELSE SettleDay(s)
  <2>2. /\ DayRests(s, {feed.date}, om.history) /\ s.ord[i] = ord[i]
        /\ Good(s, <<>>, {})
    <3>1. CASE newSlice
      <4>1. v \in FinalVerdicts /\ s = Finalize(v)
        BY <2>1, <3>1
      <4> HIDE DEF s
      <4> QED BY <1>1, <4>1, FinalizeKeeps, FinalizeDays
    <3>2. CASE ~newSlice
      <4>1. s = State({})
        BY <3>2
      <4> HIDE DEF s
      <4> QED BY <1>1, <4>1, RestDays
    <3> QED BY <3>1, <3>2
  <2>3. t.om = om'
    <3>1. Becomes(t)
      BY <2>1
    <3> HIDE DEF t
    <3> QED BY <3>1 DEF Becomes
  <2>4. s.om.history = om.history /\ s.om \in RegistryType
    BY <2>2 DEF DayRests, Good, StateType
  <2> HIDE DEF s
  <2>5. om'.history[i] # s.om.history[i]
    <3>1. om'.history[i] # om.history[i]
      BY <1>0
    <3> QED BY <2>4, <3>1
  <2>6. t = SettleDay(s)
    BY <2>3, <2>5
  <2>7. ord[i].tif = "Day" /\ ~AwaitsSlice(ord[i])
    <3> HIDE DEF t
    <3> QED BY <1>1, <2>2, <2>3, <2>4, <2>5, <2>6, SettleHistory
  <2>8. Dated /\ ord[i].created <= Now
    <3>1. FeedDay
      BY DEF DayNow
    <3>2. DayMade(s, Now)
      BY <2>2 DEF DayRests
    <3> QED BY <1>1, <2>2, <2>7, <3>1, <3>2, DayOfOrders DEF DayMade
  <2>9. DateOf[ord[i].created] # feed.date
    BY <2>7, <2>8, DateOfAssumption DEF AwaitsSlice, Dated
  <2>10. ord[i].created \in Nat /\ feed.last \in Nat
    BY <1>1, <2>8, TimesAssumption DEF Order, Dated
  <2> QED BY <2>8, <2>9, <2>10 DEF Dated
<1>3. CASE DataEnd
  <2>1. PICK v \in FinalVerdicts : Becomes(Finalize(v))
    BY <1>3 DEF DataEnd
  <2> DEFINE t == Finalize(v)
  <2>2. t = Finalize(v) /\ Becomes(t)
    BY <2>1
  <2> HIDE DEF t
  <2>3. DayRests(t, {feed.date}, om.history)
    BY <2>2, FinalizeDays
  <2>4. om'.history = om.history
    BY <2>2, <2>3 DEF DayRests, Becomes
  <2> QED BY <1>0, <2>4
<1>4. CASE UNCHANGED vars
  BY <1>0, <1>4 DEF vars
<1>5. ~(\E session \in Sessions : DataTimer(session))
  BY DEF DataTimer, DayNow, FeedDay
<1>6. ~ChannelReceive /\ ~ChannelTurn /\ ~ChannelLeave
  BY DEF ChannelReceive, ChannelTurn, ChannelLeave, Draining
<1>7. ~Execute /\ ~Strategy /\ ~CleanupStage /\ ~Finish /\ ~Returned
  BY DEF Execute, Strategy, CleanupStage, Finish, Returned
<1> QED BY <1>2, <1>3, <1>4, <1>5, <1>6, <1>7 DEF Next

\* DayGetsItsSlice: the settlement expires a next-bar Day order only after a slice in
\* which it could trade, if the strategy schedules no timer and places no bracket of Day
\* orders.
THEOREM DayGetsItsSliceCorrect ==
    ASSUME NoTimers, NoDayBrackets PROVE Spec => DayGetsItsSlice
<1>1. Init => IInv /\ DayNow
  BY InitSound, InitDays DEF NoTimers
<1>2. IInv /\ DayNow /\ [Next]_vars => (IInv /\ DayNow)'
  BY StepSound, StepDays
<1>3. ASSUME IInv, DayNow, [Next]_vars
      PROVE  [\A i \in Used(ord) :
                /\ pc = "Data" /\ ord[i].offset = 1
                /\ Len(om'.history[i]) > Len(om.history[i])
                => feed.last > ord[i].created]_vars
  BY <1>3, DataHistory
<1> QED BY <1>1, <1>2, <1>3, PTL DEF Spec, DayGetsItsSlice

-----------------------------------------------------------------------------
(***************************************************************************)
(* Orders due in a slice.                                                  *)
(***************************************************************************)

\* In t the orders of s have their terms, and the client its marks.
SameTerms(s, t) ==
    \A i \in OrderIds : s.ord[i] \in Order =>
        /\ t.ord[i] \in Order /\ t.ord[i].sym = s.ord[i].sym /\ t.ord[i].offset = s.ord[i].offset
        /\ t.ord[i].cond = s.ord[i].cond /\ t.ord[i].created = s.ord[i].created
SameMarks(b, c) == c.slice = b.slice /\ c.attempted = b.attempted /\ c.deferred = b.deferred

\* The order worked before, and keeps a fill that it had.
StillWorks(b, c, i) == i \in Active(b) /\ (b.filled[i] > 0 => c.filled[i] > 0)

\* A new order of t, which has a price to meet or was created at now or later.
NewOrder(s, t, i, now) == /\ s.ord[i] \notin Order /\ t.ord[i] \in Order
                          /\ t.ord[i].cond \/ t.ord[i].created >= now

\* From s to t no order is matched; one starts to work only if it was asked for, and
\* one is asked for only if it is new.
Calm(s, pending, t, next, now) ==
    /\ ClientKnown(t) /\ SameTerms(s, t) /\ SameMarks(s.book, t.book)
    /\ \A i \in Active(t.book) : Asked(s, pending, i) \/ StillWorks(s.book, t.book, i)
    /\ \A i \in OrderIds : Asked(t, next, i) => Asked(s, pending, i) \/ NewOrder(s, t, i, now)

\* The same when no order starts to work.
Idle(s, pending, t, next, now) ==
    /\ Calm(s, pending, t, next, now)
    /\ \A i \in Active(t.book) : StillWorks(s.book, t.book, i)

LEMMA IdleOn ==
    ASSUME NEW s, NEW p, NEW t, NEW q, NEW u, NEW r, NEW now,
           Idle(s, p, t, q, now), Idle(t, q, u, r, now)
    PROVE  Idle(s, p, u, r, now)
<1>1. ClientKnown(u) /\ SameTerms(s, u) /\ SameMarks(s.book, u.book)
  <2>1. SameTerms(s, t) /\ SameTerms(t, u) /\ SameMarks(s.book, t.book) /\ SameMarks(t.book, u.book)
    BY DEF Idle, Calm
  <2>2. SameTerms(s, u)
    BY <2>1 DEF SameTerms
  <2>3. SameMarks(s.book, u.book)
    BY <2>1 DEF SameMarks
  <2> QED BY <2>2, <2>3 DEF Idle, Calm
<1>2. \A i \in Active(u.book) : StillWorks(s.book, u.book, i)
  BY DEF Idle, StillWorks
<1>3. \A i \in OrderIds : Asked(u, r, i) => Asked(s, p, i) \/ NewOrder(s, u, i, now)
  <2> SUFFICES ASSUME NEW i \in OrderIds, Asked(u, r, i), ~Asked(s, p, i)
               PROVE  NewOrder(s, u, i, now)
    OBVIOUS
  <2>1. SameTerms(s, t) /\ SameTerms(t, u)
    BY DEF Idle, Calm
  <2>2. CASE Asked(t, q, i)
    <3>1. NewOrder(s, t, i, now)
      BY <2>2 DEF Idle, Calm
    <3> QED BY <2>1, <3>1 DEF NewOrder, SameTerms
  <2>3. CASE ~Asked(t, q, i)
    <3>1. NewOrder(t, u, i, now)
      BY <2>3 DEF Idle, Calm
    <3> QED BY <2>1, <3>1 DEF NewOrder, SameTerms
  <2> QED BY <2>2, <2>3
<1> QED BY <1>1, <1>2, <1>3 DEF Idle, Calm

-----------------------------------------------------------------------------
\* The slice of the feed f is open.
Open(f) == f.last # 0 /\ f.finalized # f.last

Marked(b) == b.deferred \cup b.attempted

\* Marks are those of the open slice, on orders of symbols it showed that are not on
\* their way to the client.
MarksSound(s, pending, f) ==
    \A i \in Marked(s.book) :
        /\ i \in OrderIds /\ Open(f) /\ s.book.slice = f.last
        /\ s.ord[i] \in Order /\ s.ord[i].sym \in f.seen /\ ~Asked(s, pending, i)

\* What is on its way to the client was created in the slice, or has a price to meet.
LateAsked(s, pending, last) ==
    \A i \in OrderIds : Asked(s, pending, i) => s.ord[i].cond \/ s.ord[i].created >= last

\* The order works, has no price to meet, and did not trade though its symbol does.
Untouched(s, f, i) == /\ i \in Active(s.book) /\ ~s.ord[i].cond
                      /\ s.ord[i].sym \in f.tradable /\ ~(s.book.filled[i] > 0)

\* The order will be matched in the slice: at its end, or by the stage p.
Cared(s, f, p, i) ==
    /\ s.ord[i].offset = 0 /\ s.ord[i].created = f.last =>
          i \in s.book.deferred \/ i \notin s.book.attempted
    /\ s.ord[i].offset = 1 /\ s.ord[i].created < f.last =>
          i \in s.book.deferred \/ (p = "PreExec" /\ s.ord[i].sym = f.event.sym)

Attended(s, f, p) == Open(f) => \A i \in OrderIds : Untouched(s, f, i) => Cared(s, f, p, i)

Attending(s, pending, f, p) == /\ ClientKnown(s) /\ MarksSound(s, pending, f)
                               /\ LateAsked(s, pending, f.last) /\ Attended(s, f, p)

\* What is asked for exists and does not work yet.
LEMMA AskedFacts ==
    ASSUME NEW s, NEW pending, NEW reports, Good(s, pending, reports), NEW i \in OrderIds
    PROVE  /\ Asked(s, pending, i) => s.ord[i] \in Order /\ i \notin Active(s.book)
           /\ i \in Active(s.book) => s.ord[i] \in Order
<1>1. Asked(s, pending, i) => s.ord[i] \in Order /\ i \notin Active(s.book)
  BY MessageFacts
<1>2. i \in Active(s.book) => s.ord[i] \in Order
  BY DEF Good, BookSound
<1> QED BY <1>1, <1>2

\* Orders are attended while nothing is matched.
LEMMA CalmAttends ==
    ASSUME NEW s, NEW pending, NEW reports, Good(s, pending, reports), NEW f, NEW p,
           Attending(s, pending, f, p), NEW t, NEW next, NEW now \in Nat, f.last \in Nat,
           f.last <= now, Calm(s, pending, t, next, now), \A i \in OrderIds : t.ord[i] \in Order => t.ord[i].created \in Nat
    PROVE  Attending(t, next, f, p)
<1>1. SameTerms(s, t) /\ SameMarks(s.book, t.book) /\ ClientKnown(t)
  BY DEF Calm
<1>2. \A i \in OrderIds : Asked(t, next, i) => Asked(s, pending, i) \/ NewOrder(s, t, i, now)
  BY DEF Calm
<1>3. MarksSound(t, next, f)
  <2> SUFFICES ASSUME NEW i \in Marked(t.book)
               PROVE  /\ i \in OrderIds /\ Open(f) /\ t.book.slice = f.last
                      /\ t.ord[i] \in Order /\ t.ord[i].sym \in f.seen /\ ~Asked(t, next, i)
    BY DEF MarksSound
  <2>1. i \in Marked(s.book) /\ t.book.slice = s.book.slice
    BY <1>1 DEF SameMarks, Marked
  <2>2. /\ i \in OrderIds /\ Open(f) /\ s.book.slice = f.last
        /\ s.ord[i] \in Order /\ s.ord[i].sym \in f.seen /\ ~Asked(s, pending, i)
    BY <2>1 DEF Attending, MarksSound
  <2>3. t.ord[i] \in Order /\ t.ord[i].sym = s.ord[i].sym
    BY <1>1, <2>2 DEF SameTerms
  <2>4. ~Asked(t, next, i)
    BY <1>2, <2>2 DEF NewOrder
  <2> QED BY <2>1, <2>2, <2>3, <2>4
<1>4. LateAsked(t, next, f.last)
  <2> SUFFICES ASSUME NEW i \in OrderIds, Asked(t, next, i)
               PROVE  t.ord[i].cond \/ t.ord[i].created >= f.last
    BY DEF LateAsked
  <2>1. CASE Asked(s, pending, i)
    <3>1. s.ord[i] \in Order /\ (s.ord[i].cond \/ s.ord[i].created >= f.last)
      BY <2>1, AskedFacts DEF Attending, LateAsked
    <3> QED BY <1>1, <3>1 DEF SameTerms
  <2>2. CASE NewOrder(s, t, i, now)
    BY <2>2 DEF NewOrder
  <2> QED BY <1>2, <2>1, <2>2
<1>5. Attended(t, f, p)
  <2> SUFFICES ASSUME Open(f), NEW i \in OrderIds, Untouched(t, f, i)
               PROVE  Cared(t, f, p, i)
    BY DEF Attended
  <2>1. /\ t.book.deferred = s.book.deferred /\ t.book.attempted = s.book.attempted
    BY <1>1 DEF SameMarks
  <2>2. i \in Active(t.book) /\ ~(t.book.filled[i] > 0)
    BY DEF Untouched
  <2>3. CASE Asked(s, pending, i)
    <3>1. s.ord[i] \in Order /\ (s.ord[i].cond \/ s.ord[i].created >= f.last) /\ i \notin Marked(s.book)
      BY <2>3, AskedFacts DEF Attending, LateAsked, MarksSound
    <3>2. /\ t.ord[i] \in Order /\ t.ord[i].cond = s.ord[i].cond /\ t.ord[i].created = s.ord[i].created
      BY <1>1, <3>1 DEF SameTerms
    <3>3. i \notin t.book.attempted
      BY <2>1, <3>1 DEF Marked
    <3>4. t.ord[i].created >= f.last /\ t.ord[i].created \in Nat
      BY <3>1, <3>2 DEF Untouched
    <3> QED BY <3>3, <3>4 DEF Cared
  <2>4. CASE StillWorks(s.book, t.book, i)
    <3>1. i \in Active(s.book) /\ ~(s.book.filled[i] > 0) /\ s.ord[i] \in Order
      BY <2>2, <2>4, AskedFacts DEF StillWorks
    <3>2. /\ t.ord[i].sym = s.ord[i].sym /\ t.ord[i].offset = s.ord[i].offset
          /\ t.ord[i].cond = s.ord[i].cond /\ t.ord[i].created = s.ord[i].created
      BY <1>1, <3>1 DEF SameTerms
    <3>3. Untouched(s, f, i)
      BY <3>1, <3>2 DEF Untouched
    <3>4. Cared(s, f, p, i)
      BY <3>3 DEF Attending, Attended
    <3> QED BY <2>1, <3>2, <3>4 DEF Cared
  <2> QED BY <2>2, <2>3, <2>4 DEF Calm
<1> QED BY <1>1, <1>3, <1>4, <1>5 DEF Attending
-----------------------------------------------------------------------------
\* Fewer orders work and nothing is asked for anew.
LEMMA IdleKept ==
    ASSUME NEW s, NEW pending, NEW t, NEW next, NEW now, ClientKnown(t), SameTerms(s, t),
           SameMarks(s.book, t.book), \A i \in Active(t.book) : StillWorks(s.book, t.book, i),
           \A i \in ToSet(next) : Asked(s, pending, i),
           \A m \in ToSet(t.channel) : m.kind # "Report" /\ m.id \in OrderIds =>
               \/ m \in ToSet(s.channel) \/ m.id \in ToSet(pending)
               \/ NewOrder(s, t, m.id, now)
    PROVE  Idle(s, pending, t, next, now)
<1>1. \A i \in OrderIds : Asked(t, next, i) => Asked(s, pending, i) \/ NewOrder(s, t, i, now)
  BY DEF Asked
<1> QED BY <1>1 DEF Idle, Calm

\* A report is applied.
LEMMA ReportIdle ==
    ASSUME NEW s, NEW pending, NEW reports, Good(s, pending, reports), NEW r \in reports,
           NEW t, t = ApplyReport(s, r), ClientKnown(s), NEW now
    PROVE  Idle(s, pending, t, pending, now)
<1>1. /\ s \in StateType /\ r \in ReportType /\ s.channel \in Seq(MessageType)
      /\ Used(s.ord) = 1 .. Drawn(s) /\ s.book \in BookType
  BY DEF Good, StateType
<1>2. ClientKnown(t)
  BY ReportKnown
<1>3. PICK k \in Nat, P \in SUBSET OrderIds : Applied(s, r, t, k, P)
  <2>1. \E k \in Nat, P \in SUBSET OrderIds : Applied(s, r, t, k, P)
    BY ReportKeeps
  <2> QED BY <2>1
<1> DEFINE n == Drawn(s)
           new == Requests(n, k)
<1>4. t \in StateType /\ Extended(s, t, k) /\ t.book = OnCancel(s.book, P)
  BY <1>3 DEF Applied
<1>5. \A i \in Active(t.book) : StillWorks(s.book, t.book, i)
  BY <1>1, <1>4, OnCancelProperties DEF StillWorks
<1>6. SameMarks(s.book, t.book)
  BY <1>1, <1>4, OnCancelProperties DEF SameMarks
<1>7. /\ \A i \in OrderIds : s.ord[i] \in Order => t.ord[i] = s.ord[i]
      /\ \A j \in n + 1 .. n + k : j \in OrderIds /\ s.ord[j] \notin Order /\ t.ord[j] \in Order
  BY <1>1, <1>4, ExtendedProperties
<1>8. SameTerms(s, t)
  BY <1>7 DEF SameTerms
<1>9. n \in Nat /\ t.channel = s.channel \o new
  BY <1>1, <1>4, UsedFacts DEF Extended
<1>10. \A j \in n + 1 .. n + k : NewOrder(s, t, j, now)
  <2>1. \A j \in OrderIds : t.ord[j] # s.ord[j] => t.ord[j].cond
    BY <1>3 DEF Applied, ExitsOnly, ExitTerms
  <2> QED BY <1>7, <2>1 DEF NewOrder
<1> HIDE DEF n
<1>11. /\ new \in Seq(MessageType)
       /\ \A m \in ToSet(new) : m.kind = "Request" /\ m.id \in n + 1 .. n + k
  <2>1. new = [j \in 1 .. k |-> [kind |-> "Request", id |-> n + j]]
    BY DEF Requests
  <2>2. \A j \in 1 .. k : n + j \in n + 1 .. n + k /\ n + j \in OrderIds
    BY <1>7, <1>9
  <2>3. \A j \in 1 .. k : [kind |-> "Request", id |-> n + j] \in MessageType
    BY <2>2 DEF MessageType
  <2> HIDE DEF new
  <2> QED BY <2>1, <2>2, <2>3 DEF ToSet
<1> HIDE DEF new
<1>12. \A m \in ToSet(t.channel) : m \in ToSet(s.channel) \/ NewOrder(s, t, m.id, now)
  <2>1. ToSet(t.channel) = ToSet(s.channel) \cup ToSet(new)
    BY <1>1, <1>9, <1>11, ToSetConcat
  <2> QED BY <1>10, <1>11, <2>1
<1>13. \A i \in ToSet(pending) : Asked(s, pending, i)
  BY DEF Asked
<1> QED BY <1>2, <1>5, <1>6, <1>8, <1>12, <1>13, IdleKept

\* One message is taken from the channel.
LEMMA ReceiveCalm ==
    ASSUME NEW s, NEW pending, Good(s, pending, {}), s.channel # <<>>,
           NEW m, m = Head(s.channel), NEW u, u = Popped(s),
           NEW t \in StateType, m.kind = "Request" => t = u,
           m.kind = "Validated" => t = WithOrder(u, m.id),
           m.kind = "Report" => t = ApplyReport(u, m),
           NEW next, next = IF m.kind = "Request" THEN Append(pending, m.id) ELSE pending,
           ClientKnown(s), NEW now
    PROVE  Calm(s, pending, t, next, now)
<1>1. s \in StateType /\ s.channel \in Seq(MessageType)
  BY DEF Good, StateType
<1>2. /\ u \in StateType /\ u.om = s.om /\ u.book = s.book /\ u.ord = s.ord
      /\ u.channel = Tail(s.channel)
  <2> DEFINE q == Tail(s.channel)
  <2>1. q \in Seq(MessageType)
    BY <1>1
  <2>2. u = [s EXCEPT !.channel = q]
    BY DEF Popped
  <2> HIDE DEF q
  <2>3. u \in StateType /\ u.om = s.om /\ u.book = s.book /\ u.ord = s.ord /\ u.channel = q
    BY <1>1, <2>1, <2>2 DEF StateType
  <2> QED BY <2>3 DEF q
<1>3. /\ m \in MessageType /\ m.id \in OrderIds /\ MessageSound(u, m)
      /\ m \in ToSet(s.channel) /\ ToSet(u.channel) \subseteq ToSet(s.channel)
      /\ m.id \notin ToSet(pending) /\ \A d \in ToSet(u.channel) : d.id # m.id
      /\ Good(u, pending, {})
  <2>1. /\ m \in MessageType /\ m.id \in OrderIds /\ MessageSound(u, m)
        /\ m \in ToSet(s.channel) /\ m.id \notin ToSet(pending)
    BY <1>2, HeadTaken
  <2>2. ToSet(u.channel) \subseteq ToSet(s.channel)
    BY <1>2, HeadTaken
  <2>3. \A d \in ToSet(u.channel) : d.id # m.id
    BY <1>2, HeadTaken
  <2>4. Good(u, pending, {})
    BY <1>2, HeadTaken
  <2> QED BY <2>1, <2>2, <2>3, <2>4
<1>4. ClientKnown(u) /\ SameTerms(s, u) /\ SameMarks(s.book, u.book)
  BY <1>2 DEF ClientKnown, SameTerms, SameMarks
<1>5. \A i \in OrderIds : Asked(u, pending, i) => Asked(s, pending, i)
  BY <1>3 DEF Asked
<1>6. CASE m.kind = "Request"
  <2>1. t = u /\ next = Append(pending, m.id) /\ pending \in Seq(OrderIds)
    BY <1>6 DEF Good, InOnePlace
  <2>2. ToSet(next) = ToSet(pending) \cup {m.id}
    BY <1>3, <2>1, ToSetAppend
  <2>3. Asked(s, pending, m.id)
    BY <1>3, <1>6 DEF Asked
  <2>4. \A i \in OrderIds : Asked(t, next, i) => Asked(s, pending, i)
    BY <1>5, <2>1, <2>2, <2>3 DEF Asked
  <2>5. \A i \in Active(t.book) : StillWorks(s.book, t.book, i)
    BY <1>2, <2>1 DEF StillWorks
  <2> QED BY <1>4, <2>1, <2>4, <2>5 DEF Calm
<1>7. CASE m.kind = "Validated"
  <2>1. t = WithOrder(u, m.id) /\ next = pending /\ m.id \notin ToSet(u.book.queue)
    BY <1>3, <1>7 DEF MessageSound
  <2> DEFINE b == OnOrder(u.book, m.id)
             o == AddActive(u.om, m.id)
  <2>2. t = [u EXCEPT !.book = b, !.om = o]
    BY <2>1 DEF WithOrder
  <2>3. /\ \A j \in OrderIds : b.status[j] = IF j = m.id THEN "Submitted" ELSE u.book.status[j]
        /\ \A j \in OrderIds : j # m.id => b.filled[j] = u.book.filled[j]
    <3>1. BookSound(u.book, u.ord) /\ u.ord[m.id] \in Order
      BY <1>3 DEF Good, MessageSound
    <3> QED BY <1>3, <2>1, <3>1, OnOrderProperties
  <2>4. \A j \in OrderIds : o.status[j] = IF j = m.id THEN "New" ELSE u.om.status[j]
    <3>1. u.om \in RegistryType
      BY <1>2 DEF StateType
    <3> QED BY <1>3, <3>1, AddActiveProperties
  <2>5. SameMarks(u.book, b)
    <3>1. u.book \in BookType
      BY <1>2 DEF StateType
    <3> QED BY <3>1 DEF SameMarks, OnOrder, BookType
  <2> HIDE DEF b, o
  <2>6. t.book = b /\ t.om = o /\ t.ord = u.ord /\ t.channel = u.channel
    BY <1>2, <2>2 DEF StateType
  <2>7. \A i \in Active(t.book) : i = m.id \/ StillWorks(s.book, t.book, i)
    BY <1>2, <2>3, <2>6 DEF Active, StillWorks
  <2>8. Asked(s, pending, m.id)
    <3>1. m.kind # "Report"
      BY <1>7
    <3> QED BY <1>3, <3>1 DEF Asked
  <2>9. \A i \in OrderIds : Asked(t, next, i) => Asked(s, pending, i)
    BY <1>5, <2>1, <2>6 DEF Asked
  <2>10. ClientKnown(t)
    <3>1. \A i \in Active(t.book) : i = m.id \/ i \in Active(u.book)
      BY <2>3, <2>6 DEF Active
    <3> QED BY <1>4, <2>4, <2>6, <3>1, StatusFacts DEF ClientKnown, Active
  <2>11. SameTerms(s, t)
    BY <1>2, <2>6 DEF SameTerms
  <2>12. SameMarks(s.book, t.book)
    BY <1>4, <2>5, <2>6 DEF SameMarks
  <2> QED BY <2>7, <2>8, <2>9, <2>10, <2>11, <2>12 DEF Calm
<1>8. CASE m.kind = "Report"
  <2> DEFINE R == {m}
  <2>1. m \in ReportType /\ t = ApplyReport(u, m) /\ next = pending
    BY <1>3, <1>8 DEF MessageType
  <2>2. InOnePlace(u, pending, R)
    BY <1>3 DEF Good, InOnePlace
  <2>3. R \subseteq ReportType /\ m \in R /\ \A d \in R : MessageSound(u, d)
    BY <1>3, <2>1
  <2> HIDE DEF R
  <2>4. Good(u, pending, R)
    BY <1>3, <2>2, <2>3 DEF Good
  <2>5. Idle(u, pending, t, pending, now)
    BY <1>4, <2>1, <2>3, <2>4, ReportIdle
  <2>6. Idle(s, pending, u, pending, now)
    <3>1. \A i \in Active(u.book) : StillWorks(s.book, u.book, i)
      BY <1>2 DEF StillWorks
    <3> QED BY <1>4, <1>5, <3>1 DEF Idle, Calm
  <2> QED BY <2>1, <2>5, <2>6, IdleOn DEF Idle
<1>9. m.kind \in {"Request", "Validated", "Report"}
  BY <1>3 DEF MessageType, ReportType
<1> QED BY <1>6, <1>7, <1>8, <1>9

\* The pending requests are answered.
LEMMA AnswerCalm ==
    ASSUME NEW s, NEW pending, Good(s, pending, {}), NEW ids \in Seq(OrderIds),
           ToSet(ids) \subseteq ToSet(pending), NEW next, ToSet(next) \subseteq ToSet(pending),
           NEW risk, \A i \in ToSet(ids) : risk[i] \in Nat, NEW at,
           NEW t, t.om = s.om, t.book = s.book, t.channel = Answers(ids, risk, at),
           t.ord = Reduced(s.ord, ids, risk), ClientKnown(s), NEW now
    PROVE  Calm(s, pending, t, next, now)
<1>1. SameTerms(s, t)
  <2>1. ASSUME NEW i \in OrderIds, s.ord[i] \in Order
        PROVE  /\ t.ord[i] \in Order /\ t.ord[i].sym = s.ord[i].sym
               /\ t.ord[i].offset = s.ord[i].offset /\ t.ord[i].cond = s.ord[i].cond
               /\ t.ord[i].created = s.ord[i].created
    <3>1. t.ord[i] = IF i \in ToSet(ids) /\ risk[i] # 0 THEN [s.ord[i] EXCEPT !.qty = risk[i]]
                     ELSE s.ord[i]
      BY DEF Reduced
    <3>2. CASE i \in ToSet(ids) /\ risk[i] # 0
      <4>1. s.ord[i] \in Order /\ risk[i] \in Nat \ {0}
            /\ t.ord[i] = [s.ord[i] EXCEPT !.qty = risk[i]]
        BY <2>1, <3>1, <3>2
      <4> QED BY <4>1 DEF Order
    <3>3. CASE ~(i \in ToSet(ids) /\ risk[i] # 0)
      BY <2>1, <3>1, <3>3
    <3> QED BY <3>2, <3>3
  <2> QED BY <2>1 DEF SameTerms
<1>2. ClientKnown(t) /\ SameMarks(s.book, t.book)
  BY DEF ClientKnown, SameMarks
<1>3. \A m \in ToSet(t.channel) : m.id \in ToSet(pending)
  <2>1. \A k \in DOMAIN ids : ids[k] \in ToSet(pending)
    BY DEF ToSet
  <2>2. \A k \in DOMAIN ids : Answers(ids, risk, at)[k].id = ids[k]
    BY DEF Answers, Report
  <2>3. DOMAIN Answers(ids, risk, at) = DOMAIN ids
    BY DEF Answers
  <2> QED BY <2>1, <2>2, <2>3 DEF ToSet
<1>4. \A i \in Active(t.book) : StillWorks(s.book, t.book, i)
  BY DEF StillWorks
<1>5. \A i \in ToSet(next) : Asked(s, pending, i)
  BY DEF Asked
<1>6. Idle(s, pending, t, next, now)
  BY <1>1, <1>2, <1>3, <1>4, <1>5, IdleKept
<1> QED BY <1>6 DEF Idle
-----------------------------------------------------------------------------
\* What the feed shows of its slice to the stage p: while it is open the event is a bar
\* of it, and each symbol that trades in it has a traded bar; afterwards it is a timer.
FeedSlices(f, p) ==
    /\ f.finalized <= f.last
    /\ Open(f) =>
          /\ f.event.kind = "Bar" /\ f.event.ts = f.last /\ f.event.sym \in f.seen
          /\ f.event.sym \in f.tradable => f.event.traded
          /\ f.session \in Sessions /\ f.bars # {} /\ f.tradable \subseteq f.seen
          /\ \A y \in f.tradable : \E e \in f.bars : e.sym = y /\ e.traded
    /\ ~Open(f) => \/ p \in {"Finish", "Done"}
                   \/ f.event.kind = "Timer" /\ (f.last = 0 \/ f.event.ts > f.last)
    /\ f.last = 0 => f.seen = {} /\ f.tradable = {}

\* No session of the feed rests.
AlwaysTrading == Sessions \cap Resting = {}

\* A match of the current event leaves attended what it leaves working.
LEMMA MatchAttends ==
    ASSUME AlwaysTrading, NEW s, NEW pending, Good(s, pending, {}), NEW f, NEW p, NEW q,
           FeedSlices(f, p), p \notin {"Finish", "Done"}, f.event \in EventType,
           NEW priced, NEW v \in VerdictsOf(s.book, s.ord, {f.event}, priced, OrderIds),
           NEW done, done = OnEvent(s.book, s.ord, f.event, f.event.ts, f.session, priced, v),
           NEW t, t.om = s.om, t.ord = s.ord, t.book = done.book,
           t.channel = s.channel \o done.reports, Attending(s, pending, f, p)
    PROVE  Attending(t, pending, f, q)
<1> DEFINE e == f.event
           now == e.ts
           b == s.book
           c == done.book
           sliced == PrepareSlice(b, now)
           S == BarSymbol(e)
<1>1. /\ BookSound(b, s.ord) /\ s.channel \in Seq(MessageType) /\ b \in BookType
      /\ now \in Nat /\ e \in EventType
  BY DEF Good, StateType, BookSound, EventType
<1>2. CallSound(b, s.ord, Nat, done)
  <2> DEFINE o == s.ord
  <2>1. BookSound(b, o) /\ v \in VerdictsOf(b, o, {e}, priced, OrderIds)
        /\ done = OnEvent(b, o, e, now, f.session, priced, v)
    BY <1>1
  <2> HIDE DEF b, o, e, now
  <2>2. EventSound(b, o, e, done)
    BY <1>1, <2>1, OnEventSound
  <2> QED BY <2>2 DEF o, EventSound
<1>3. /\ Passed(sliced, c, s.ord, S)
      /\ f.session \notin Resting =>
            \A i \in Active(b) : Meets(s.ord[i], e) => Served(c, i, TRUE)
  <2> DEFINE o == s.ord
  <2>1. BookSound(b, o) /\ v \in VerdictsOf(b, o, {e}, priced, OrderIds)
        /\ done = OnEvent(b, o, e, now, f.session, priced, v)
    BY <1>1
  <2> HIDE DEF b, o, e, now
  <2>2. /\ Passed(PrepareSlice(b, now), done.book, o, BarSymbol(e))
        /\ f.session \notin Resting =>
              \A i \in Active(b) : Meets(o[i], e) => Served(done.book, i, TRUE)
    BY <1>1, <2>1, OnEventPasses
  <2> QED BY <2>2 DEF o
<1>4. /\ sliced.slice = now /\ Active(sliced) = Active(b) /\ sliced.filled = b.filled
      /\ sliced.deferred = (IF b.slice = now THEN b.deferred ELSE {})
      /\ sliced.attempted = (IF b.slice = now THEN b.attempted ELSE {})
  <2>1. sliced.status = b.status /\ sliced.filled = b.filled
    BY <1>1 DEF PrepareSlice, BookType
  <2>2. /\ sliced.slice = now
        /\ sliced.deferred = IF b.slice = now THEN b.deferred ELSE {}
        /\ sliced.attempted = IF b.slice = now THEN b.attempted ELSE {}
    <3> HIDE DEF b, now
    <3> QED BY <1>1, SlicePasses
  <2> HIDE DEF sliced
  <2> QED BY <2>1, <2>2 DEF Active
<1> HIDE DEF sliced
<1>5. /\ ClientKnown(s) /\ MarksSound(s, pending, f) /\ LateAsked(s, pending, f.last)
      /\ Attended(s, f, p)
  BY DEF Attending
<1>6. \A i \in Active(c) : i \in Active(b)
  BY <1>2 DEF CallSound, Outcome
<1>7. \A m \in ToSet(t.channel) : m \in ToSet(s.channel) \/ m.kind = "Report"
  <2> DEFINE R == done.reports
  <2>1. R \in Seq(ReportType)
    BY <1>2 DEF CallSound
  <2> HIDE DEF R
  <2>2. \A k \in DOMAIN R : R[k] \in MessageType /\ R[k].kind = "Report"
    <3>1. \A k \in DOMAIN R : R[k] \in ReportType
      BY <2>1
    <3> QED BY <3>1 DEF MessageType, ReportType
  <2>3. R \in Seq(MessageType)
    BY <2>1, <2>2
  <2>4. ToSet(t.channel) = ToSet(s.channel) \cup ToSet(R)
    BY <1>1, <2>3, ToSetConcat DEF R
  <2> QED BY <2>2, <2>4 DEF ToSet
<1>8. \A i \in OrderIds : Asked(t, pending, i) => Asked(s, pending, i)
  BY <1>7 DEF Asked
<1>9. \A i \in Active(b) : i \in OrderIds /\ s.ord[i] \in Order /\ ~Asked(s, pending, i)
  BY AskedFacts DEF Active
<1>10. Open(f) => f.session \notin Resting
  BY DEF AlwaysTrading, FeedSlices
<1>11. S # {} => Open(f) /\ S = {e.sym} /\ e.kind = "Bar"
  BY DEF FeedSlices, BarSymbol
<1>12. \A i \in Marked(c) : \/ i \in Marked(b) /\ b.slice = now
                            \/ i \in Active(b) /\ s.ord[i].sym \in S
  BY <1>3, <1>4 DEF Passed, Marked
<1>13. c.slice = now /\ (b.slice = now => b.deferred \subseteq c.deferred)
  BY <1>3, <1>4 DEF Passed
<1>14. ClientKnown(t)
  BY <1>5, <1>6 DEF ClientKnown
<1>15. MarksSound(t, pending, f)
  <2> SUFFICES ASSUME NEW i \in Marked(c)
               PROVE  /\ i \in OrderIds /\ Open(f) /\ c.slice = f.last
                      /\ s.ord[i] \in Order /\ s.ord[i].sym \in f.seen /\ ~Asked(t, pending, i)
    BY DEF MarksSound
  <2>1. CASE i \in Marked(b)
    <3>1. /\ i \in OrderIds /\ Open(f) /\ s.ord[i] \in Order /\ s.ord[i].sym \in f.seen
          /\ ~Asked(s, pending, i)
      BY <1>5, <2>1 DEF MarksSound
    <3>2. f.last = now
      BY <3>1 DEF FeedSlices
    <3> QED BY <1>8, <1>13, <3>1, <3>2
  <2>2. CASE i \in Active(b) /\ s.ord[i].sym \in S
    <3>1. Open(f) /\ s.ord[i].sym = e.sym
      BY <1>11, <2>2
    <3>2. f.last = now /\ e.sym \in f.seen
      BY <3>1 DEF FeedSlices
    <3> QED BY <1>8, <1>9, <1>13, <2>2, <3>1, <3>2
  <2> QED BY <1>12, <2>1, <2>2
<1>16. LateAsked(t, pending, f.last)
  BY <1>5, <1>8 DEF LateAsked
<1>17. Attended(t, f, q)
  <2> SUFFICES ASSUME Open(f), NEW i \in OrderIds, Untouched(t, f, i)
               PROVE  Cared(t, f, q, i)
    BY DEF Attended
  <2>1. /\ i \in Active(c) /\ ~s.ord[i].cond /\ s.ord[i].sym \in f.tradable
        /\ ~(c.filled[i] > 0)
    BY DEF Untouched
  <2>2. i \in Active(b) /\ ~(b.filled[i] > 0)
    BY <1>3, <1>4, <1>6, <2>1 DEF Passed
  <2>3. Cared(s, f, p, i)
    BY <1>5, <2>1, <2>2 DEF Attended, Untouched
  <2>4. f.last = now /\ e.kind = "Bar" /\ (e.sym \in f.tradable => e.traded)
    BY DEF FeedSlices
  <2>5. i \in b.deferred => i \in c.deferred
    <3>1. i \in b.deferred => b.slice = now
      BY <1>5, <2>4 DEF MarksSound, Marked
    <3> QED BY <1>13, <3>1
  <2>6. ASSUME s.ord[i].sym = e.sym, s.ord[i].offset = 1 => s.ord[i].created < now
        PROVE  i \in c.deferred
    <3>1. e.traded
      BY <2>1, <2>4, <2>6
    <3>2. s.ord[i] \in Order /\ s.ord[i].created \in Nat
      BY <1>9, <2>2 DEF Order
    <3>3. Meets(s.ord[i], e)
      BY <1>1, <2>1, <2>4, <2>6, <3>1, <3>2 DEF Meets, TooEarly
    <3>4. Served(c, i, TRUE)
      BY <1>3, <1>10, <2>2, <3>3
    <3> QED BY <2>1, <3>4 DEF Served
  <2>7. ASSUME s.ord[i].offset = 0, s.ord[i].created = f.last
        PROVE  i \in c.deferred \/ i \notin c.attempted
    <3>1. i \in b.deferred \/ i \notin b.attempted
      BY <2>3, <2>7 DEF Cared
    <3>2. CASE i \in b.deferred
      BY <2>5, <3>2
    <3>3. CASE i \notin b.deferred /\ i \notin b.attempted
      <4>1. i \in c.attempted => s.ord[i].sym = e.sym
        BY <1>11, <1>12, <3>3 DEF Marked
      <4>2. s.ord[i].offset # 1
        BY <2>7
      <4> QED BY <2>6, <4>1, <4>2
    <3> QED BY <3>1, <3>2, <3>3
  <2>8. ASSUME s.ord[i].offset = 1, s.ord[i].created < f.last
        PROVE  i \in c.deferred
    <3>1. i \in b.deferred \/ s.ord[i].sym = e.sym
      BY <2>3, <2>8 DEF Cared
    <3> QED BY <2>4, <2>5, <2>6, <2>8, <3>1
  <2> QED BY <2>7, <2>8 DEF Cared
<1> QED BY <1>14, <1>15, <1>16, <1>17 DEF Attending

\* Where the feed stays in its slice and the stage has no order to match, orders
\* stay attended.
LEMMA AttendingOn ==
    ASSUME NEW s, NEW pending, NEW f, NEW p, Attending(s, pending, f, p), p # "PreExec",
           NEW g, g.last = f.last, g.finalized = f.finalized, g.seen = f.seen,
           g.tradable = f.tradable, NEW q
    PROVE  Attending(s, pending, g, q)
<1>1. Open(g) <=> Open(f)
  BY DEF Open
<1>2. MarksSound(s, pending, g) /\ LateAsked(s, pending, g.last) /\ ClientKnown(s)
  BY <1>1 DEF Attending, MarksSound
<1>3. \A i \in OrderIds : Untouched(s, g, i) => Untouched(s, f, i)
  BY DEF Untouched
<1>4. \A i \in OrderIds : Cared(s, f, p, i) => Cared(s, g, q, i)
  BY DEF Cared
<1>5. Attended(s, g, q)
  BY <1>1, <1>3, <1>4 DEF Attending, Attended
<1> QED BY <1>2, <1>5 DEF Attending

-----------------------------------------------------------------------------
\* Nothing is marked, and what is on its way to the client has a price to meet.
Rested(t) == ClientKnown(t) /\ Marked(t.book) = {} /\ \A n \in Nat : LateAsked(t, <<>>, n)

\* What was due in the slice and still works has traded.
DueServed(t) == \A i \in OrderIds : Due(i, feed.last) /\ i \in Active(t.book) => t.book.filled[i] > 0

IdleAlways(s, t) == \A now \in Nat : Idle(s, <<>>, t, <<>>, now)

LEMMA IdleRests ==
    ASSUME NEW s, NEW reports, Good(s, <<>>, reports), NEW t, IdleAlways(s, t)
    PROVE  /\ Rested(s) => Rested(t)
           /\ DueServed(s) => DueServed(t)
<1>1. Idle(s, <<>>, t, <<>>, 0)
  BY DEF IdleAlways
<1>2. ClientKnown(t) /\ SameMarks(s.book, t.book) /\ SameTerms(s, t)
  BY <1>1 DEF Idle, Calm
<1>3. ASSUME Rested(s), NEW n \in Nat
      PROVE  LateAsked(t, <<>>, n)
  <2> SUFFICES ASSUME NEW i \in OrderIds, Asked(t, <<>>, i)
               PROVE  t.ord[i].cond \/ t.ord[i].created >= n
    BY DEF LateAsked
  <2>1. Asked(s, <<>>, i) \/ NewOrder(s, t, i, n)
    BY DEF IdleAlways, Idle, Calm
  <2>2. CASE Asked(s, <<>>, i)
    <3>1. s.ord[i] \in Order /\ (s.ord[i].cond \/ s.ord[i].created >= n)
      BY <1>3, <2>2, AskedFacts DEF Rested, LateAsked
    <3> QED BY <1>2, <3>1 DEF SameTerms
  <2>3. CASE NewOrder(s, t, i, n)
    BY <2>3 DEF NewOrder
  <2> QED BY <2>1, <2>2, <2>3
<1>4. Rested(s) => Rested(t)
  BY <1>2, <1>3 DEF Rested, SameMarks, Marked
<1>5. DueServed(s) => DueServed(t)
  BY <1>1 DEF Idle, StillWorks, DueServed
<1> QED BY <1>4, <1>5

LEMMA IdleAlwaysOn ==
    ASSUME NEW s, NEW t, IdleAlways(s, t), NEW u, IdleAlways(t, u)
    PROVE  IdleAlways(s, u)
BY IdleOn DEF IdleAlways

\* A change that works no order.
LEMMA CancelledIdle ==
    ASSUME NEW s, s.book \in BookType, NEW t, NEW X, t.ord = s.ord, t.book = OnCancel(s.book, X),
           ClientKnown(t),
           \A m \in ToSet(t.channel) : m \in ToSet(s.channel) \/ m.kind = "Report"
    PROVE  IdleAlways(s, t)
<1>1. /\ SameTerms(s, t) /\ SameMarks(s.book, t.book)
      /\ \A i \in Active(t.book) : StillWorks(s.book, t.book, i)
  BY OnCancelProperties DEF SameTerms, SameMarks, StillWorks
<1>2. ToSet(<<>>) = {}
  BY DEF ToSet
<1>3. \A now \in Nat : Idle(s, <<>>, t, <<>>, now)
  BY <1>1, <1>2, IdleKept
<1> QED BY <1>3 DEF IdleAlways
-----------------------------------------------------------------------------
\* The last match of the slice.
LEMMA LastMatchRests ==
    ASSUME NEW s, Good(s, <<>>, {}), s.channel = <<>>, s.book = book, s.ord = ord,
           feed \in FeedType, BarsSound(feed.bars, feed.last), SliceOpen, FeedSlices(feed, "Data"),
           Attending(s, <<>>, feed, "Data"),
           NEW v \in FinalVerdicts, NEW t, t = LastMatch(s, v)
    PROVE  Rested(t) /\ DueServed(t)
<1> DEFINE done == FinalizeTimestamp(s.book, s.ord, feed.bars, feed.last, feed.priced, v)
           u == [s EXCEPT !.book = done.book]
           R == done.reports
           n == Len(R)
           applied == FoldLeft(ApplyReport, u, R)
           sliced == PrepareSlice(s.book, feed.last)
<1>1. /\ s \in StateType /\ s.ledger \in LedgerType /\ BookSound(s.book, s.ord)
      /\ ToSet(s.channel) = {} /\ ToSet(<<>>) = {} /\ feed.last \in Nat
      /\ s.book \in BookType /\ Open(feed) /\ feed.bars # {}
  BY DEF Good, StateType, BookSound, ToSet, FeedType, SliceOpen, Open, FeedSlices
<1>2. t = [applied EXCEPT !.ledger = Flush(@)]
  BY <1>1 DEF LastMatch
<1>3. v \in VerdictsOf(s.book, s.ord, feed.bars, feed.priced, ToFinalize(sliced, s.ord, feed.last))
  BY DEF FinalVerdicts
<1>4. CallSound(s.book, s.ord, {feed.last}, done)
  <2> HIDE DEF done
  <2>1. done = FinalizeTimestamp(s.book, s.ord, feed.bars, feed.last, feed.priced, v)
    BY DEF done
  <2> QED BY <1>1, <1>3, <2>1, FinalizeTimestampSound
<1>5. /\ Marked(done.book) = {}
      /\ \A i \in Active(done.book) : /\ i \in Active(s.book)
                                      /\ s.book.filled[i] > 0 => done.book.filled[i] > 0
      /\ \A i \in ToFinalize(sliced, s.ord, feed.last), e \in feed.bars :
            Meets(s.ord[i], e) => i \notin Active(done.book) \/ done.book.filled[i] > 0
  <2> DEFINE c == done.book
             o == s.ord
             b == s.book
             ts == feed.last
             bars == feed.bars
  <2>1. done = FinalizeTimestamp(b, o, bars, ts, feed.priced, v)
    OBVIOUS
  <2>2. /\ BookSound(b, o) /\ ts \in Nat /\ BarsSound(bars, ts) /\ bars # {}
        /\ v \in VerdictsOf(b, o, bars, feed.priced, ToFinalize(PrepareSlice(b, ts), o, ts))
    BY <1>1, <1>3
  <2> HIDE DEF done, o, b, ts, bars, sliced
  <2>3. /\ done.book.deferred = {} /\ done.book.attempted = {}
        /\ \A i \in Active(done.book) : /\ i \in Active(b)
                                        /\ b.filled[i] > 0 => done.book.filled[i] > 0
        /\ \A i \in ToFinalize(PrepareSlice(b, ts), o, ts), e \in bars :
              Meets(o[i], e) => i \notin Active(done.book) \/ done.book.filled[i] > 0
    BY <2>1, <2>2, FinalizeTimestampPasses
  <2> QED BY <2>3 DEF Marked, o, b, ts, bars, sliced
<1> HIDE DEF done
<1>6. /\ u \in StateType /\ u.om = s.om /\ u.ord = s.ord /\ u.channel = s.channel
      /\ u.book = done.book
  BY <1>1, <1>4 DEF CallSound, BookSound, StateType
<1> HIDE DEF u
<1>7. Good(u, <<>>, ToSet(R))
  <2>1. \A m \in ToSet(s.channel) : m.id \notin Active(s.book)
    BY <1>1
  <2>2. Good(u, <<>>, ToSet(done.reports))
    BY <1>4, <1>6, <2>1, CallKeeps
  <2> QED BY <2>2
<1>8. R \in Seq(ReportType) /\ \A k, l \in DOMAIN R : R[k].id = R[l].id => k = l
  BY <1>4 DEF CallSound, Outcome
<1> HIDE DEF R
<1>9. ClientKnown(u)
  BY <1>5, <1>6 DEF Attending, ClientKnown
<1>10. Rested(u)
  <2>1. \A i \in OrderIds : ~Asked(u, <<>>, i)
    BY <1>1, <1>6 DEF Asked
  <2> QED BY <1>5, <1>6, <1>9, <2>1 DEF Rested, LateAsked
<1>11. DueServed(u)
  <2> SUFFICES ASSUME NEW i \in OrderIds, Due(i, feed.last), i \in Active(done.book),
                      ~(done.book.filled[i] > 0)
               PROVE  FALSE
    BY <1>6 DEF DueServed
  <2> DEFINE o == s.ord[i]
  <2>1. i \in Active(s.book) /\ ~(s.book.filled[i] > 0) /\ o \in Order
    BY <1>1, <1>5 DEF BookSound
  <2>2. /\ ~o.cond /\ o.sym \in feed.tradable
        /\ IF o.offset = 0 THEN o.created = feed.last ELSE o.created < feed.last
    BY DEF Due
  <2>3. o.offset \in {0, 1} /\ o.created \in Nat
    BY <2>1 DEF Order
  <2>4. Cared(s, feed, "Data", i)
    BY <1>1, <2>1, <2>2 DEF Attending, Attended, Untouched
  <2>5. i \in s.book.deferred => s.book.slice = feed.last
    BY DEF Attending, MarksSound, Marked
  <2>6. /\ sliced.deferred = (IF s.book.slice = feed.last THEN s.book.deferred ELSE {})
        /\ sliced.attempted = (IF s.book.slice = feed.last THEN s.book.attempted ELSE {})
        /\ Active(sliced) = Active(s.book)
    <3>1. sliced.status = s.book.status
      BY <1>1 DEF PrepareSlice, BookType
    <3>2. /\ sliced.deferred = (IF s.book.slice = feed.last THEN s.book.deferred ELSE {})
          /\ sliced.attempted = (IF s.book.slice = feed.last THEN s.book.attempted ELSE {})
      BY <1>1, SlicePasses
    <3> HIDE DEF sliced
    <3> QED BY <3>1, <3>2 DEF Active
  <2> HIDE DEF sliced
  <2>7. i \in sliced.deferred \/ (o.created = feed.last /\ o.offset = 0 /\ i \notin sliced.attempted)
    <3>1. CASE o.offset = 0
      BY <2>2, <2>4, <2>5, <2>6, <3>1 DEF Cared
    <3>2. CASE o.offset = 1
      BY <2>2, <2>4, <2>5, <2>6, <3>2 DEF Cared
    <3> QED BY <2>3, <3>1, <3>2
  <2>8. i \in ToFinalize(sliced, s.ord, feed.last)
    BY <2>1, <2>6, <2>7 DEF ToFinalize, ShouldFinalize
  <2>9. PICK e \in feed.bars : e.sym = o.sym /\ e.traded
    BY <1>1, <2>2 DEF FeedSlices
  <2>10. e.kind = "Bar" /\ e.ts = feed.last
    BY DEF BarsSound
  <2>11. Meets(o, e)
    BY <1>1, <2>2, <2>3, <2>9, <2>10 DEF Meets, TooEarly
  <2> QED BY <1>5, <2>8, <2>11
<1> DEFINE Rest(k) == {R[l] : l \in k + 1 .. n}
           Half(k, a) == Good(a, <<>>, Rest(k)) /\ ClientKnown(a) /\ IdleAlways(u, a)
           P == {p \in (0 .. n) \X StateType : Half(p[1], p[2])}
<1>12. n \in Nat /\ DOMAIN R = 1 .. n
  BY <1>8
<1> HIDE DEF n
<1>13. <<0, u>> \in P
  <2>1. Rest(0) = ToSet(R)
    BY <1>12 DEF ToSet
  <2>2. IdleAlways(u, u)
    <3>1. SameTerms(u, u) /\ SameMarks(u.book, u.book) /\ \A i \in Active(u.book) : StillWorks(u.book, u.book, i)
      BY DEF SameTerms, SameMarks, StillWorks
    <3> QED BY <1>1, <1>9, <3>1, IdleKept DEF IdleAlways
  <2>3. Half(0, u)
    BY <1>7, <1>9, <2>1, <2>2
  <2> HIDE DEF Half
  <2> QED BY <1>6, <1>12, <2>3
<1>14. ASSUME NEW k \in 1 .. n, NEW a, <<k - 1, a>> \in P
       PROVE  <<k, ApplyReport(a, R[k])>> \in P
  <2> DEFINE b == ApplyReport(a, R[k])
  <2>1. Half(k - 1, a) /\ k - 1 \in 0 .. n
    <3> HIDE DEF Half
    <3>1. \A p \in P : Half(p[1], p[2]) /\ p[1] \in 0 .. n
      OBVIOUS
    <3>2. <<k - 1, a>>[1] = k - 1 /\ <<k - 1, a>>[2] = a
      OBVIOUS
    <3> HIDE DEF P
    <3> QED BY <3>1, <3>2, <1>14
  <2>2. R[k] \in Rest(k - 1) /\ Rest(k - 1) \ {R[k]} = Rest(k)
    <3>1. (k - 1) + 1 = k /\ k \in Nat
      BY <1>12
    <3>2. Rest(k - 1) = Rest(k) \cup {R[k]}
      <4>1. k .. n = (k + 1 .. n) \cup {k}
        BY <1>12, <3>1
      <4> QED BY <3>1, <4>1
    <3>3. R[k] \notin Rest(k)
      BY <1>8, <1>12, <3>1
    <3> HIDE DEF Rest
    <3> QED BY <3>2, <3>3
  <2> HIDE DEF Rest, b
  <2>3. Good(a, <<>>, Rest(k - 1)) /\ ClientKnown(a) /\ IdleAlways(u, a) /\ b = ApplyReport(a, R[k])
    BY <2>1 DEF b
  <2>4. Good(b, <<>>, Rest(k - 1) \ {R[k]})
    BY <2>2, <2>3, ReportKeeps
  <2>5. IdleAlways(a, b)
    <3>1. \A now \in Nat : Idle(a, <<>>, b, <<>>, now)
      BY <2>2, <2>3, ReportIdle
    <3> QED BY <3>1 DEF IdleAlways
  <2>6. IdleAlways(u, b) /\ ClientKnown(b)
    <3>1. Idle(a, <<>>, b, <<>>, 0)
      BY <2>5 DEF IdleAlways
    <3> QED BY <2>3, <2>5, <3>1, IdleAlwaysOn DEF Idle, Calm
  <2>7. Half(k, b) /\ b \in StateType
    BY <2>2, <2>4, <2>6 DEF Good
  <2> HIDE DEF Half
  <2> QED BY <1>12, <2>7 DEF b
<1>15. <<n, applied>> \in P
  <2> HIDE DEF P
  <2> QED BY <1>8, <1>13, <1>14, ReportsInduction DEF n
<1>16. Half(n, applied)
  <2> HIDE DEF Half
  <2>1. \A p \in P : Half(p[1], p[2])
    OBVIOUS
  <2>2. <<n, applied>>[1] = n /\ <<n, applied>>[2] = applied
    OBVIOUS
  <2> HIDE DEF P
  <2> QED BY <1>15, <2>1, <2>2
<1> HIDE DEF applied, Rest
<1>17. applied \in StateType
  BY <1>16 DEF Good
<1>18. t.om = applied.om /\ t.ord = applied.ord /\ t.channel = applied.channel
       /\ t.book = applied.book
  BY <1>2, <1>17 DEF StateType
<1>19. Rested(applied) /\ DueServed(applied)
  BY <1>7, <1>10, <1>11, <1>16, IdleRests
<1> QED BY <1>18, <1>19 DEF Rested, DueServed, ClientKnown, LateAsked, Asked

\* The rejections for missing symbols.
LEMMA RejectMissingIdle ==
    ASSUME NEW s, Good(s, <<>>, {}), feed.last \in Nat, ClientKnown(s),
           NEW t, t = RejectMissing(s)
    PROVE  IdleAlways(s, t)
<1> DEFINE q == MissingReports(s)
           b == OnCancel(s.book, MissingSymbol(s))
           c == s.channel \o q
<1>1. t = [s EXCEPT !.book = b, !.channel = c]
  BY DEF RejectMissing
<1>2. s \in StateType /\ s.channel \in Seq(MessageType) /\ s.book \in BookType
  BY DEF Good, StateType
<1>3. q \in Seq(ReportType)
  BY <1>2, MissingReportsProperties
<1>4. Active(b) = Active(s.book) \ MissingSymbol(s)
  BY <1>2, OnCancelProperties
<1> HIDE DEF q
<1>5. q \in Seq(MessageType) /\ \A m \in ToSet(q) : m.kind = "Report"
  <2>1. \A k \in DOMAIN q : q[k] \in ReportType
    BY <1>3
  <2> QED BY <1>3, <2>1 DEF MessageType, ReportType, ToSet
<1>6. ToSet(c) = ToSet(s.channel) \cup ToSet(q)
  BY <1>2, <1>5, ToSetConcat
<1>7. t.om = s.om /\ t.ord = s.ord /\ t.book = OnCancel(s.book, MissingSymbol(s)) /\ t.channel = c
  <2> HIDE DEF b, c
  <2>1. t.om = s.om /\ t.ord = s.ord /\ t.book = b /\ t.channel = c
    BY <1>1, <1>2 DEF StateType
  <2> QED BY <2>1 DEF b
<1>8. ClientKnown(t)
  BY <1>4, <1>7 DEF ClientKnown
<1> HIDE DEF c
<1> QED BY <1>2, <1>5, <1>6, <1>7, <1>8, CancelledIdle

\* The settlement.
LEMMA SettleIdle ==
    ASSUME NEW s, Good(s, <<>>, {}), ClientKnown(s), NEW t, t = SettleDay(s)
    PROVE  IdleAlways(s, t)
<1> DEFINE X == ExpiredDayOrders(s)
           b == OnCancel(s.book, X)
           o == ExpireAtSettlement(s.om, X)
<1>1. s \in StateType /\ s.book \in BookType /\ s.om \in RegistryType
  BY DEF Good, StateType
<1>2. t = [s EXCEPT !.om = o, !.book = b]
  BY DEF SettleDay
<1>3. Active(b) = Active(s.book) \ X
  BY <1>1, OnCancelProperties
<1>4. \A i \in OrderIds : o.status[i] = IF i \in X THEN Absent ELSE s.om.status[i]
  <2> DEFINE z == ExpireAtSettlement(s.om, X)
  <2>1. z = ExpireAtSettlement(s.om, X)
    OBVIOUS
  <2> HIDE DEF z
  <2>2. \A i \in OrderIds : z.status[i] = IF i \in X THEN Absent ELSE s.om.status[i]
    BY <1>1, <2>1, ExpireProperties
  <2> QED BY <2>1, <2>2
<1> HIDE DEF o
<1>5. t.om = o /\ t.book = OnCancel(s.book, X) /\ t.ord = s.ord /\ t.channel = s.channel
  <2> HIDE DEF b, X
  <2>1. t.om = o /\ t.book = b /\ t.ord = s.ord /\ t.channel = s.channel
    BY <1>1, <1>2 DEF StateType
  <2> QED BY <2>1 DEF b
<1> HIDE DEF X
<1>6. ClientKnown(t)
  BY <1>3, <1>4, <1>5 DEF ClientKnown, Active
<1> QED BY <1>1, <1>5, <1>6, CancelledIdle
-----------------------------------------------------------------------------
SliceNow == FeedSlices(feed, pc) /\ Attending(State(drain.suppressed), drain.pending, feed, pc)

\* The state becomes t.
LEMMA SliceNext ==
    ASSUME FeedSlices(feed', pc'), NEW t, t.om = om', t.book = book', t.ord = ord',
           t.channel = channel', Attending(t, drain'.pending, feed', pc')
    PROVE  SliceNow'
<1> DEFINE u == State(drain.suppressed)'
<1>1. u.om = t.om /\ u.book = t.book /\ u.ord = t.ord /\ u.channel = t.channel
  BY DEF State
<1> HIDE DEF u
<1> DEFINE f == feed'
           q == drain'.pending
<1>2. Attending(t, q, f, pc')
  OBVIOUS
<1> HIDE DEF f, q
<1>3. Attending(u, q, f, pc')
  BY <1>1, <1>2 DEF Attending, ClientKnown, MarksSound, LateAsked, Attended, Asked, Untouched, Cared
<1> QED BY <1>3 DEF SliceNow, u, f, q

\* The present state.
LEMMA SliceFacts ==
    ASSUME IInv, SliceNow, NEW s, s = State(drain.suppressed)
    PROVE  /\ Good(s, drain.pending, {}) /\ s \in StateType /\ drain \in DrainType
           /\ s.om = om /\ s.book = book /\ s.ord = ord /\ s.channel = channel
           /\ FeedSlices(feed, pc) /\ Attending(s, drain.pending, feed, pc) /\ ClientKnown(s)
           /\ feed \in FeedType /\ feed.last \in Nat /\ Now \in Nat /\ feed.last <= Now
           /\ feed.event \in EventType /\ Now = feed.event.ts
<1>1. /\ Good(s, drain.pending, {}) /\ s \in StateType /\ drain \in DrainType
      /\ s.om = om /\ s.book = book /\ s.ord = ord /\ s.channel = channel
  BY FundFacts
<1>2. /\ feed \in FeedType /\ feed.last \in Nat /\ Now \in Nat /\ feed.last <= Now
      /\ feed.event \in EventType /\ Now = feed.event.ts
  BY DEF IInv, FeedSound, FeedType, EventType, Now
<1>3. FeedSlices(feed, pc) /\ Attending(s, drain.pending, feed, pc)
  BY DEF SliceNow
<1> QED BY <1>1, <1>2, <1>3 DEF Attending

LEMMA FeedSlicesOn ==
    ASSUME NEW f, NEW p, FeedSlices(f, p), NEW q, p \in {"Finish", "Done"} => q \in {"Finish", "Done"},
           NEW g, g.last = f.last, g.finalized = f.finalized, g.seen = f.seen,
           g.tradable = f.tradable, g.bars = f.bars, g.event = f.event, g.session = f.session
    PROVE  FeedSlices(g, q)
BY DEF FeedSlices, Open

\* Creation times are numbers.
LEMMA CreatedNat ==
    ASSUME NEW i, NEW o, o[i] \in Order
    PROVE  o[i].created \in Nat
BY DEF Order

LEMMA ReceiveStepSlice ==
    ASSUME IInv, SliceNow, ChannelReceive
    PROVE  SliceNow'
<1> DEFINE s == State(drain.suppressed)
           pending == drain.pending
           m == Head(channel)
           u == Popped(s)
           t == CASE m.kind = "Request"   -> u
                  [] m.kind = "Validated" -> WithOrder(u, m.id)
                  [] m.kind = "Report"    -> ApplyReport(u, m)
           next == IF m.kind = "Request" THEN Append(pending, m.id) ELSE pending
<1>1. /\ Draining /\ channel # <<>> /\ Becomes(t) /\ pc' = pc /\ feed' = feed
      /\ drain' = [drain EXCEPT !.suppressed = t.suppressed, !.pending = next]
  BY DEF ChannelReceive, Popped, WithOrder
<1>2. /\ Good(s, pending, {}) /\ s.channel = channel /\ drain \in DrainType
      /\ FeedSlices(feed, pc) /\ Attending(s, pending, feed, pc) /\ ClientKnown(s)
      /\ feed.last \in Nat /\ Now \in Nat /\ feed.last <= Now
  <2> DEFINE x == s
  <2>1. x = State(drain.suppressed)
    OBVIOUS
  <2> HIDE DEF x
  <2>2. /\ Good(x, pending, {}) /\ x.channel = channel /\ drain \in DrainType
        /\ FeedSlices(feed, pc) /\ Attending(x, pending, feed, pc) /\ ClientKnown(x)
        /\ feed.last \in Nat /\ Now \in Nat /\ feed.last <= Now
    BY <2>1, SliceFacts
  <2> QED BY <2>2 DEF x
<1> HIDE DEF s, pending
<1>3. /\ m.kind = "Request" => t = u
      /\ m.kind = "Validated" => t = WithOrder(u, m.id)
      /\ m.kind = "Report" => t = ApplyReport(u, m)
  <2> HIDE DEF m, u
  <2>1. "Request" # "Validated" /\ "Request" # "Report" /\ "Validated" # "Report"
    OBVIOUS
  <2>2. CASE m.kind = "Request"
    BY <2>2
  <2>3. CASE m.kind = "Validated"
    BY <2>3
  <2>4. CASE m.kind = "Report"
    BY <2>4
  <2> QED BY <2>1, <2>2, <2>3, <2>4
<1> HIDE DEF t, next
<1>4. t \in StateType /\ Attending(t, next, feed, pc)
  <2>1. m = Head(s.channel) /\ u = Popped(s) /\ s.channel # <<>>
    BY <1>1, <1>2
  <2>2. next = IF m.kind = "Request" THEN Append(pending, m.id) ELSE pending
    BY DEF next
  <2> HIDE DEF m, u
  <2>3. t \in StateType
    BY <1>2, <1>3, <2>1, ReceiveKeeps
  <2>4. Calm(s, pending, t, next, Now)
    BY <1>2, <1>3, <2>1, <2>2, <2>3, ReceiveCalm
  <2>5. Attending(t, next, feed, pc)
    BY <1>2, <2>4, CalmAttends, CreatedNat
  <2> QED BY <2>3, <2>5
<1> HIDE DEF m, u
<1>5. drain'.pending = next
  BY <1>1, <1>2 DEF DrainType
<1>6. t.om = om' /\ t.book = book' /\ t.ord = ord' /\ t.channel = channel'
  BY <1>1 DEF Becomes
<1> QED BY <1>1, <1>2, <1>4, <1>5, <1>6, SliceNext

\* The client matches the current event.
LEMMA EventSlice ==
    ASSUME AlwaysTrading, IInv, SliceNow,
           NEW v \in VerdictsOf(book, ord, {feed.event}, feed.priced, OrderIds),
           NEW done, done = OnEvent(book, ord, feed.event, Now, feed.session, feed.priced, v),
           UNCHANGED <<om, ord, feed>>, book' = done.book,
           channel' = channel \o done.reports, drain'.pending = drain.pending,
           pc \notin {"Finish", "Done"}
    PROVE  SliceNow'
<1> DEFINE s == State(drain.suppressed)
           t == State(drain.suppressed)'
<1>1. s = State(drain.suppressed)
  OBVIOUS
<1>2. t.om = om' /\ t.book = book' /\ t.ord = ord' /\ t.channel = channel'
  BY DEF State
<1> HIDE DEF s, t
<1>3. /\ Good(s, drain.pending, {})
      /\ s.om = om /\ s.book = book /\ s.ord = ord /\ s.channel = channel
      /\ FeedSlices(feed, pc) /\ Attending(s, drain.pending, feed, pc)
      /\ feed.event \in EventType /\ Now = feed.event.ts
  BY <1>1, SliceFacts
<1>4. /\ v \in VerdictsOf(s.book, s.ord, {feed.event}, feed.priced, OrderIds)
      /\ done = OnEvent(s.book, s.ord, feed.event, feed.event.ts, feed.session, feed.priced, v)
  BY <1>3
<1>5. t.om = s.om /\ t.ord = s.ord /\ t.book = done.book /\ t.channel = s.channel \o done.reports
  BY <1>2, <1>3
<1> DEFINE f == feed
<1>6. FeedSlices(f, pc) /\ f.event \in EventType /\ Attending(s, drain.pending, f, pc)
      /\ v \in VerdictsOf(s.book, s.ord, {f.event}, f.priced, OrderIds)
      /\ done = OnEvent(s.book, s.ord, f.event, f.event.ts, f.session, f.priced, v)
  BY <1>3, <1>4
<1> HIDE DEF f
<1>7. \A q : Attending(t, drain.pending, f, q)
  BY <1>3, <1>5, <1>6, MatchAttends
<1>8. f = feed'
  BY DEF f
<1>9. FeedSlices(feed', pc')
  BY <1>3, FeedSlicesOn
<1> QED BY <1>2, <1>7, <1>8, <1>9, SliceNext

LEMMA IntermediateSlice ==
    ASSUME AlwaysTrading, IInv, SliceNow, Draining, IntermediateMatch, UNCHANGED <<om, pc, feed>>
    PROVE  SliceNow'
<1>1. PICK v \in VerdictsOf(book, ord, {feed.event}, feed.priced, OrderIds) :
        LET done == OnEvent(book, ord, feed.event, Now, feed.session, feed.priced, v)
        IN  /\ book' = done.book
            /\ channel' = channel \o done.reports
            /\ drain' = [drain EXCEPT !.intermediate = FALSE, !.settle = TRUE]
            /\ UNCHANGED ord
  BY DEF IntermediateMatch
<1>2. drain'.pending = drain.pending
  BY <1>1 DEF IInv, DrainType
<1>3. pc \notin {"Finish", "Done"}
  BY DEF Draining
<1> DEFINE done == OnEvent(book, ord, feed.event, Now, feed.session, feed.priced, v)
<1>4. /\ done = OnEvent(book, ord, feed.event, Now, feed.session, feed.priced, v)
      /\ book' = done.book /\ channel' = channel \o done.reports /\ ord' = ord
  BY <1>1
<1> HIDE DEF done
<1> QED BY <1>2, <1>3, <1>4, EventSlice

LEMMA RequestsTurnSlice ==
    ASSUME IInv, SliceNow, channel = <<>>, drain.pending # <<>>, RequestsTurn,
           UNCHANGED <<om, pc, feed>>
    PROVE  SliceNow'
<1> DEFINE s == State(drain.suppressed)
           pending == drain.pending
           batch == IF Mixed THEN Reduces ELSE drain.pending
           t == State(drain.suppressed)'
<1>1. PICK risk \in [ToSet(batch) -> Nat \cap UNION {RiskVerdicts(ord[i]) : i \in ToSet(batch)}] :
          /\ \A i \in ToSet(batch) : risk[i] \in RiskVerdicts(ord[i])
          /\ ProcessRequests(batch, risk)
          /\ drain' = [drain EXCEPT
                 !.pending = Waiting,
                 !.intermediate = Mixed /\ PhaseOf("PostExec", ToSet(drain.pending)),
                 !.settle = FALSE]
          /\ UNCHANGED book
  BY DEF RequestsTurn
<1>2. /\ Good(s, pending, {}) /\ drain \in DrainType
      /\ s.om = om /\ s.book = book /\ s.ord = ord /\ s.channel = channel
      /\ FeedSlices(feed, pc) /\ Attending(s, pending, feed, pc) /\ ClientKnown(s)
      /\ feed.last \in Nat /\ Now \in Nat /\ feed.last <= Now
  <2> DEFINE x == s
  <2>1. x = State(drain.suppressed)
    OBVIOUS
  <2> HIDE DEF x
  <2>2. /\ Good(x, pending, {}) /\ drain \in DrainType
        /\ x.om = om /\ x.book = book /\ x.ord = ord /\ x.channel = channel
        /\ FeedSlices(feed, pc) /\ Attending(x, pending, feed, pc) /\ ClientKnown(x)
        /\ feed.last \in Nat /\ Now \in Nat /\ feed.last <= Now
    BY <2>1, SliceFacts
  <2> QED BY <2>2 DEF x
<1>3. pending \in Seq(OrderIds) /\ IsInjective(pending)
  BY <1>2 DEF Good, InOnePlace
<1> HIDE DEF s
<1>4. /\ batch \in Seq(OrderIds) /\ ToSet(batch) \cup ToSet(Waiting) = ToSet(pending)
  <2>1. batch = IF Mixed THEN Reduces ELSE drain.pending
    OBVIOUS
  <2> HIDE DEF batch
  <2> QED BY <1>3, <2>1, BatchFacts
<1> HIDE DEF batch
<1>5. \A i \in ToSet(batch) : risk[i] \in Nat
  BY <1>1
<1>6. channel' = Answers(batch, risk, Now) /\ ord' = Reduced(ord, batch, risk)
  <2>1. /\ channel' = <<>> \o Answers(batch, risk, Now)
        /\ ord' = Reduced(ord, batch, risk)
    BY <1>1 DEF ProcessRequests, Answers, Reduced
  <2>2. Answers(batch, risk, Now) \in Seq({Answers(batch, risk, Now)[k] : k \in DOMAIN batch})
    BY <1>4 DEF Answers
  <2> QED BY <2>1, <2>2
<1>7. drain'.pending = Waiting
  <2>1. \E mid \in BOOLEAN : drain' = [drain EXCEPT !.pending = Waiting, !.intermediate = mid,
                                                    !.settle = FALSE]
    BY <1>1 DEF Mixed
  <2> QED BY <1>2, <2>1 DEF DrainType
<1>8. /\ t.om = s.om /\ t.book = s.book /\ t.channel = Answers(batch, risk, Now)
      /\ t.ord = Reduced(s.ord, batch, risk)
  BY <1>1, <1>2, <1>6 DEF State
<1>9. t.om = om' /\ t.book = book' /\ t.ord = ord' /\ t.channel = channel'
  BY DEF State
<1> HIDE DEF t, pending
<1>10. Calm(s, pending, t, Waiting, Now)
  <2>1. ToSet(batch) \subseteq ToSet(pending) /\ ToSet(Waiting) \subseteq ToSet(pending)
    BY <1>4
  <2> QED BY <1>2, <1>4, <1>5, <1>8, <2>1, AnswerCalm
<1>11. Attending(t, Waiting, feed, pc)
  BY <1>2, <1>10, CalmAttends, CreatedNat
<1>12. FeedSlices(feed', pc')
  BY <1>2
<1> QED BY <1>7, <1>9, <1>11, <1>12, SliceNext

LEMMA TurnSlice ==
    ASSUME AlwaysTrading, IInv, SliceNow, ChannelTurn
    PROVE  SliceNow'
<1>1. /\ Draining /\ channel = <<>> /\ drain.pending # <<>> /\ UNCHANGED <<pc, om, feed>>
      /\ IntermediateMatch \/ RequestsTurn
  BY DEF ChannelTurn
<1> QED BY <1>1, IntermediateSlice, RequestsTurnSlice

\* A stage that sends nothing and in which no order starts.
LEMMA StageSlice ==
    ASSUME IInv, SliceNow, UNCHANGED <<book, ord, channel, feed>>, drain.pending = <<>>,
           drain'.pending = <<>>, pc # "PreExec",
           \A i \in OrderIds : om.status[i] \in Live => om'.status[i] \in Live,
           pc \in {"Finish", "Done"} => pc' \in {"Finish", "Done"}
    PROVE  SliceNow'
<1> DEFINE s == State(drain.suppressed)
           t == State(drain.suppressed)'
<1>1. s = State(drain.suppressed)
  OBVIOUS
<1>2. t.om = om' /\ t.book = book' /\ t.ord = ord' /\ t.channel = channel'
  BY DEF State
<1> HIDE DEF s, t
<1>3. /\ Good(s, <<>>, {}) /\ s.om = om /\ s.book = book /\ s.ord = ord /\ s.channel = channel
      /\ FeedSlices(feed, pc) /\ Attending(s, <<>>, feed, pc) /\ ClientKnown(s)
      /\ feed.last \in Nat /\ Now \in Nat /\ feed.last <= Now
  BY <1>1, SliceFacts
<1>4. ClientKnown(t)
  BY <1>2, <1>3 DEF ClientKnown, Active
<1>5. Calm(s, <<>>, t, <<>>, Now)
  BY <1>2, <1>3, <1>4 DEF Calm, SameTerms, SameMarks, StillWorks, Asked
<1>6. Attending(t, <<>>, feed, pc)
  BY <1>3, <1>5, CalmAttends, CreatedNat
<1>7. Attending(t, <<>>, feed, pc')
  BY <1>6, AttendingOn
<1>8. FeedSlices(feed', pc')
  BY <1>3, FeedSlicesOn
<1> QED BY <1>2, <1>7, <1>8, SliceNext

LEMMA LeaveSlice ==
    ASSUME IInv, SliceNow, ChannelLeave
    PROVE  SliceNow'
<1>1. /\ Draining /\ drain.pending = <<>> /\ drain' = IdleDrain
      /\ pc' = StageAfter(pc) /\ UNCHANGED <<om, book, ord, channel, feed>>
  BY DEF ChannelLeave
<1>2. drain'.pending = <<>>
  BY <1>1, IdleDrainTyped
<1>3. pc # "PreExec" /\ pc \notin {"Finish", "Done"}
  BY <1>1 DEF Draining
<1> QED BY <1>1, <1>2, <1>3, StageSlice

LEMMA CleanupSlice ==
    ASSUME IInv, SliceNow, CleanupStage \/ Finish
    PROVE  SliceNow'
<1>1. /\ om' = Cleanup(om) /\ UNCHANGED <<book, ord, channel, drain, feed>> /\ ~Draining
      /\ pc # "PreExec" /\ (pc \in {"Finish", "Done"} => pc' \in {"Finish", "Done"})
  BY DEF CleanupStage, Finish, Draining
<1>2. drain.pending = <<>> /\ drain'.pending = <<>>
  BY <1>1, IdleFacts
<1>3. \A i \in OrderIds : om.status[i] \in Live => om'.status[i] \in Live
  <2>1. \A i \in OrderIds : om'.status[i] = IF om.status[i] \in Finished THEN Absent ELSE om.status[i]
    BY <1>1, RestFacts, CleanupProperties
  <2> QED BY <2>1, StatusFacts
<1> QED BY <1>1, <1>2, <1>3, StageSlice

LEMMA StutterSlice ==
    ASSUME SliceNow, UNCHANGED vars
    PROVE  SliceNow'
<1>1. /\ drain' = drain /\ feed' = feed /\ pc' = pc
      /\ State(drain.suppressed)' = State(drain.suppressed)
  BY DEF vars, State
<1> QED BY <1>1 DEF SliceNow

\* Where the phase matches nothing, no late order is in the client's book.
LEMMA ExecuteSlice ==
    ASSUME AlwaysTrading, IInv, SliceNow, Execute
    PROVE  SliceNow'
<1>1. /\ pc \in {"PreExec", "PostExec"} /\ UNCHANGED <<om, ord, drain, ledger, feed>>
      /\ ~Draining /\ pc' = StageAfter(pc)
  BY DEF Execute, Draining
<1>2. drain.pending = <<>> /\ drain'.pending = <<>>
  BY <1>1, IdleFacts
<1>3. CASE \E v \in VerdictsOf(book, ord, {feed.event}, feed.priced, OrderIds) :
              LET done == OnEvent(book, ord, feed.event, Now, feed.session, feed.priced, v)
              IN  book' = done.book /\ channel' = channel \o done.reports
  <2>1. PICK v \in VerdictsOf(book, ord, {feed.event}, feed.priced, OrderIds) :
              LET done == OnEvent(book, ord, feed.event, Now, feed.session, feed.priced, v)
              IN  book' = done.book /\ channel' = channel \o done.reports
    BY <1>3
  <2> DEFINE done == OnEvent(book, ord, feed.event, Now, feed.session, feed.priced, v)
  <2>2. /\ done = OnEvent(book, ord, feed.event, Now, feed.session, feed.priced, v)
        /\ book' = done.book /\ channel' = channel \o done.reports
    BY <2>1
  <2> HIDE DEF done
  <2> QED BY <1>1, <1>2, <2>2, EventSlice
<1>4. CASE UNCHANGED <<book, channel>> /\ pc = "PostExec"
  BY <1>1, <1>2, <1>4, StageSlice
<1>5. CASE /\ UNCHANGED <<book, channel>> /\ pc = "PreExec"
           /\ ~PhaseOf("PreExec", {i \in OrderIds : om.status[i] # Absent})
  <2> DEFINE s == State(drain.suppressed)
             t == State(drain.suppressed)'
  <2>1. s = State(drain.suppressed)
    OBVIOUS
  <2>2. t.om = s.om /\ t.book = s.book /\ t.ord = s.ord /\ t.channel = s.channel
        /\ t.om = om' /\ t.book = book' /\ t.ord = ord' /\ t.channel = channel'
    BY <1>1, <1>5 DEF State
  <2> HIDE DEF s, t
  <2>3. /\ s.om = om /\ s.ord = ord /\ FeedSlices(feed, pc)
        /\ Attending(s, <<>>, feed, pc) /\ ClientKnown(s)
    BY <1>2, <2>1, SliceFacts
  <2>4. \A i \in OrderIds : om.status[i] # Absent => ord[i].offset # 1
    <3>1. "PreExec" = "PreExec"
      OBVIOUS
    <3> QED BY <1>5 DEF PhaseOf, PhaseFor
  <2>5. \A i \in OrderIds : i \in Active(s.book) => s.ord[i].offset # 1
    <3>1. \A i \in OrderIds : i \in Active(s.book) => s.om.status[i] # Absent
      BY <2>3, StatusFacts DEF ClientKnown
    <3> QED BY <2>3, <2>4, <3>1
  <2>6. Attended(s, feed, pc')
    <3> SUFFICES ASSUME Open(feed), NEW i \in OrderIds, Untouched(s, feed, i)
                 PROVE  Cared(s, feed, pc', i)
      BY DEF Attended
    <3>1. Cared(s, feed, pc, i) /\ s.ord[i].offset # 1
      BY <2>3, <2>5 DEF Attending, Attended, Untouched
    <3> QED BY <3>1 DEF Cared
  <2>7. Attending(s, <<>>, feed, pc')
    BY <2>3, <2>6 DEF Attending
  <2> DEFINE f == feed
             q == pc'
  <2>8. Attending(s, <<>>, f, q)
    BY <2>7
  <2> HIDE DEF f, q
  <2>9. Attending(t, <<>>, f, q)
    BY <2>2, <2>8 DEF Attending, ClientKnown, MarksSound, LateAsked, Attended, Asked, Untouched, Cared
  <2>10. FeedSlices(f, q)
    BY <1>1, <2>3, FeedSlicesOn DEF f
  <2>11. f = feed'
    BY <1>1 DEF f
  <2>12. FeedSlices(feed', pc') /\ Attending(t, drain'.pending, feed', pc')
    BY <1>2, <2>9, <2>10, <2>11 DEF q
  <2> QED BY <2>2, <2>12, SliceNext
<1>6. \/ \E v \in VerdictsOf(book, ord, {feed.event}, feed.priced, OrderIds) :
              LET done == OnEvent(book, ord, feed.event, Now, feed.session, feed.priced, v)
              IN  book' = done.book /\ channel' = channel \o done.reports
      \/ UNCHANGED <<book, channel>> /\ ~PhaseOf(pc, {i \in OrderIds : om.status[i] # Absent})
  BY DEF Execute
<1>7. pc = "PostExec" \/ pc = "PreExec"
  BY <1>1
<1> QED BY <1>3, <1>4, <1>5, <1>6, <1>7
-----------------------------------------------------------------------------
\* At the data stage nothing is on its way.
LEMMA RestSlice ==
    ASSUME IInv, SliceNow, pc = "Data", NEW s, s = State({})
    PROVE  /\ Good(s, <<>>, {}) /\ s.channel = <<>>
           /\ s.book = book /\ s.ord = ord /\ s.om = om
           /\ Attending(s, <<>>, feed, "Data") /\ ClientKnown(s)
           /\ ~SliceOpen => Rested(s)
<1>1. ~Draining /\ channel = <<>>
  BY DEF IInv, StageSound, Draining
<1>2. drain.suppressed = {} /\ drain.pending = <<>>
  BY <1>1, IdleFacts
<1>3. s = State(drain.suppressed)
  BY <1>2
<1>4. /\ Good(s, <<>>, {}) /\ s.channel = <<>> /\ s.book = book /\ s.ord = ord /\ s.om = om
      /\ Attending(s, <<>>, feed, "Data") /\ ClientKnown(s)
  BY <1>1, <1>2, <1>3, SliceFacts
<1>5. ASSUME ~SliceOpen PROVE Rested(s)
  <2>1. \A i \in OrderIds : ~Asked(s, <<>>, i)
    BY <1>4 DEF Asked, ToSet
  <2>2. Marked(s.book) = {}
    BY <1>4, <1>5 DEF Attending, MarksSound, SliceOpen, Open
  <2> QED BY <1>4, <2>1, <2>2 DEF Rested, LateAsked
<1> QED BY <1>4, <1>5

\* The end of a slice.
LEMMA FinalizeRests ==
    ASSUME IInv, SliceNow, pc = "Data", NEW v \in FinalVerdicts, NEW t, t = Finalize(v)
    PROVE  /\ Good(t, <<>>, {}) /\ Rested(t)
           /\ SliceOpen => DueServed(t)
<1> DEFINE s == State({})
<1>1. /\ Good(s, <<>>, {}) /\ s.channel = <<>> /\ s.book = book /\ s.ord = ord
      /\ Attending(s, <<>>, feed, "Data") /\ (~SliceOpen => Rested(s))
  <2>1. s = State({})
    OBVIOUS
  <2> HIDE DEF s
  <2> QED BY <2>1, RestSlice
<1>2. feed.last \in Nat /\ feed \in FeedType /\ BarsSound(feed.bars, feed.last)
      /\ FeedSlices(feed, "Data")
  BY DEF IInv, FeedSound, FeedType, SliceNow
<1>3. s.ledger.unbooked = None
  <2>1. ~Draining
    BY DEF Draining
  <2> QED BY <2>1, IdleFacts DEF State
<1>4. Good(t, <<>>, {})
  BY FinalizeKeeps
<1> HIDE DEF s
<1>5. CASE SliceOpen
  <2> DEFINE u == LastMatch(s, v)
  <2>1. t = RejectMissing(u) /\ u = LastMatch(s, v)
    BY <1>5 DEF Finalize, s
  <2> HIDE DEF u
  <2>2. Good(u, <<>>, {})
    BY <1>1, <1>2, <1>3, <1>5, <2>1, LastMatchKeeps
  <2>3. Rested(u) /\ DueServed(u)
    BY <1>1, <1>2, <1>5, <2>1, LastMatchRests
  <2>4. IdleAlways(u, t)
    BY <1>2, <2>1, <2>2, <2>3, RejectMissingIdle DEF Rested
  <2> QED BY <1>4, <2>2, <2>3, <2>4, IdleRests
<1>6. CASE ~SliceOpen
  <2>1. t = s
    BY <1>6 DEF Finalize, s
  <2> QED BY <1>1, <1>4, <1>6, <2>1
<1> QED BY <1>5, <1>6

\* A slice starts with a bar, or goes on with that of another symbol.
LEMMA BarSlices ==
    ASSUME NEW f, NEW g, NEW ts \in Nat \ {0}, NEW sym, NEW traded \in BOOLEAN, NEW e,
           e.kind = "Bar", e.sym = sym, e.ts = ts, e.traded = traded,
           f.tradable \subseteq f.seen, f.finalized \in Nat, f.finalized < ts, sym \notin f.seen,
           \A y \in f.tradable : \E x \in f.bars : x.sym = y /\ x.traded,
           g.last = ts, g.finalized = f.finalized, g.seen = f.seen \cup {sym},
           g.tradable = (IF traded THEN f.tradable \cup {sym} ELSE f.tradable),
           g.bars = f.bars \cup {e}, g.event = e, g.session \in Sessions, NEW p
    PROVE  FeedSlices(g, p) /\ Open(g)
<1>1. Open(g) /\ g.finalized <= g.last /\ g.last # 0
  BY DEF Open
<1>2. g.event.sym \in g.tradable => g.event.traded
  OBVIOUS
<1>3. \A y \in g.tradable : \E x \in g.bars : x.sym = y /\ x.traded
  OBVIOUS
<1>4. g.bars # {} /\ g.tradable \subseteq g.seen
  OBVIOUS
<1>5. g.event.kind = "Bar" /\ g.event.ts = g.last /\ g.event.sym \in g.seen
  OBVIOUS
<1> QED BY <1>1, <1>2, <1>3, <1>4, <1>5 DEF FeedSlices

\* In a new slice nothing is marked.
LEMMA RestedAttends ==
    ASSUME NEW t, Rested(t), NEW g, g.last \in Nat, NEW p,
           Open(g) => p = "PreExec" /\ g.tradable \subseteq {g.event.sym}
    PROVE  Attending(t, <<>>, g, p)
<1>1. \A i \in OrderIds : i \notin t.book.attempted
  BY DEF Rested, Marked
<1>2. Attended(t, g, p)
  BY <1>1 DEF Attended, Untouched, Cared
<1>3. MarksSound(t, <<>>, g)
  BY DEF Rested, MarksSound
<1> QED BY <1>2, <1>3 DEF Rested, Attending

\* In the same slice nothing is marked of a symbol not seen.
LEMMA SameSliceAttends ==
    ASSUME NEW s, NEW f, Attending(s, <<>>, f, "Data"), Open(f), NEW g, g.last = f.last,
           g.finalized = f.finalized, NEW sym, sym \notin f.seen, g.seen = f.seen \cup {sym},
           g.tradable \subseteq f.tradable \cup {sym}, g.event.sym = sym
    PROVE  Attending(s, <<>>, g, "PreExec")
<1>1. Open(g)
  BY DEF Open
<1>2. ClientKnown(s) /\ LateAsked(s, <<>>, g.last) /\ MarksSound(s, <<>>, f) /\ Attended(s, f, "Data")
  BY DEF Attending
<1>3. MarksSound(s, <<>>, g)
  BY <1>1, <1>2 DEF MarksSound
<1>4. Attended(s, g, "PreExec")
  <2> SUFFICES ASSUME NEW i \in OrderIds, Untouched(s, g, i)
               PROVE  Cared(s, g, "PreExec", i)
    BY DEF Attended
  <2>1. CASE s.ord[i].sym = sym
    <3>1. i \notin s.book.attempted
      BY <1>2, <2>1 DEF MarksSound, Marked
    <3> QED BY <2>1, <3>1 DEF Cared
  <2>2. CASE s.ord[i].sym # sym
    <3>1. Untouched(s, f, i)
      BY <2>2 DEF Untouched
    <3>2. Cared(s, f, "Data", i)
      BY <1>2, <3>1 DEF Attended
    <3> QED BY <3>2 DEF Cared
  <2> QED BY <2>1, <2>2
<1> QED BY <1>2, <1>3, <1>4 DEF Attending

\* The data stage becomes t.
LEMMA BecomesSlice ==
    ASSUME IInv, pc = "Data", NEW t, Becomes(t), drain' = drain,
           FeedSlices(feed', pc'), Attending(t, <<>>, feed', pc')
    PROVE  SliceNow'
<1>1. drain'.pending = <<>>
  <2>1. ~Draining
    BY DEF Draining
  <2> QED BY <2>1, IdleFacts
<1>2. t.om = om' /\ t.book = book' /\ t.ord = ord' /\ t.channel = channel'
  BY DEF Becomes
<1>3. Attending(t, drain'.pending, feed', pc')
  BY <1>1
<1> QED BY <1>2, <1>3, SliceNext

\* What was due in the slice that ends has traded in t.
LEMMA ServedStep ==
    ASSUME NEW t, Becomes(t), DueServed(t)
    PROVE  \A i \in OrderIds : Due(i, feed.last) /\ book'.status[i] \in Live => book'.filled[i] > 0
BY DEF Becomes, DueServed, Active

LEMMA DataBarSlice ==
    ASSUME IInv, SliceNow, NEW sym \in Symbols, NEW ts \in Times, NEW traded \in BOOLEAN,
           NEW session \in Sessions, DataBar(sym, ts, traded, session)
    PROVE  /\ SliceNow'
           /\ feed'.finalized # feed.finalized =>
                 \A i \in OrderIds : Due(i, feed.last) /\ book'.status[i] \in Live
                                        => book'.filled[i] > 0
<1> DEFINE newSlice == feed.last # 0 /\ ts > feed.last
           f == IF newSlice
                THEN [FinalizedFeed EXCEPT !.seen = {}, !.tradable = {}, !.bars = {}]
                ELSE feed
           bar == [kind |-> "Bar", sym |-> sym, ts |-> ts, traded |-> traded]
           g == feed'
<1>1. PICK v \in IF ts > feed.last THEN FinalVerdicts ELSE {<<>>} :
        LET s == IF newSlice THEN Finalize(v) ELSE State({})
        IN  /\ Becomes(IF DateOf[ts] = feed.date THEN s ELSE SettleDay(s))
            /\ g = [f EXCEPT !.last = ts, !.date = DateOf[ts],
                             !.seen = @ \cup {sym},
                             !.tradable = IF traded THEN @ \cup {sym} ELSE @,
                             !.bars = @ \cup {bar},
                             !.event = bar, !.session = session]
  BY DEF DataBar
<1>2. /\ pc = "Data" /\ drain' = drain /\ ts >= Now /\ pc' = "PreExec"
      /\ (ts = feed.last => sym \notin feed.seen) /\ ts \in Nat \ {0}
  BY StageNames, TimesAssumption DEF DataBar
<1>3. /\ feed \in FeedType /\ FeedSlices(feed, "Data") /\ feed.last \in Nat /\ feed.last <= Now
      /\ Now \in Nat /\ feed.finalized \in Nat /\ Now = feed.event.ts
  BY <1>2 DEF IInv, FeedSound, FeedType, EventType, Now, SliceNow
<1> DEFINE s == IF newSlice THEN Finalize(v) ELSE State({})
           t == IF DateOf[ts] = feed.date THEN s ELSE SettleDay(s)
<1>4. Becomes(t)
  BY <1>1
<1>5. /\ Good(s, <<>>, {}) /\ ClientKnown(s)
      /\ newSlice \/ ~SliceOpen => Rested(s)
      /\ newSlice /\ SliceOpen => DueServed(s)
      /\ ~newSlice => Attending(s, <<>>, feed, "Data")
  <2>1. CASE newSlice
    <3>1. v \in FinalVerdicts /\ s = Finalize(v)
      BY <1>1, <2>1
    <3> HIDE DEF s
    <3> QED BY <1>2, <2>1, <3>1, FinalizeRests DEF Rested
  <2>2. CASE ~newSlice
    <3>1. s = State({})
      BY <2>2
    <3> HIDE DEF s
    <3> QED BY <1>2, <2>2, <3>1, RestSlice
  <2> QED BY <2>1, <2>2
<1>6. /\ f \in FeedType
      /\ f.finalized = IF newSlice /\ SliceOpen THEN feed.last ELSE feed.finalized
      /\ newSlice => f.seen = {} /\ f.tradable = {} /\ f.bars = {}
  <2>1. CASE newSlice
    <3>1. f = [FinalizedFeed EXCEPT !.seen = {}, !.tradable = {}, !.bars = {}]
      BY <2>1
    <3>2. /\ FinalizedFeed \in FeedType
          /\ FinalizedFeed.finalized = IF SliceOpen THEN feed.last ELSE feed.finalized
      BY <1>3 DEF FinalizedFeed, FeedType
    <3> HIDE DEF f, newSlice
    <3> QED BY <2>1, <3>1, <3>2 DEF FeedType
  <2>2. CASE ~newSlice
    BY <1>3, <2>2
  <2> QED BY <2>1, <2>2
<1>7. /\ g.last = ts /\ g.finalized = f.finalized /\ g.seen = f.seen \cup {sym}
      /\ g.tradable = (IF traded THEN f.tradable \cup {sym} ELSE f.tradable)
      /\ g.bars = f.bars \cup {bar} /\ g.event = bar /\ g.session = session
  <2>1. \E date : g = [f EXCEPT !.last = ts, !.date = date,
                             !.seen = f.seen \cup {sym},
                             !.tradable = IF traded THEN f.tradable \cup {sym} ELSE f.tradable,
                             !.bars = f.bars \cup {bar},
                             !.event = bar, !.session = session]
    <3> HIDE DEF bar, f, g
    <3> QED BY <1>1
  <2> HIDE DEF bar, f, g
  <2> QED BY <1>6, <2>1 DEF FeedType
<1>8. bar.kind = "Bar" /\ bar.sym = sym /\ bar.ts = ts /\ bar.traded = traded
  OBVIOUS
<1> HIDE DEF s, f, bar
<1>9. CASE newSlice
  <2>1. f.finalized \in Nat /\ f.finalized < ts
    BY <1>2, <1>3, <1>6, <1>9 DEF FeedSlices
  <2>2. FeedSlices(g, "PreExec") /\ Open(g)
    <3>1. /\ f.tradable \subseteq f.seen /\ sym \notin f.seen
          /\ \A y \in f.tradable : \E x \in f.bars : x.sym = y /\ x.traded
      BY <1>6, <1>9
    <3> HIDE DEF g
    <3> QED BY <1>2, <1>7, <1>8, <2>1, <3>1, BarSlices
  <2>3. Rested(t) /\ (SliceOpen => DueServed(t))
    <3>1. CASE DateOf[ts] = feed.date
      BY <1>5, <1>9, <3>1
    <3>2. CASE DateOf[ts] # feed.date
      <4>1. t = SettleDay(s)
        BY <3>2
      <4> HIDE DEF t
      <4>2. IdleAlways(s, t)
        BY <1>5, <4>1, SettleIdle
      <4> QED BY <1>5, <1>9, <4>2, IdleRests
    <3> QED BY <3>1, <3>2
  <2> HIDE DEF t
  <2>4. Attending(t, <<>>, g, "PreExec")
    <3>1. g.tradable \subseteq {g.event.sym} /\ g.last \in Nat
      BY <1>2, <1>6, <1>7, <1>8, <1>9
    <3> HIDE DEF g
    <3> QED BY <2>3, <3>1, RestedAttends
  <2>5. SliceNow'
    BY <1>2, <1>4, <2>2, <2>4, BecomesSlice
  <2>6. feed'.finalized # feed.finalized => SliceOpen
    BY <1>6, <1>7
  <2> QED BY <1>4, <2>3, <2>5, <2>6, ServedStep
<1>10. CASE ~newSlice /\ feed.last = 0
  <2>1. ~SliceOpen /\ f = feed /\ f.tradable = {} /\ f.seen = {} /\ f.finalized <= 0
    BY <1>3, <1>10 DEF SliceOpen, FeedSlices, f
  <2>2. FeedSlices(g, "PreExec") /\ Open(g)
    <3>1. f.finalized \in Nat /\ f.finalized < ts
      BY <1>2, <1>3, <2>1
    <3>2. /\ f.tradable \subseteq f.seen /\ sym \notin f.seen
          /\ \A y \in f.tradable : \E x \in f.bars : x.sym = y /\ x.traded
      BY <2>1
    <3> HIDE DEF g
    <3> QED BY <1>2, <1>7, <1>8, <3>1, <3>2, BarSlices
  <2>3. Rested(t)
    <3>1. CASE DateOf[ts] = feed.date
      BY <1>5, <2>1, <3>1
    <3>2. CASE DateOf[ts] # feed.date
      <4>1. t = SettleDay(s)
        BY <3>2
      <4> HIDE DEF t
      <4>2. IdleAlways(s, t)
        BY <1>5, <4>1, SettleIdle
      <4> QED BY <1>5, <2>1, <4>2, IdleRests
    <3> QED BY <3>1, <3>2
  <2> HIDE DEF t
  <2>4. Attending(t, <<>>, g, "PreExec")
    <3>1. g.tradable \subseteq {g.event.sym} /\ g.last \in Nat
      BY <1>2, <1>7, <1>8, <2>1
    <3> HIDE DEF g
    <3> QED BY <2>3, <3>1, RestedAttends
  <2>5. SliceNow'
    BY <1>2, <1>4, <2>2, <2>4, BecomesSlice
  <2>6. feed'.finalized = feed.finalized
    BY <1>7, <2>1
  <2> QED BY <2>5, <2>6
<1>11. CASE ~newSlice /\ feed.last # 0
  <2>1. ts = feed.last
    BY <1>2, <1>3, <1>11
  <2>2. Open(feed) /\ f = feed /\ sym \notin feed.seen
    BY <1>2, <1>3, <1>11, <2>1 DEF FeedSlices, f
  <2>3. FeedSlices(g, "PreExec") /\ Open(g)
    <3>1. f.finalized \in Nat /\ f.finalized < ts
      BY <1>2, <1>3, <2>1, <2>2 DEF FeedSlices, Open
    <3>2. /\ f.tradable \subseteq f.seen /\ sym \notin f.seen
          /\ \A y \in f.tradable : \E x \in f.bars : x.sym = y /\ x.traded
      BY <1>3, <2>2 DEF FeedSlices
    <3> HIDE DEF g
    <3> QED BY <1>2, <1>7, <1>8, <3>1, <3>2, BarSlices
  <2>4. Attending(s, <<>>, g, "PreExec")
    <3>1. g.last = feed.last /\ g.finalized = feed.finalized /\ g.seen = feed.seen \cup {sym}
          /\ g.tradable \subseteq feed.tradable \cup {sym} /\ g.event.sym = sym
      BY <1>7, <1>8, <2>1, <2>2
    <3> HIDE DEF g
    <3> QED BY <1>5, <1>11, <2>2, <3>1, SameSliceAttends
  <2>5. Attending(t, <<>>, g, "PreExec")
    <3>1. CASE DateOf[ts] = feed.date
      BY <2>4, <3>1
    <3>2. CASE DateOf[ts] # feed.date
      <4>1. t = SettleDay(s)
        BY <3>2
      <4> HIDE DEF t
      <4>2. Calm(s, <<>>, t, <<>>, ts)
        <5>1. IdleAlways(s, t)
          BY <1>5, <4>1, SettleIdle
        <5> QED BY <1>2, <5>1 DEF IdleAlways, Idle
      <4>3. g.last \in Nat /\ g.last <= ts /\ ts \in Nat
        BY <1>2, <1>7
      <4> HIDE DEF g
      <4> QED BY <1>5, <2>4, <4>2, <4>3, CalmAttends, CreatedNat
    <3> QED BY <3>1, <3>2
  <2> HIDE DEF t
  <2>6. SliceNow'
    BY <1>2, <1>4, <2>3, <2>5, BecomesSlice
  <2>7. feed'.finalized = feed.finalized
    BY <1>7, <2>2
  <2> QED BY <2>6, <2>7
<1> QED BY <1>9, <1>10, <1>11
-----------------------------------------------------------------------------
\* A timer ends the slice.
LEMMA DataTimerSlice ==
    ASSUME IInv, SliceNow, NEW session \in Sessions, DataTimer(session)
    PROVE  /\ SliceNow'
           /\ feed'.finalized # feed.finalized =>
                 \A i \in OrderIds : Due(i, feed.last) /\ book'.status[i] \in Live
                                        => book'.filled[i] > 0
<1> DEFINE at == Min(feed.timers)
           ends == TimerEndsSlice(at)
           e == [kind |-> "Timer", sym |-> 0, ts |-> at, traded |-> FALSE]
           g == feed'
<1>1. PICK v \in IF ends THEN FinalVerdicts ELSE {<<>>} :
         /\ Becomes(IF ends THEN Finalize(v) ELSE State({}))
         /\ g = [IF ends THEN FinalizedFeed ELSE feed EXCEPT
                !.timers = TimersPopped(at), !.session = session, !.event = e]
  BY DEF DataTimer
<1>2. pc = "Data" /\ feed.timers # {} /\ pc' = "PreExec" /\ drain' = drain
  BY StageNames DEF DataTimer
<1>3. FeedSound /\ feed \in FeedType /\ FeedSlices(feed, "Data") /\ feed.last \in Nat
  BY <1>2 DEF IInv, FeedSound, FeedType, SliceNow
<1>4. at \in feed.timers /\ at \in Nat /\ feed.last < at
  <2>1. feed.timers \in SUBSET Nat
    BY <1>3, TimesAssumption DEF FeedType
  <2>2. \E x \in feed.timers : \A y \in feed.timers : x <= y
    BY <1>2, <2>1, LeastElement
  <2>3. at \in feed.timers
    BY <1>2, <2>1, <2>2 DEF Min
  <2> QED BY <1>3, <2>1, <2>3 DEF FeedSound
<1>5. ends
  BY <1>3, <1>4 DEF TimerEndsSlice
<1> HIDE DEF at, ends
<1> DEFINE t == Finalize(v)
<1>6. v \in FinalVerdicts /\ Becomes(t)
  BY <1>1, <1>5
<1>7. Rested(t) /\ (SliceOpen => DueServed(t))
  <2>1. t = Finalize(v)
    OBVIOUS
  <2> HIDE DEF t
  <2> QED BY <1>2, <1>6, <2>1, FinalizeRests
<1> HIDE DEF t
<1>8. /\ g.last = feed.last /\ g.event = e
      /\ g.finalized = IF SliceOpen THEN feed.last ELSE feed.finalized
      /\ g.seen = feed.seen /\ g.tradable = feed.tradable
  <2> DEFINE f == FinalizedFeed
             p == TimersPopped(at)
  <2>1. g = [f EXCEPT !.timers = p, !.session = session, !.event = e]
    BY <1>1, <1>5
  <2>2. /\ f \in FeedType /\ f.last = feed.last /\ f.seen = feed.seen
        /\ f.tradable = feed.tradable
        /\ f.finalized = IF SliceOpen THEN feed.last ELSE feed.finalized
    BY <1>3 DEF FinalizedFeed, FeedType
  <2> HIDE DEF e, f, p, g
  <2> QED BY <2>1, <2>2 DEF FeedType
<1>9. e.kind = "Timer" /\ e.ts = at
  OBVIOUS
<1> HIDE DEF e, g
<1>10. ~Open(g)
  BY <1>8 DEF Open, SliceOpen
<1>11. FeedSlices(g, "PreExec")
  <2>1. g.finalized <= g.last
    BY <1>3, <1>8 DEF FeedSlices
  <2>2. g.last = 0 => g.seen = {} /\ g.tradable = {}
    BY <1>3, <1>8 DEF FeedSlices
  <2> QED BY <1>4, <1>8, <1>9, <1>10, <2>1, <2>2 DEF FeedSlices
<1>12. Attending(t, <<>>, g, "PreExec")
  BY <1>3, <1>7, <1>8, <1>10, RestedAttends
<1>13. SliceNow'
  BY <1>2, <1>6, <1>11, <1>12, BecomesSlice DEF g
<1>14. feed'.finalized # feed.finalized => SliceOpen
  BY <1>8 DEF g
<1> QED BY <1>6, <1>7, <1>13, <1>14, ServedStep

\* So does the end of the feed.
LEMMA DataEndSlice ==
    ASSUME IInv, SliceNow, DataEnd
    PROVE  /\ SliceNow'
           /\ feed'.finalized # feed.finalized =>
                 \A i \in OrderIds : Due(i, feed.last) /\ book'.status[i] \in Live
                                        => book'.filled[i] > 0
<1>1. PICK v \in FinalVerdicts : Becomes(Finalize(v))
  BY DEF DataEnd
<1>2. pc = "Data" /\ pc' = "Finish" /\ drain' = drain /\ feed' = FinalizedFeed
  BY DEF DataEnd
<1> DEFINE t == Finalize(v)
           g == feed'
<1>3. t = Finalize(v) /\ Becomes(t)
  BY <1>1
<1> HIDE DEF t
<1>4. Rested(t) /\ (SliceOpen => DueServed(t))
  BY <1>2, <1>3, FinalizeRests
<1>5. feed \in FeedType /\ FeedSlices(feed, "Data") /\ feed.last \in Nat
  BY <1>2 DEF IInv, FeedSound, FeedType, SliceNow
<1>6. /\ g.last = feed.last /\ g.seen = feed.seen /\ g.tradable = feed.tradable
      /\ g.finalized = IF SliceOpen THEN feed.last ELSE feed.finalized
  BY <1>2, <1>5 DEF FinalizedFeed, FeedType
<1> HIDE DEF g
<1>7. ~Open(g)
  BY <1>6 DEF Open, SliceOpen
<1>8. FeedSlices(g, "Finish")
  <2>1. g.finalized <= g.last
    BY <1>5, <1>6 DEF FeedSlices
  <2>2. g.last = 0 => g.seen = {} /\ g.tradable = {}
    BY <1>5, <1>6 DEF FeedSlices
  <2> QED BY <1>7, <2>1, <2>2 DEF FeedSlices
<1>9. Attending(t, <<>>, g, "Finish")
  BY <1>4, <1>5, <1>6, <1>7, RestedAttends
<1>10. SliceNow'
  BY <1>2, <1>3, <1>8, <1>9, BecomesSlice DEF g
<1>11. feed'.finalized # feed.finalized => SliceOpen
  BY <1>6 DEF g
<1> QED BY <1>3, <1>4, <1>10, <1>11, ServedStep

\* The orders of a callback are created now.
LEMMA StrategySlice ==
    ASSUME IInv, SliceNow, Strategy
    PROVE  SliceNow'
<1>1. /\ pc = "Strategy" /\ ~Draining /\ drain' = drain /\ channel = <<>>
      /\ feed' = [feed EXCEPT !.priced = IF feed.event.kind = "Bar"
                                         THEN @ \cup {feed.event.sym} ELSE @]
  BY DEF Strategy, Draining, IInv, StageSound
<1>2. PICK m \in Moves, S \in SUBSET {i \in OrderIds : om.status[i] \in Live} :
         Room(m) /\ Callback(m, S)
  BY DEF Strategy
<1> DEFINE s == State(drain.suppressed)
           t == State(drain.suppressed)'
           n == Cardinality(Used(ord))
           bound == LinkOrders(m, n)
           b == OnCancel(book, S)
<1>3. /\ s.book = book /\ s.om = om /\ s.ord = ord /\ s.channel = channel
      /\ Good(s, drain.pending, {}) /\ ClientKnown(s) /\ FeedSlices(feed, pc)
      /\ Attending(s, drain.pending, feed, pc) /\ feed.last \in Nat /\ Now \in Nat
      /\ feed.last <= Now /\ feed \in FeedType
  <2> DEFINE x == s
  <2>1. x = State(drain.suppressed)
    OBVIOUS
  <2> HIDE DEF x
  <2>2. /\ x.book = book /\ x.om = om /\ x.ord = ord /\ x.channel = channel
        /\ Good(x, drain.pending, {}) /\ ClientKnown(x) /\ FeedSlices(feed, pc)
        /\ Attending(x, drain.pending, feed, pc) /\ feed.last \in Nat /\ Now \in Nat
        /\ feed.last <= Now /\ feed \in FeedType
    BY <2>1, SliceFacts
  <2> QED BY <2>2 DEF x
<1>4. t.om = om' /\ t.book = book' /\ t.ord = ord' /\ t.channel = channel'
  BY DEF State
<1> HIDE DEF s, t
<1>5. ord' = WithNew(m, n) /\ om' = CancelEach(bound, S) /\ book' = b
  BY <1>2 DEF Callback, WithNew
<1>6. /\ n \in Nat /\ n + Len(m.orders) <= Cardinality(OrderIds)
      /\ Used(ord) = 1 .. n /\ ord \in [OrderIds -> Order \cup {NoOrder}]
  <2>1. n = Cardinality(Used(ord)) /\ Room(m)
    BY <1>2
  <2> HIDE DEF n
  <2> QED BY <2>1, RoomLeft
<1>7. \A d \in ToSet(channel') :
              d.kind # "Report" => \E k \in DOMAIN m.orders : d.id = n + k
  BY <1>1, <1>2, CallbackSends
<1> HIDE DEF n
<1>8. m.orders \in Seq(Order) /\ om \in RegistryType /\ Len(m.orders) \in Nat
  BY MovesAssumption, RestFacts
<1>9. \A i \in OrderIds : IF i \in n + 1 .. n + Len(m.orders)
                          THEN ord'[i] \in Order /\ ord'[i].created = Now
                          ELSE ord'[i] = ord[i]
  <2> DEFINE new == WithNew(m, n)
  <2>1. new = WithNew(m, n)
    OBVIOUS
  <2> HIDE DEF new
  <2>2. \A i \in OrderIds : IF i \in n + 1 .. n + Len(m.orders)
                            THEN new[i] \in Order /\ new[i].created = Now
                            ELSE new[i] = ord[i]
    BY <1>3, <1>6, <1>8, <2>1, CallbackOrders
  <2> QED BY <1>5, <2>1, <2>2
<1>10. \A i \in OrderIds : om'.status[i] = IF i \in S /\ om.status[i] \in Live THEN "Cancelled"
                                           ELSE om.status[i]
  <2>1. bound = LinkOrders(m, n)
    OBVIOUS
  <2> HIDE DEF bound
  <2>2. bound \in RegistryType /\ bound.status = om.status
    BY <1>6, <1>8, <2>1, LinkOrdersProperties
  <2> DEFINE r == CancelEach(bound, S)
  <2>3. r = CancelEach(bound, S)
    OBVIOUS
  <2> HIDE DEF r
  <2>4. r.status = [j \in OrderIds |-> IF j \in S /\ bound.status[j] \in Live
                                       THEN "Cancelled" ELSE bound.status[j]]
    BY <2>2, <2>3, CancelEachLoosens
  <2> QED BY <1>5, <2>2, <2>3, <2>4
<1> HIDE DEF bound
<1>11. /\ Active(book') = Active(book) \ S /\ book'.filled = book.filled
       /\ SameMarks(book, book')
  <2>1. book \in BookType
    BY <1>3 DEF Good, StateType
  <2> QED BY <1>5, <2>1, OnCancelProperties DEF SameMarks
<1> HIDE DEF b
<1>12. \A i \in OrderIds : i \in n + 1 .. n + Len(m.orders) => ord[i] \notin Order
  <2> SUFFICES ASSUME NEW i \in OrderIds, i \in n + 1 .. n + Len(m.orders), ord[i] \in Order
               PROVE  FALSE
    OBVIOUS
  <2>1. i \in 1 .. n
    BY <1>6, NoOrderAssumption DEF Used
  <2> QED BY <1>6, <1>8, <2>1
<1>13. SameTerms(s, t)
  BY <1>3, <1>4, <1>9, <1>12 DEF SameTerms
<1>14. ClientKnown(t)
  BY <1>3, <1>4, <1>10, <1>11 DEF ClientKnown, Active
<1>15. \A i \in Active(t.book) : StillWorks(s.book, t.book, i)
  BY <1>3, <1>4, <1>11 DEF StillWorks
<1>16. drain.pending = <<>> /\ drain'.pending = <<>>
  BY <1>1, IdleFacts
<1>17. ASSUME NEW i \in OrderIds, Asked(t, <<>>, i)
       PROVE  NewOrder(s, t, i, Now)
  <2>1. PICK d \in ToSet(channel') : d.id = i /\ d.kind # "Report"
    BY <1>4, <1>17 DEF Asked, ToSet
  <2>2. PICK k \in DOMAIN m.orders : i = n + k
    BY <1>7, <2>1
  <2>3. k \in 1 .. Len(m.orders)
    BY <1>8
  <2>4. i \in n + 1 .. n + Len(m.orders)
    BY <1>6, <1>8, <2>2, <2>3
  <2>5. ord[i] \notin Order /\ ord'[i] \in Order /\ ord'[i].created = Now
    BY <1>9, <1>12, <2>4
  <2>6. ord'[i].created >= Now
    BY <1>3, <2>5
  <2> QED BY <1>3, <1>4, <2>5, <2>6 DEF NewOrder
<1>18. Calm(s, <<>>, t, <<>>, Now)
  BY <1>3, <1>4, <1>11, <1>13, <1>14, <1>15, <1>17 DEF Calm
<1>19. Attending(t, <<>>, feed, pc)
  BY <1>3, <1>16, <1>18, CalmAttends, CreatedNat
<1> DEFINE g == feed'
<1>20. /\ g.last = feed.last /\ g.finalized = feed.finalized /\ g.seen = feed.seen
       /\ g.tradable = feed.tradable /\ g.bars = feed.bars /\ g.event = feed.event
       /\ g.session = feed.session
  <2> DEFINE p == IF feed.event.kind = "Bar" THEN feed.priced \cup {feed.event.sym} ELSE feed.priced
  <2>1. g = [feed EXCEPT !.priced = p]
    BY <1>1
  <2> HIDE DEF p, g
  <2> QED BY <1>3, <2>1 DEF FeedType
<1> HIDE DEF g
<1>21. pc # "PreExec" /\ pc \notin {"Finish", "Done"}
  BY <1>1
<1>22. \A q : Attending(t, <<>>, g, q)
  BY <1>19, <1>20, <1>21, AttendingOn
<1>23. \A q : FeedSlices(g, q)
  BY <1>3, <1>20, <1>21, FeedSlicesOn
<1>24. FeedSlices(feed', pc') /\ Attending(t, drain'.pending, feed', pc')
  BY <1>16, <1>22, <1>23 DEF g
<1> QED BY <1>4, <1>24, SliceNext

-----------------------------------------------------------------------------
\* Every step keeps the orders of the slice attended; one that ends the slice leaves
\* nothing due in it untouched.
LEMMA StepSlice ==
    ASSUME AlwaysTrading, IInv, SliceNow, [Next]_vars
    PROVE  /\ SliceNow'
           /\ feed'.finalized # feed.finalized =>
                 \A i \in OrderIds : Due(i, feed.last) /\ book'.status[i] \in Live
                                        => book'.filled[i] > 0
<1> DEFINE Ends == feed'.finalized # feed.finalized =>
                      \A i \in OrderIds : Due(i, feed.last) /\ book'.status[i] \in Live
                                             => book'.filled[i] > 0
<1>1. CASE ChannelReceive
  <2>1. feed' = feed
    BY <1>1 DEF ChannelReceive
  <2> QED BY <1>1, <2>1, ReceiveStepSlice
<1>2. CASE ChannelTurn
  <2>1. feed' = feed
    BY <1>2 DEF ChannelTurn
  <2> QED BY <1>2, <2>1, TurnSlice
<1>3. CASE ChannelLeave
  <2>1. feed' = feed
    BY <1>3 DEF ChannelLeave
  <2> QED BY <1>3, <2>1, LeaveSlice
<1>4. CASE \E sym \in Symbols, ts \in Times, traded \in BOOLEAN, session \in Sessions :
              DataBar(sym, ts, traded, session)
  BY <1>4, DataBarSlice
<1>5. CASE \E session \in Sessions : DataTimer(session)
  BY <1>5, DataTimerSlice
<1>6. CASE DataEnd
  BY <1>6, DataEndSlice
<1>7. CASE Execute
  <2>1. feed' = feed
    BY <1>7 DEF Execute
  <2> QED BY <1>7, <2>1, ExecuteSlice
<1>8. CASE Strategy
  <2>1. feed'.finalized = feed.finalized
    <3>1. feed \in FeedType
      BY DEF IInv, FeedSound
    <3>2. \E p : feed' = [feed EXCEPT !.priced = p]
      BY <1>8 DEF Strategy
    <3> QED BY <3>1, <3>2 DEF FeedType
  <2> QED BY <1>8, <2>1, StrategySlice
<1>9. CASE CleanupStage \/ Finish
  <2>1. feed' = feed
    BY <1>9 DEF CleanupStage, Finish
  <2> QED BY <1>9, <2>1, CleanupSlice
<1>10. CASE UNCHANGED vars \/ Returned
  <2>1. UNCHANGED vars
    BY <1>10 DEF Returned
  <2>2. feed' = feed
    BY <2>1 DEF vars
  <2> QED BY <2>1, <2>2, StutterSlice
<1> QED BY <1>1, <1>2, <1>3, <1>4, <1>5, <1>6, <1>7, <1>8, <1>9, <1>10 DEF Next

LEMMA InitSlice == ASSUME Init PROVE SliceNow
<1> DEFINE s == State(drain.suppressed)
           f == feed
<1>1. /\ s.book = EmptyBook /\ s.channel = <<>> /\ drain.pending = <<>> /\ pc = "Channel1"
      /\ f.last = 0 /\ f.finalized = 0 /\ f.seen = {} /\ f.tradable = {}
      /\ f.event.kind = "Timer"
  BY StageFacts DEF Init, State, IdleDrain, Stages, NoEvent
<1> HIDE DEF s
<1>2. Active(s.book) = {} /\ Marked(s.book) = {}
  BY <1>1, StatusFacts DEF Active, EmptyBook, Marked
<1>3. \A i \in OrderIds : ~Asked(s, <<>>, i)
  BY <1>1 DEF Asked, ToSet
<1> HIDE DEF f
<1>4. ~Open(f) /\ FeedSlices(f, pc)
  BY <1>1 DEF Open, FeedSlices
<1>5. Attending(s, <<>>, f, pc)
  BY <1>2, <1>3, <1>4 DEF Attending, ClientKnown, MarksSound, LateAsked, Attended
<1> QED BY <1>1, <1>4, <1>5 DEF SliceNow, s, f

\* NothingStranded: when a slice is finalized no order due in it is left untouched, if
\* no session of the feed rests: in a session that does not trade a next-bar order
\* misses the match of its bar, and the end of the slice does not look at it.
THEOREM NothingStrandedCorrect == ASSUME AlwaysTrading PROVE Spec => NothingStranded
<1>1. Init => IInv /\ SliceNow
  BY InitSound, InitSlice
<1>2. IInv /\ SliceNow /\ [Next]_vars => (IInv /\ SliceNow)'
  BY StepSound, StepSlice
<1>3. ASSUME IInv, SliceNow, [Next]_vars
      PROVE  [feed'.finalized # feed.finalized =>
                \A i \in OrderIds :
                   Due(i, feed.last) /\ book'.status[i] \in Live => book'.filled[i] > 0]_vars
  BY <1>3, StepSlice
<1> QED BY <1>1, <1>2, <1>3, PTL DEF Spec, NothingStranded
==============================================================================
