---------------------- MODULE NewsMarketDatasetProofs ----------------------
(***************************************************************************)
(* Proofs about the alignment of news with sessions and the dataset        *)
(* builder: for every calendar, corpus and set of bars it neither loses    *)
(* nor repeats news, and, as long as cutoffs lie on the day of their       *)
(* session, it never looks ahead.                                          *)
(***************************************************************************)
EXTENDS NewsMarketDataset, WellFoundedInduction, FiniteSetTheorems, TLAPS

-----------------------------------------------------------------------------
(* What the searches of the calendar and the alignment policies return,    *)
(* for every calendar, policy, buffer and instant.                         *)

\* The cutoff of every session lies on the day of the session.
MorningCutoff(buffer) == \A s \in Sessions : Midnight[s] <= Cutoff(s, buffer)

\* Every non-empty set of naturals has a least element: the next session is defined
\* through it.
LEMMA LeastNatural ==
    ASSUME NEW T, T \subseteq Nat, T # {}
    PROVE  \E m \in T : \A n \in T : m <= n
<1>1. PICK m \in T : \A n \in T : <<n, m>> \notin OpToRel(<, Nat)
  BY NatLessThanWellFounded, WFMin, Zenon
<1>2. \A n, k \in Nat : n < k => <<n, k>> \in OpToRel(<, Nat)
  BY Zenon DEF OpToRel
<1>3. \A n \in T : ~(n < m)  BY <1>1, <1>2, Zenon
<1>4. QED  BY <1>3

\* Days and sessions are numbers.
LEMMA SessionsAreNaturals == Sessions \subseteq Nat /\ Sessions \subseteq 1..LastDay /\ LastDay \in Nat
BY CalendarAssumption DEF Days

\* The search forward finds the first later session, if there is one.
LEMMA NextIsFirst ==
    ASSUME NEW d \in Nat, Later(d) # {}
    PROVE  /\ NextSession(d) \in Later(d)
           /\ \A u \in Later(d) : NextSession(d) <= u
           /\ NextSession(d) # NoSession
<1>1. Later(d) \subseteq Nat  BY SessionsAreNaturals DEF Later
<1>2. \E s \in Later(d) : \A u \in Later(d) : s <= u  BY <1>1, LeastNatural
<1>3. NextSession(d) = CHOOSE s \in Later(d) : \A u \in Later(d) : s <= u
  BY DEF NextSession
<1>4. NextSession(d) \in Later(d) /\ \A u \in Later(d) : NextSession(d) <= u
  BY <1>2, <1>3
<1>5. NextSession(d) # NoSession
  BY <1>4, SessionsAreNaturals DEF Later, NoSession
<1>6. QED  BY <1>4, <1>5

\* The local date of an instant of the loaded range is a day that contains it.
LEMMA DateCoversInstant ==
    ASSUME NEW t \in Nat, InRange(t)
    PROVE  LocalDate(t) \in Days /\ Covers(LocalDate(t), t)
BY DEF InRange, LocalDate

\* An instant of one day lies before the midnight, the open and the close of every later one.
LEMMA DaysInOrder ==
    ASSUME NEW d \in Days, NEW s \in Sessions, d < s
    PROVE  /\ Midnight[d + 1] \in Nat /\ Midnight[s] \in Nat
           /\ Opening[s] \in Nat /\ Closing[s] \in Nat
           /\ Midnight[d + 1] <= Midnight[s]
           /\ Midnight[s] < Opening[s]
           /\ Opening[s] < Closing[s]
<1>1. d \in Nat /\ s \in Nat /\ s <= LastDay /\ LastDay \in Nat /\ d >= 1
  BY SessionsAreNaturals DEF Days
<1>2. d + 1 \in 1..LastDay + 1 /\ s \in 1..LastDay + 1 /\ (d + 1 = s \/ d + 1 < s)
  BY <1>1
<1>3. Midnight[d + 1] \in Nat /\ Midnight[s] \in Nat
      /\ (d + 1 < s => Midnight[d + 1] < Midnight[s])
  BY <1>2, CalendarAssumption
<1>4. Opening[s] \in Nat /\ Closing[s] \in Nat /\ Midnight[s] < Opening[s] /\ Opening[s] < Closing[s]
  BY CalendarAssumption
<1>5. QED  BY <1>2, <1>3, <1>4

\* An instant before the end of a day is known at the cutoff of every later session.
LEMMA EarlierDayIsKnown ==
    ASSUME NEW buffer \in Nat, MorningCutoff(buffer), NEW t \in Nat,
           NEW d \in Days, NEW s \in Sessions, d < s, t < Midnight[d + 1]
    PROVE  t <= Cutoff(s, buffer)
<1>1. Midnight[d + 1] <= Midnight[s] /\ Midnight[d + 1] \in Nat /\ Midnight[s] \in Nat
      /\ Opening[s] \in Nat
  BY DaysInOrder
<1>2. Midnight[s] <= Cutoff(s, buffer)  BY DEF MorningCutoff
<1>3. Cutoff(s, buffer) \in Int  BY <1>1 DEF Cutoff
<1>4. QED  BY <1>1, <1>2, <1>3

\* Both policies give an article to the first session that could use it, and
\* to none exactly when none could.
THEOREM AssignedToFirst ==
    ASSUME NEW policy \in AlignmentPolicies, NEW buffer \in Nat, MorningCutoff(buffer),
           NEW t \in Nat
    PROVE  LET s == AssignSession(policy, buffer, t)
               U == CanUse(policy, buffer, t)
           IN  IF s = NoSession THEN U = {} ELSE s \in U /\ \A u \in U : s <= u
<1> DEFINE s == AssignSession(policy, buffer, t)
           U == CanUse(policy, buffer, t)
           d == LocalDate(t)
<1>1. CASE ~InRange(t)  BY <1>1 DEF AssignSession, CanUse
<1>2. CASE InRange(t)
  <2>1. d \in Days /\ Covers(d, t) /\ d \in Nat
    BY <1>2, DateCoversInstant, SessionsAreNaturals DEF Days
  <2>2. t < Midnight[d + 1]  BY <2>1 DEF Covers
  <2>3. \A u \in Sessions : u \in Nat /\ u # NoSession
    BY SessionsAreNaturals DEF NoSession
  <2>4. \A u \in Later(d) : u \in Sessions /\ d < u /\ t <= Cutoff(u, buffer)
    <3>1. ASSUME NEW u \in Later(d) PROVE t <= Cutoff(u, buffer)
      <4>1. u \in Sessions /\ d < u  BY <2>1, <2>3 DEF Later
      <4>2. QED  BY <4>1, <2>1, <2>2, EarlierDayIsKnown
    <3>2. QED  BY <3>1, <2>1, <2>3 DEF Later
  <2>5. Later(d) # {} => /\ NextSession(d) \in Later(d)
                         /\ \A u \in Later(d) : NextSession(d) <= u
                         /\ NextSession(d) # NoSession
    BY <2>1, NextIsFirst
  <2>6. Later(d) = {} => NextSession(d) = NoSession  BY DEF NextSession
  <2>7. CASE policy # SessionWindow
    <3>1. s = NextSession(d)  BY <1>2, <2>7 DEF AssignSession, AssignByDay
    <3>2. U = Later(d)  BY <1>2, <2>7, <2>1, <2>3 DEF CanUse, Later
    <3>3. QED  BY <3>1, <3>2, <2>5, <2>6
  <2>8. CASE policy = SessionWindow
    <3>1. s = AssignByWindow(t, buffer)  BY <1>2, <2>8 DEF AssignSession
    <3>2. U = {u \in Sessions : d <= u /\ t <= Cutoff(u, buffer)}
      BY <1>2, <2>8 DEF CanUse
    <3>3. \A u \in U : u \in Later(d) \/ u = d
      BY <3>2, <2>1, <2>3 DEF Later
    <3>4. Later(d) \subseteq U  BY <3>2, <2>4, <2>1, <2>3
    <3>5. CASE IsSession(d) /\ t <= Cutoff(d, buffer)
      <4>1. s = d  BY <3>1, <3>5 DEF AssignByWindow, NextOrSameSession
      <4>2. d \in U  BY <3>2, <3>5, <2>1 DEF IsSession
      <4>3. \A u \in U : d <= u  BY <3>2
      <4>4. d # NoSession  BY <3>5, <2>3 DEF IsSession
      <4>5. QED  BY <4>1, <4>2, <4>3, <4>4
    <3>6. CASE IsSession(d) /\ ~(t <= Cutoff(d, buffer))
      <4>1. s = NextSession(d)
        BY <3>1, <3>6, <2>3 DEF AssignByWindow, NextOrSameSession, IsSession
      <4>2. d \notin U  BY <3>2, <3>6
      <4>3. U = Later(d)  BY <4>2, <3>3, <3>4
      <4>4. QED  BY <4>1, <4>3, <2>5, <2>6
    <3>7. CASE ~IsSession(d)
      <4>1. s = NextSession(d)
        <5>1. NextOrSameSession(d) = NextSession(d)  BY <3>7 DEF NextOrSameSession
        <5>2. CASE Later(d) = {}
          BY <5>1, <5>2, <2>6, <3>1 DEF AssignByWindow
        <5>3. CASE Later(d) # {}
          <6>1. t <= Cutoff(NextSession(d), buffer)  BY <5>3, <2>5, <2>4
          <6>2. QED  BY <5>1, <6>1, <3>1 DEF AssignByWindow
        <5>4. QED  BY <5>2, <5>3
      <4>2. d \notin U  BY <3>2, <3>7 DEF IsSession
      <4>3. U = Later(d)  BY <4>2, <3>3, <3>4
      <4>4. QED  BY <4>1, <4>3, <2>5, <2>6
    <3>8. QED  BY <3>5, <3>6, <3>7
  <2>9. QED  BY <2>7, <2>8
<1>3. QED  BY <1>1, <1>2

\* An article is known at the cutoff of the session it is given to.
THEOREM AssignedIsKnown ==
    ASSUME NEW policy \in AlignmentPolicies, NEW buffer \in Nat, MorningCutoff(buffer),
           NEW t \in Nat, AssignSession(policy, buffer, t) # NoSession
    PROVE  /\ AssignSession(policy, buffer, t) \in Sessions
           /\ t <= Cutoff(AssignSession(policy, buffer, t), buffer)
<1> DEFINE s == AssignSession(policy, buffer, t)
<1>1. s \in CanUse(policy, buffer, t)  BY AssignedToFirst
<1>2. InRange(t)  BY <1>1 DEF CanUse
<1>3. s \in Sessions  BY <1>1, <1>2 DEF CanUse
<1>4. CASE policy = SessionWindow  BY <1>1, <1>2, <1>3, <1>4 DEF CanUse
<1>5. CASE policy # SessionWindow
  <2>1. LocalDate(t) < s  BY <1>1, <1>2, <1>5 DEF CanUse
  <2>2. LocalDate(t) \in Days /\ t < Midnight[LocalDate(t) + 1]
    BY <1>2, DateCoversInstant DEF Covers
  <2>3. QED  BY <2>1, <2>2, <1>3, EarlierDayIsKnown
<1>6. QED  BY <1>3, <1>4, <1>5

-----------------------------------------------------------------------------
(* The build.                                                              *)

\* No configured buffer reaches into the day before a session.
MorningCutoffs == \A c \in Configs : MorningCutoff(c.buffer)

\* The part of TypeOK the arguments need.
BuildType ==
    /\ published \in [Articles -> Nat]
    /\ countDays \subseteq Days
    /\ bars \in [Symbols -> SUBSET Days]
    /\ config \in Configs
    /\ pc \in Pcs
    /\ todo \subseteq Sources
    /\ pc \in {"market", "downgrade"} => todo = {}
    /\ bucket \in [Methods -> [Sessions -> SUBSET Sources]]

\* What the assumption says of one configuration.
LEMMA ConfigType ==
    ASSUME NEW c \in Configs
    PROVE  c.policy \in AlignmentPolicies /\ c.buffer \in Nat
BY DatasetAssumption DEF Configs

\* Articles and counts are different sources, and different articles too.
LEMMA SourceTypes ==
    /\ \A a \in Articles : Article(a) \in Sources
    /\ \A d \in Days : Count(d) \in Sources
    /\ \A a \in Articles, d \in Days : Article(a) # Count(d)
    /\ \A a \in Articles, b \in Articles : Article(a) = Article(b) => a = b
<1>1. "article" # "count"  OBVIOUS
<1>2. QED  BY <1>1 DEF Sources, Article, Count

\* Counts are given to a session after their day.
LEMMA NextSessionType ==
    ASSUME NEW d \in Days, NextSession(d) # NoSession
    PROVE  NextSession(d) \in Sessions /\ d < NextSession(d)
<1>1. d \in Nat  BY SessionsAreNaturals DEF Days
<1>2. Later(d) # {}  BY DEF NextSession
<1>3. NextSession(d) \in Later(d)  BY <1>1, <1>2, NextIsFirst
<1>4. QED  BY <1>3, SessionsAreNaturals DEF Later

\* A session the policy assigns is a session, whatever the buffer.
LEMMA AssignType ==
    ASSUME NEW policy \in AlignmentPolicies, NEW buffer \in Nat, NEW t \in Nat,
           AssignSession(policy, buffer, t) # NoSession
    PROVE  AssignSession(policy, buffer, t) \in Sessions
<1>1. InRange(t)  BY DEF AssignSession
<1>2. LocalDate(t) \in Days  BY <1>1, DateCoversInstant
<1>3. \A e \in Days : NextSession(e) # NoSession => NextSession(e) \in Sessions
  BY NextSessionType
<1>4. \A e \in Sessions : e \in Days  BY SessionsAreNaturals DEF Days
<1>5. NextOrSameSession(LocalDate(t)) = NoSession
      \/ NextOrSameSession(LocalDate(t)) \in Sessions
  BY <1>2, <1>3 DEF NextOrSameSession, IsSession
<1>6. QED
  BY <1>1, <1>2, <1>3, <1>4, <1>5 DEF AssignSession, AssignByWindow, AssignByDay

\* A build begins with nothing read and every bucket empty.
LEMMA BuildTypeInit == Init => BuildType
<1>1. ASSUME NEW given \in Inputs
      PROVE  /\ given.published \in [Articles -> Nat] /\ given.countDays \subseteq Days
             /\ given.bars \in [Symbols -> SUBSET Days] /\ given.config \in Configs
  BY <1>1, DatasetAssumption DEF Configs
<1>2. QED  BY <1>1 DEF Init, BuildType, Pcs, Methods

\* Every step of the build keeps the types; only the two loops touch a bucket.
LEMMA BuildTypeNext == BuildType /\ [Next]_vars => BuildType'
<1> SUFFICES ASSUME BuildType, [Next]_vars PROVE BuildType'  OBVIOUS
<1> USE DEF BuildType
<1>1. ASSUME MarketSeriesBuilt PROVE BuildType'
  BY <1>1, SourceTypes DEF MarketSeriesBuilt, Goto, inputs, Pcs
<1>2. ASSUME AssignArticle PROVE BuildType'
  <2>1. PICK a \in Articles :
          /\ todo' = todo \ {Article(a)}
          /\ LET s == AssignSession(config.policy, config.buffer, published[a]) IN
             bucket' = IF s = NoSession THEN bucket
                       ELSE [bucket EXCEPT !["articles"][s] = @ \cup {Article(a)}]
    BY <1>2 DEF AssignArticle
  <2> DEFINE s == AssignSession(config.policy, config.buffer, published[a])
  <2>2. published[a] \in Nat  BY DatasetAssumption
  <2>3. s # NoSession => s \in Sessions  BY <2>2, ConfigType, AssignType
  <2>4. Article(a) \in Sources  BY SourceTypes
  <2> HIDE DEF s
  <2>5. bucket' \in [Methods -> [Sessions -> SUBSET Sources]]
    BY <2>1, <2>3, <2>4 DEF s, Methods
  <2>6. QED  BY <1>2, <2>1, <2>5 DEF AssignArticle, Goto, inputs, Pcs
<1>3. ASSUME BeginCounts PROVE BuildType'
  <2>1. countDays \subseteq Days  BY DatasetAssumption
  <2>2. {Count(d) : d \in countDays} \subseteq Sources  BY <2>1, SourceTypes
  <2>3. QED  BY <1>3, <2>2 DEF BeginCounts, Goto, inputs, Pcs
<1>4. ASSUME AssignCount PROVE BuildType'
  <2>1. PICK d \in Days :
          /\ Count(d) \in todo
          /\ NextSession(d) # NoSession
          /\ todo' = todo \ {Count(d)}
          /\ bucket' = [bucket EXCEPT !["counts"][NextSession(d)] = @ \cup {Count(d)}]
    BY <1>4 DEF AssignCount
  <2>2. NextSession(d) \in Sessions /\ Count(d) \in Sources
    BY <2>1, NextSessionType, SourceTypes
  <2>3. bucket' \in [Methods -> [Sessions -> SUBSET Sources]]
    BY <2>1, <2>2 DEF Methods
  <2>4. QED  BY <1>4, <2>1, <2>3 DEF AssignCount, Goto, inputs, Pcs
<1>5. ASSUME NEW m \in Methods, NEW from \in Pcs, NEW to \in Pcs, Finalize(m, from, to)
      PROVE  BuildType'
  BY <1>5 DEF Finalize, Goto, inputs
<1>6. ASSUME NEW m \in Methods, NEW from \in Pcs, FinalizeRaises(m, from) PROVE BuildType'
  BY <1>6 DEF FinalizeRaises, Goto, inputs, Pcs
<1>7. CASE MarketSeriesRaises  BY <1>7 DEF MarketSeriesRaises, Goto, inputs, Pcs
<1>8. CASE DowngradeRefused  BY <1>8 DEF DowngradeRefused, Goto, inputs, Pcs
<1>9. CASE AssignCountRaises  BY <1>9 DEF AssignCountRaises, Goto, inputs, Pcs
<1>10. CASE BuildObservations  BY <1>10 DEF BuildObservations, Goto, inputs, Pcs
<1>11. CASE AssignSplits  BY <1>11 DEF AssignSplits, Goto, inputs, Pcs
<1>12. CASE UNCHANGED vars  BY <1>12 DEF vars, inputs
<1>13. "articles" \in Methods /\ "counts" \in Methods /\ {"articles", "downgrade", "counts", "join"} \subseteq Pcs
  BY DEF Methods, Pcs
<1>14. QED
  BY <1>1, <1>2, <1>3, <1>4, <1>5, <1>6, <1>7, <1>8, <1>9, <1>10, <1>11, <1>12, <1>13
  DEF Next, Ended

-----------------------------------------------------------------------------
\* Reading an article moves it from "todo" to the first session that can use it.
LEMMA CountedOnceNext ==
    ASSUME MorningCutoffs, BuildType, [Next]_vars,
           NEW a \in Articles, CountedOnce(a)
    PROVE  CountedOnce(a)'
<1> DEFINE used == AssignedTo(Article(a), "articles")
<1>1. published' = published /\ config' = config
  <2>1. inputs' = inputs
    BY DEF Next, vars, MarketSeriesBuilt, MarketSeriesRaises, AssignArticle, Finalize,
       FinalizeRaises, BeginCounts, DowngradeRefused, AssignCount, AssignCountRaises,
       BuildObservations, AssignSplits, Ended
  <2>2. QED  BY <2>1 DEF inputs
<1>2. Usable(a)' = Usable(a)  BY <1>1 DEF Usable
<1>3. ASSUME bucket'["articles"] = bucket["articles"] PROVE used' = used
  BY <1>3 DEF AssignedTo
<1>4. ASSUME bucket'["articles"] = bucket["articles"], pc # "market",
             Article(a) \in todo' <=> Article(a) \in todo, pc' # "market",
             pc' # "raised" => pc # "raised"
      PROVE  CountedOnce(a)'
  BY <1>2, <1>3, <1>4 DEF CountedOnce
<1>5. CASE MarketSeriesBuilt
  <2>1. pc = "market" /\ Article(a) \in todo' /\ bucket' = bucket
    BY <1>5 DEF MarketSeriesBuilt, Goto
  <2>2. used = {}  BY <2>1 DEF CountedOnce
  <2>3. used' = {}  BY <2>1, <2>2, <1>3
  <2>4. QED  BY <2>1, <2>3 DEF CountedOnce
<1>6. CASE AssignArticle
  <2>1. PICK b \in Articles :
          /\ Article(b) \in todo
          /\ todo' = todo \ {Article(b)}
          /\ LET s == AssignSession(config.policy, config.buffer, published[b]) IN
             bucket' = IF s = NoSession THEN bucket
                       ELSE [bucket EXCEPT !["articles"][s] = @ \cup {Article(b)}]
    BY <1>6 DEF AssignArticle
  <2>2. pc = "articles" /\ pc' = "articles"  BY <1>6 DEF AssignArticle, Goto
  <2> DEFINE s == AssignSession(config.policy, config.buffer, published[b])
  <2>3. published[b] \in Nat /\ config \in Configs  BY DatasetAssumption DEF BuildType
  <2>4. config.policy \in AlignmentPolicies /\ config.buffer \in Nat /\ MorningCutoff(config.buffer)
    BY <2>3, ConfigType DEF MorningCutoffs
  <2>5. IF s = NoSession THEN Usable(b) = {} ELSE s \in Usable(b) /\ \A u \in Usable(b) : s <= u
    BY <2>3, <2>4, AssignedToFirst DEF Usable
  <2>6. s # NoSession => s \in Sessions  BY <2>3, <2>4, AssignType
  <2> HIDE DEF s
  <2>7. CASE b = a
    <3>1. used = {}  BY <2>1, <2>7 DEF CountedOnce
    <3>2. Article(a) \notin todo'  BY <2>1, <2>7
    <3>3. CASE s = NoSession
      <4>1. used' = {}  BY <3>1, <3>3, <2>1, <1>3 DEF s
      <4>2. QED  BY <4>1, <3>2, <3>3, <2>2, <2>5, <2>7, <1>2 DEF CountedOnce
    <3>4. CASE s # NoSession
      <4>1. bucket' = [bucket EXCEPT !["articles"][s] = @ \cup {Article(a)}]
        BY <3>4, <2>1, <2>7 DEF s
      <4>2. \A u \in Sessions : Article(a) \in bucket'["articles"][u] <=> u = s
        BY <4>1, <3>1, <2>6, <3>4 DEF AssignedTo, BuildType, Methods
      <4>3. used' = {s}  BY <4>2, <2>6, <3>4 DEF AssignedTo
      <4>4. s \in Usable(a) /\ \A u \in Usable(a) : s <= u  BY <2>5, <2>7, <3>4
      <4>5. QED  BY <4>3, <4>4, <3>2, <2>2, <1>2 DEF CountedOnce
    <3>5. QED  BY <3>3, <3>4
  <2>8. CASE b # a
    <3>1. Article(b) # Article(a)  BY <2>8, SourceTypes
    <3>2. \A u \in Sessions : Article(a) \in bucket'["articles"][u]
                              <=> Article(a) \in bucket["articles"][u]
      BY <3>1, <2>1, <2>6 DEF s, BuildType, Methods
    <3>3. used' = used  BY <3>2 DEF AssignedTo
    <3>4. Article(a) \in todo' <=> Article(a) \in todo  BY <3>1, <2>1
    <3>5. QED  BY <3>3, <3>4, <2>2, <1>2 DEF CountedOnce
  <2>9. QED  BY <2>7, <2>8
<1>7. CASE BeginCounts
  <2>1. todo = {} /\ pc = "downgrade" /\ pc' = "counts" /\ bucket' = bucket
    BY <1>7 DEF BeginCounts, Goto, BuildType
  <2>2. todo' = {Count(d) : d \in countDays} /\ countDays \subseteq Days
    BY <1>7, DatasetAssumption DEF BeginCounts, BuildType
  <2>3. Article(a) \notin todo'  BY <2>2, SourceTypes
  <2>4. QED  BY <2>1, <2>3, <1>4
<1>8. CASE AssignCount
  <2>1. PICK d \in Days :
          /\ todo' = todo \ {Count(d)}
          /\ bucket' = [bucket EXCEPT !["counts"][NextSession(d)] = @ \cup {Count(d)}]
    BY <1>8 DEF AssignCount
  <2>2. bucket'["articles"] = bucket["articles"]  BY <2>1 DEF BuildType, Methods
  <2>3. Article(a) \in todo' <=> Article(a) \in todo  BY <2>1, SourceTypes
  <2>4. QED  BY <1>8, <2>2, <2>3, <1>4 DEF AssignCount, Goto
<1>9. ASSUME NEW m \in Methods, NEW from \in Pcs \ {"market", "raised"}, NEW to \in Pcs \ {"market"},
             Finalize(m, from, to)
      PROVE  CountedOnce(a)'
  BY <1>9, <1>4 DEF Finalize, Goto
<1>10. ASSUME NEW m \in Methods, NEW from \in Pcs \ {"market", "raised"}, FinalizeRaises(m, from)
      PROVE  CountedOnce(a)'
  BY <1>10, <1>4 DEF FinalizeRaises, Goto
<1>11. CASE MarketSeriesRaises
  <2>1. pc = "market" /\ pc' = "raised" /\ bucket' = bucket /\ todo' = todo
    BY <1>11 DEF MarketSeriesRaises, Goto
  <2>2. todo = {}  BY <2>1 DEF BuildType
  <2>3. QED  BY <2>1, <2>2 DEF CountedOnce
<1>12. CASE DowngradeRefused  BY <1>12, <1>4 DEF DowngradeRefused, Goto
<1>13. CASE AssignCountRaises  BY <1>13, <1>4 DEF AssignCountRaises, Goto
<1>14. CASE BuildObservations  BY <1>14, <1>4 DEF BuildObservations, Goto
<1>15. CASE AssignSplits  BY <1>15, <1>4 DEF AssignSplits, Goto
<1>16. CASE UNCHANGED vars
  BY <1>16, <1>2, <1>3 DEF vars, inputs, CountedOnce
<1>17. /\ "articles" \in Methods /\ "counts" \in Methods
       /\ {"articles", "downgrade", "counts", "join"} \subseteq Pcs \ {"market"}
       /\ {"articles", "downgrade", "counts", "join"} \subseteq Pcs \ {"market", "raised"}
  BY DEF Methods, Pcs
<1>18. QED
  BY <1>5, <1>6, <1>7, <1>8, <1>9, <1>10, <1>11, <1>12, <1>13, <1>14, <1>15, <1>16, <1>17
  DEF Next, Ended

\* Whatever the calendar and the corpus, an article counts in the first session
\* that may use it and in no other; it is dropped only if there is none.
THEOREM NewsIsCountedOnce == ASSUME MorningCutoffs PROVE Spec => []NewsCountedOnce
<1>1. Init => BuildType  BY BuildTypeInit
<1>2. Init => NewsCountedOnce
  BY DEF Init, NewsCountedOnce, CountedOnce, AssignedTo, Methods
<1>3. BuildType /\ [Next]_vars => BuildType'  BY BuildTypeNext
<1>4. BuildType /\ NewsCountedOnce /\ [Next]_vars => NewsCountedOnce'
  <2> SUFFICES ASSUME BuildType, NewsCountedOnce, [Next]_vars PROVE NewsCountedOnce'  OBVIOUS
  <2>1. \A a \in Articles : CountedOnce(a)'  BY CountedOnceNext DEF NewsCountedOnce
  <2>2. QED  BY <2>1 DEF NewsCountedOnce
<1>5. QED  BY <1>1, <1>2, <1>3, <1>4, PTL DEF Spec

-----------------------------------------------------------------------------
\* Everything in a bucket is known at the cutoff of its session.
BucketsKnown ==
    \A m \in Methods : \A s \in Sessions : \A x \in bucket[m][s] :
        KnownAt(x) <= Cutoff(s, config.buffer)

\* Bars lie on sessions once the market series has been built.
BarsOnSessions ==
    pc \notin {"market", "raised"} => \A symbol \in Symbols : bars[symbol] \subseteq Sessions

\* A feature is computed from its own bucket and compared with earlier ones.
FeatureFacts(f) ==
    /\ f.method \in Methods
    /\ f.session \in Sessions
    /\ f.sources \subseteq bucket[f.method][f.session]
    /\ f.history \subseteq {u \in Sessions : u < f.session}
    /\ f.cutoff = Cutoff(f.session, config.buffer)

ObservationFacts(o) ==
    /\ pc \in {"split", "done"}
    /\ \E f \in features, g \in Mappings : o = Observation(f, g)

Causal ==
    /\ BuildType
    /\ BucketsKnown
    /\ BarsOnSessions
    /\ \A f \in features : FeatureFacts(f)
    /\ \A o \in observations : ObservationFacts(o)

\* The source of a bucket is known at a number.
LEMMA KnownAtType ==
    ASSUME BuildType, NEW x \in Sources
    PROVE  KnownAt(x) \in Nat
<1>1. CASE \E a \in Articles : x = Article(a)
  <2>1. PICK a \in Articles : x = Article(a)  BY <1>1
  <2>2. KnownAt(x) = published[a]  BY <2>1 DEF KnownAt, Article
  <2>3. QED  BY <2>2, DatasetAssumption DEF BuildType
<1>2. CASE \E d \in Days : x = Count(d)
  <2>1. PICK d \in Days : x = Count(d)  BY <1>2
  <2>2. KnownAt(x) = Midnight[d + 1]
    <3>1. "article" # "count"  OBVIOUS
    <3>2. QED  BY <2>1, <3>1 DEF KnownAt, Count
  <2>3. d + 1 \in 1..LastDay + 1  BY SessionsAreNaturals DEF Days
  <2>4. QED  BY <2>2, <2>3, CalendarAssumption
<1>3. QED  BY <1>1, <1>2 DEF Sources

\* A bar before a session comes from an earlier day, any other from the session or later.
LEMMA BarPlace ==
    ASSUME NEW symbol, NEW s, NEW offset \in Int
    PROVE  LET b == BarAt(symbol, s, offset) IN
           b # NoBar => /\ b \in bars[symbol]
                        /\ offset < 0 => b < s
                        /\ offset >= 0 => s <= b
<1> DEFINE hits == {b \in bars[symbol] :
                      IF offset >= 0 THEN s <= b /\ Cardinality(Between(symbol, s, b)) = offset
                                     ELSE b < s /\ Cardinality(Between(symbol, b, s)) = -offset}
<1>1. BarAt(symbol, s, offset) # NoBar =>
        hits # {} /\ BarAt(symbol, s, offset) = CHOOSE b \in hits : TRUE
  BY DEF BarAt
<1>2. hits # {} => (CHOOSE b \in hits : TRUE) \in hits  OBVIOUS
<1>3. BarAt(symbol, s, offset) # NoBar => BarAt(symbol, s, offset) \in hits
  BY <1>1, <1>2
<1>4. QED  BY <1>3

\* The times of two sessions in order.
LEMMA SessionsInOrder ==
    ASSUME NEW buffer \in Nat, MorningCutoff(buffer),
           NEW u \in Sessions, NEW s \in Sessions, u < s
    PROVE  /\ Cutoff(u, buffer) <= Cutoff(s, buffer)
           /\ Closing[u] <= Cutoff(s, buffer)
           /\ Cutoff(u, buffer) < Closing[s]
<1>1. u \in Days /\ s \in Days /\ u + 1 \in 1..LastDay + 1  BY SessionsAreNaturals DEF Days
<1>2. /\ Midnight[u + 1] \in Nat /\ Midnight[s] \in Nat
      /\ Opening[s] \in Nat /\ Closing[s] \in Nat
      /\ Midnight[u + 1] <= Midnight[s] /\ Midnight[s] < Opening[s] /\ Opening[s] < Closing[s]
  BY <1>1, DaysInOrder
<1>3. /\ Opening[u] \in Nat /\ Closing[u] \in Nat
      /\ Opening[u] < Closing[u] /\ Closing[u] < Midnight[u + 1]
  BY CalendarAssumption
<1>4. Midnight[s] <= Opening[s] - buffer  BY DEF MorningCutoff, Cutoff
<1>5. QED  BY <1>2, <1>3, <1>4 DEF Cutoff

\* An article that is read enters a bucket whose cutoff is not before it.
LEMMA AssignArticleKnown ==
    ASSUME MorningCutoffs, BuildType, BucketsKnown, AssignArticle
    PROVE  /\ BucketsKnown'
           /\ \A m \in Methods : \A s \in Sessions : bucket[m][s] \subseteq bucket'[m][s]
<1>1. PICK a \in Articles :
        LET s == AssignSession(config.policy, config.buffer, published[a]) IN
        bucket' = IF s = NoSession THEN bucket
                  ELSE [bucket EXCEPT !["articles"][s] = @ \cup {Article(a)}]
  BY DEF AssignArticle
<1>2. published' = published /\ config' = config  BY DEF AssignArticle, inputs
<1> DEFINE s == AssignSession(config.policy, config.buffer, published[a])
<1>3. /\ published[a] \in Nat
      /\ config.policy \in AlignmentPolicies /\ config.buffer \in Nat
      /\ MorningCutoff(config.buffer)
  BY DatasetAssumption, ConfigType DEF BuildType, MorningCutoffs
<1>4. s # NoSession => s \in Sessions /\ published[a] <= Cutoff(s, config.buffer)
  BY <1>3, AssignedIsKnown
<1>5. KnownAt(Article(a)) = published[a]  BY DEF KnownAt, Article
<1>6. bucket' = IF s = NoSession THEN bucket
                ELSE [bucket EXCEPT !["articles"][s] = @ \cup {Article(a)}]
  BY <1>1
<1> HIDE DEF s
<1>7. \A m \in Methods : \A u \in Sessions :
        /\ bucket[m][u] \subseteq bucket'[m][u]
        /\ \A x \in bucket'[m][u] :
             x \in bucket[m][u] \/ (s # NoSession /\ u = s /\ x = Article(a))
  BY <1>4, <1>6 DEF BuildType, Methods
<1>8. ASSUME NEW m \in Methods, NEW u \in Sessions, NEW x \in bucket'[m][u]
      PROVE  KnownAt(x) <= Cutoff(u, config.buffer)
  BY <1>4, <1>5, <1>7 DEF BucketsKnown
<1>9. BucketsKnown'  BY <1>2, <1>8 DEF BucketsKnown, KnownAt
<1>10. QED  BY <1>7, <1>9

\* The count of a day enters the bucket of a later session, after the day is over.
LEMMA AssignCountKnown ==
    ASSUME MorningCutoffs, BuildType, BucketsKnown, AssignCount
    PROVE  /\ BucketsKnown'
           /\ \A m \in Methods : \A s \in Sessions : bucket[m][s] \subseteq bucket'[m][s]
<1>1. PICK d \in Days :
        /\ NextSession(d) # NoSession
        /\ bucket' = [bucket EXCEPT !["counts"][NextSession(d)] = @ \cup {Count(d)}]
  BY DEF AssignCount
<1>2. published' = published /\ config' = config  BY DEF AssignCount, inputs
<1> DEFINE s == NextSession(d)
<1>3. s \in Sessions /\ d < s  BY <1>1, NextSessionType
<1>4. bucket' = [bucket EXCEPT !["counts"][s] = @ \cup {Count(d)}]  BY <1>1
<1>5. KnownAt(Count(d)) = Midnight[d + 1]
  <2>1. "article" # "count"  OBVIOUS
  <2>2. QED  BY <2>1 DEF KnownAt, Count
<1> HIDE DEF s
<1>6. config.buffer \in Nat /\ MorningCutoff(config.buffer)
  BY ConfigType DEF BuildType, MorningCutoffs
<1>7. Midnight[d + 1] <= Cutoff(s, config.buffer)
  <2>1. Midnight[d + 1] <= Midnight[s] /\ Midnight[d + 1] \in Nat /\ Midnight[s] \in Nat
        /\ Opening[s] \in Nat
    BY <1>3, DaysInOrder
  <2>2. Midnight[s] <= Opening[s] - config.buffer  BY <1>3, <1>6 DEF MorningCutoff, Cutoff
  <2>3. QED  BY <2>1, <2>2, <1>6 DEF Cutoff
<1>8. \A m \in Methods : \A u \in Sessions :
        /\ bucket[m][u] \subseteq bucket'[m][u]
        /\ \A x \in bucket'[m][u] : x \in bucket[m][u] \/ (u = s /\ x = Count(d))
  BY <1>3, <1>4 DEF BuildType, Methods
<1>9. ASSUME NEW m \in Methods, NEW u \in Sessions, NEW x \in bucket'[m][u]
      PROVE  KnownAt(x) <= Cutoff(u, config.buffer)
  BY <1>5, <1>7, <1>8 DEF BucketsKnown
<1>10. BucketsKnown'  BY <1>2, <1>9 DEF BucketsKnown, KnownAt
<1>11. QED  BY <1>8, <1>10

\* Facts of features and observations survive steps that only add to buckets.
LEMMA FactsKept ==
    ASSUME inputs' = inputs, features \subseteq features',
           \A m \in Methods : \A s \in Sessions : bucket[m][s] \subseteq bucket'[m][s]
    PROVE  /\ \A f \in features : FeatureFacts(f) => FeatureFacts(f)'
           /\ \A o : ObservationFacts(o) /\ pc' \in {"split", "done"} => ObservationFacts(o)'
<1>1. config' = config /\ bars' = bars  BY DEF inputs
<1>2. ASSUME NEW f \in features, FeatureFacts(f) PROVE FeatureFacts(f)'
  <2>1. f.method \in Methods /\ f.session \in Sessions  BY <1>2 DEF FeatureFacts
  <2>2. bucket[f.method][f.session] \subseteq bucket'[f.method][f.session]  BY <2>1
  <2>3. QED  BY <1>1, <1>2, <2>2 DEF FeatureFacts
<1>3. ASSUME NEW f, NEW g PROVE Observation(f, g)' = Observation(f, g)
  BY <1>1 DEF Observation, Complete, Adjusted, HasReturn, BarAt, Between
<1>4. ASSUME NEW o, ObservationFacts(o), pc' \in {"split", "done"} PROVE ObservationFacts(o)'
  <2>1. PICK f \in features, g \in Mappings : o = Observation(f, g)
    BY <1>4 DEF ObservationFacts
  <2>2. f \in features' /\ o = Observation(f, g)'  BY <2>1, <1>3
  <2>3. QED  BY <1>4, <2>1, <2>2 DEF ObservationFacts
<1>5. QED  BY <1>2, <1>4

\* Every step of the build keeps the facts: buckets only grow, and records are
\* computed from the buckets and bars of the moment.
LEMMA CausalNext == ASSUME MorningCutoffs, Causal, [Next]_vars PROVE Causal'
<1>1. BuildType'  BY BuildTypeNext DEF Causal
<1>2. ASSUME inputs' = inputs, bucket' = bucket, features' = features,
             observations' = observations, BarsOnSessions',
             observations # {} => pc' \in {"split", "done"}
      PROVE  Causal'
  <2>1. \A m \in Methods : \A s \in Sessions : bucket[m][s] \subseteq bucket'[m][s]
    BY <1>2
  <2>2. BucketsKnown'  BY <1>2 DEF inputs, Causal, BucketsKnown, KnownAt
  <2>3. \A f \in features' : FeatureFacts(f)'  BY <2>1, <1>2, FactsKept DEF Causal
  <2>4. \A o \in observations' : ObservationFacts(o)'  BY <2>1, <1>2, FactsKept DEF Causal
  <2>5. QED  BY <1>1, <1>2, <2>2, <2>3, <2>4 DEF Causal
<1>3. pc \notin {"split", "done"} => observations = {}  BY DEF Causal, ObservationFacts
<1>4. ASSUME inputs' = inputs, bucket' = bucket, features' = features,
             observations' = observations, pc' = "raised", pc \notin {"split", "done"}
      PROVE  Causal'
  BY <1>2, <1>3, <1>4 DEF BarsOnSessions
<1>5. ASSUME inputs' = inputs, bucket' = bucket, features' = features,
             observations' = observations, pc' # "market", pc \notin {"market", "raised"},
             pc \in {"split", "done"} => pc' \in {"split", "done"}
      PROVE  Causal'
  <2>1. BarsOnSessions'  BY <1>5 DEF Causal, BarsOnSessions, inputs
  <2>2. QED  BY <1>2, <1>3, <1>5, <2>1
<1>6. CASE MarketSeriesBuilt
  <2>1. pc = "market" /\ bars' = bars  BY <1>6 DEF MarketSeriesBuilt, Goto, inputs
  <2>2. BarsOnSessions'  BY <1>6, <2>1 DEF MarketSeriesBuilt, BarsOnSessions
  <2>3. QED  BY <1>6, <1>2, <1>3, <2>1, <2>2 DEF MarketSeriesBuilt
<1>7. CASE MarketSeriesRaises  BY <1>7, <1>4 DEF MarketSeriesRaises, Goto
<1>8. CASE AssignArticle
  <2>1. inputs' = inputs /\ features' = features /\ observations' = observations
        /\ pc = "articles" /\ pc' = "articles"
    BY <1>8 DEF AssignArticle, Goto
  <2>2. BucketsKnown' /\ \A m \in Methods : \A s \in Sessions : bucket[m][s] \subseteq bucket'[m][s]
    BY <1>8, AssignArticleKnown DEF Causal
  <2>3. \A f \in features' : FeatureFacts(f)'  BY <2>1, <2>2, FactsKept DEF Causal
  <2>4. observations' = {}  BY <2>1, <1>3
  <2>5. BarsOnSessions'  BY <2>1 DEF Causal, BarsOnSessions, inputs
  <2>6. QED  BY <1>1, <2>2, <2>3, <2>4, <2>5 DEF Causal
<1>9. CASE AssignCount
  <2>1. inputs' = inputs /\ features' = features /\ observations' = observations
        /\ pc = "counts" /\ pc' = "counts"
    BY <1>9 DEF AssignCount, Goto
  <2>2. BucketsKnown' /\ \A m \in Methods : \A s \in Sessions : bucket[m][s] \subseteq bucket'[m][s]
    BY <1>9, AssignCountKnown DEF Causal
  <2>3. \A f \in features' : FeatureFacts(f)'  BY <2>1, <2>2, FactsKept DEF Causal
  <2>4. observations' = {}  BY <2>1, <1>3
  <2>5. BarsOnSessions'  BY <2>1 DEF Causal, BarsOnSessions, inputs
  <2>6. QED  BY <1>1, <2>2, <2>3, <2>4, <2>5 DEF Causal
<1>10. ASSUME NEW m \in Methods, NEW from \in {"articles", "counts"},
              NEW to \in {"downgrade", "join"}, Finalize(m, from, to)
       PROVE  Causal'
  <2>1. inputs' = inputs /\ bucket' = bucket /\ observations' = observations
        /\ pc = from /\ pc' = to
        /\ features' = features \cup {Feature(m, s) : s \in Used(m)}
    BY <1>10 DEF Finalize, Goto
  <2>2. BucketsKnown'  BY <2>1 DEF inputs, Causal, BucketsKnown, KnownAt
  <2>3. \A f \in features : FeatureFacts(f)'  BY <2>1, FactsKept DEF Causal
  <2>4. ASSUME NEW f, NEW s \in Used(m), f = Feature(m, s) PROVE FeatureFacts(f)'
    <3>1. s \in Sessions /\ Used(m) \subseteq Sessions  BY DEF Used
    <3>2. config' = config  BY <2>1 DEF inputs
    <3>3. /\ f.method = m /\ f.session = s
          /\ f.sources = bucket[m][s] /\ f.history = {u \in Used(m) : u < s}
          /\ f.cutoff = Cutoff(s, config.buffer)
      BY <2>4 DEF Feature
    <3>4. QED  BY <2>1, <3>1, <3>2, <3>3, <1>10 DEF FeatureFacts
  <2>5. \A f \in features' : FeatureFacts(f)'
    <3>1. \A f \in features' : f \in features \/ \E s \in Used(m) : f = Feature(m, s)
      BY <2>1
    <3>2. QED  BY <3>1, <2>3, <2>4
  <2>6. observations' = {}
    <3>1. pc \notin {"split", "done"}  BY <2>1, <1>10
    <3>2. QED  BY <3>1, <2>1, <1>3
  <2>7. BarsOnSessions'  BY <2>1 DEF Causal, BarsOnSessions, inputs
  <2>8. QED  BY <1>1, <2>2, <2>5, <2>6, <2>7 DEF Causal
<1>11. ASSUME NEW m \in Methods, NEW from \in {"articles", "counts"}, FinalizeRaises(m, from)
       PROVE  Causal'
  BY <1>4, <1>11 DEF FinalizeRaises, Goto
<1>12. CASE BeginCounts  BY <1>5, <1>12 DEF BeginCounts, Goto
<1>13. CASE DowngradeRefused  BY <1>4, <1>13 DEF DowngradeRefused, Goto
<1>14. CASE AssignCountRaises  BY <1>4, <1>14 DEF AssignCountRaises, Goto
<1>15. CASE BuildObservations
  <2>1. inputs' = inputs /\ bucket' = bucket /\ features' = features /\ pc = "join" /\ pc' = "split"
    BY <1>15 DEF BuildObservations, Goto
  <2>2. BucketsKnown'  BY <2>1 DEF inputs, Causal, BucketsKnown, KnownAt
  <2>3. \A f \in features' : FeatureFacts(f)'  BY <2>1, FactsKept DEF Causal
  <2>4. \A o \in observations' : \E f \in features, g \in Mappings : o = Observation(f, g)
    BY <1>15 DEF BuildObservations
  <2>5. ASSUME NEW f, NEW g PROVE Observation(f, g)' = Observation(f, g)
    BY <2>1 DEF inputs, Observation, Complete, Adjusted, HasReturn, BarAt, Between
  <2>6. \A o \in observations' : ObservationFacts(o)'
    <3>1. ASSUME NEW o \in observations' PROVE ObservationFacts(o)'
      <4>1. PICK f \in features, g \in Mappings : o = Observation(f, g)  BY <2>4
      <4>2. f \in features' /\ o = Observation(f, g)'  BY <4>1, <2>1, <2>5
      <4>3. QED  BY <4>1, <4>2, <2>1 DEF ObservationFacts
    <3>2. QED  BY <3>1
  <2>7. BarsOnSessions'  BY <2>1 DEF Causal, BarsOnSessions, inputs
  <2>8. QED  BY <1>1, <2>2, <2>3, <2>6, <2>7 DEF Causal
<1>16. CASE AssignSplits  BY <1>5, <1>16 DEF AssignSplits, Goto
<1>17. CASE UNCHANGED vars
  <2>1. inputs' = inputs /\ bucket' = bucket /\ features' = features
        /\ observations' = observations /\ pc' = pc
    BY <1>17 DEF vars
  <2>2. BarsOnSessions'  BY <2>1 DEF Causal, BarsOnSessions, inputs
  <2>3. QED  BY <1>2, <1>3, <2>1, <2>2
<1>18. "articles" \in Methods /\ "counts" \in Methods  BY DEF Methods
<1>19. QED
  BY <1>6, <1>7, <1>8, <1>9, <1>10, <1>11, <1>12, <1>13, <1>14, <1>15, <1>16, <1>17, <1>18
  DEF Next, Ended

\* The facts about features and observations are what the property says of them.
LEMMA CausalIsEnough == ASSUME MorningCutoffs, Causal PROVE NoLookahead
<1> SUFFICES ASSUME NEW o \in observations
             PROVE  LET f == o.news IN
                    /\ \A x \in f.sources : KnownAt(x) <= f.cutoff
                    /\ \A u \in f.history : \A x \in bucket[f.method][u] : KnownAt(x) <= f.cutoff
                    /\ o.prior # NoBar => Closing[o.prior] <= f.cutoff
                    /\ f.cutoff <= Opening[o.session]
                    /\ \A k \in Offsets :
                         o.targets[k] # NoBar => f.cutoff < Closing[o.targets[k]]
  BY DEF NoLookahead
<1>1. PICK f \in features, g \in Mappings : o = Observation(f, g)
  BY DEF Causal, ObservationFacts
<1>2. FeatureFacts(f) /\ BuildType  BY DEF Causal
<1>3. /\ o.news = f /\ o.session = f.session
      /\ o.prior = BarAt(g.symbol, f.session, -1)
      /\ \A k \in Offsets : o.targets[k] = BarAt(g.symbol, f.session, k)
  BY <1>1 DEF Observation
<1> DEFINE s == f.session
           c == Cutoff(s, config.buffer)
<1>4. config.buffer \in Nat /\ MorningCutoff(config.buffer)
  BY <1>2, ConfigType DEF BuildType, MorningCutoffs
<1>5. s \in Sessions /\ f.method \in Methods /\ f.cutoff = c /\ s \in Nat
  BY <1>2, SessionsAreNaturals DEF FeatureFacts
<1>6. Opening[s] \in Nat /\ Closing[s] \in Nat /\ Opening[s] < Closing[s]
  BY <1>5, CalendarAssumption
<1>7. c \in Int /\ c <= Opening[s]  BY <1>4, <1>6 DEF Cutoff
<1>8. \A symbol \in Symbols : bars[symbol] \subseteq Sessions
  BY DEF Causal, ObservationFacts, BarsOnSessions
<1>9. g.symbol \in Symbols  BY DatasetAssumption
<1>10. \A x \in f.sources : KnownAt(x) <= c
  BY <1>2, <1>5 DEF FeatureFacts, Causal, BucketsKnown
<1>11. ASSUME NEW u \in f.history, NEW x \in bucket[f.method][u] PROVE KnownAt(x) <= c
  <2>1. u \in Sessions /\ u < s  BY <1>2 DEF FeatureFacts
  <2>2. KnownAt(x) <= Cutoff(u, config.buffer)  BY <1>5, <2>1 DEF Causal, BucketsKnown
  <2>3. x \in Sources  BY <1>2, <1>5, <2>1 DEF BuildType
  <2>4. KnownAt(x) \in Nat  BY <1>2, <2>3, KnownAtType
  <2>5. Cutoff(u, config.buffer) <= c  BY <1>4, <1>5, <2>1, SessionsInOrder
  <2>6. Cutoff(u, config.buffer) \in Int
    BY <1>4, <2>1, CalendarAssumption DEF Cutoff
  <2>7. QED  BY <1>7, <2>2, <2>4, <2>5, <2>6
<1>12. ASSUME o.prior # NoBar PROVE Closing[o.prior] <= c
  <2>1. o.prior \in bars[g.symbol] /\ o.prior < s  BY <1>3, <1>12, BarPlace
  <2>2. o.prior \in Sessions  BY <2>1, <1>8, <1>9
  <2>3. QED  BY <1>4, <1>5, <2>1, <2>2, SessionsInOrder
<1>13. ASSUME NEW k \in Offsets, o.targets[k] # NoBar PROVE c < Closing[o.targets[k]]
  <2>1. k \in Nat  BY DatasetAssumption DEF Offsets
  <2>2. o.targets[k] \in bars[g.symbol] /\ s <= o.targets[k]
    <3>1. k \in Int /\ k >= 0  BY <2>1
    <3>2. QED  BY <1>3, <1>13, <3>1, BarPlace
  <2>3. o.targets[k] \in Sessions /\ o.targets[k] \in Nat
    BY <2>2, <1>8, <1>9, SessionsAreNaturals
  <2>4. CASE o.targets[k] = s  BY <2>4, <1>6, <1>7
  <2>5. CASE o.targets[k] # s
    <3>1. s < o.targets[k]  BY <2>2, <2>3, <2>5, <1>5
    <3>2. QED  BY <1>4, <1>5, <2>3, <3>1, SessionsInOrder
  <2>6. QED  BY <2>4, <2>5
<1>14. QED  BY <1>3, <1>5, <1>7, <1>10, <1>11, <1>12, <1>13

\* Whatever the calendar, the corpus and the gaps in the bars, an observation is
\* made of what is known at its cutoff and predicts what comes after it.
THEOREM DatasetNeverLooksAhead == ASSUME MorningCutoffs PROVE Spec => []NoLookahead
<1>1. Init => Causal
  <2>1. Init => BuildType  BY BuildTypeInit
  <2>2. QED  BY <2>1 DEF Init, Causal, BucketsKnown, BarsOnSessions, Methods
<1>2. Causal /\ [Next]_vars => Causal'  BY CausalNext
<1>3. Causal => NoLookahead  BY CausalIsEnough
<1>4. QED  BY <1>1, <1>2, <1>3, PTL DEF Spec

-----------------------------------------------------------------------------
(* The chronological split.  Labels are a function of the position of a    *)
(* session among the observed ones, and so is the reach of an observation  *)
(* when no bar is missing: the rest is counting.                           *)

Labelled ==
    /\ \A f \in features : f.session \in Sessions
    /\ \A o \in observations : \E f \in features, g \in Mappings : o = Observation(f, g)
    /\ pc # "done" => label = << >>
    /\ label = << >> \/ label = [s \in ObservedSessions |-> Split(Rank(s))]

\* A build begins with no record and no label.
LEMMA LabelledInit == Init => Labelled
BY DEF Init, Labelled

\* Records are computed from the bars, which never change, and labels from the
\* observations, which have been made by then.
LEMMA LabelledNext == ASSUME Labelled, [Next]_vars PROVE Labelled'
<1>1. ASSUME inputs' = inputs, features \subseteq features',
             \A f \in features' : f.session \in Sessions,
             observations' = observations, label' = label, pc # "done"
      PROVE  Labelled'
  <2>1. ASSUME NEW f, NEW g PROVE Observation(f, g)' = Observation(f, g)
    BY <1>1 DEF inputs, Observation, Complete, Adjusted, HasReturn, BarAt, Between
  <2>2. \A o \in observations' : \E f \in features', g \in Mappings : o = Observation(f, g)'
    <3>1. ASSUME NEW o \in observations'
          PROVE  \E f \in features', g \in Mappings : o = Observation(f, g)'
      <4>1. PICK f \in features, g \in Mappings : o = Observation(f, g)
        BY <1>1 DEF Labelled
      <4>2. f \in features' /\ o = Observation(f, g)'  BY <4>1, <1>1, <2>1
      <4>3. QED  BY <4>2
    <3>2. QED  BY <3>1
  <2>3. label' = << >>  BY <1>1 DEF Labelled
  <2>4. QED  BY <1>1, <2>2, <2>3 DEF Labelled
<1>2. ASSUME inputs' = inputs, features' = features, observations' = observations,
             label' = label, pc # "done"
      PROVE  Labelled'
  BY <1>1, <1>2 DEF Labelled
<1>3. CASE MarketSeriesBuilt  BY <1>3, <1>2 DEF MarketSeriesBuilt, Goto
<1>4. CASE MarketSeriesRaises  BY <1>4, <1>2 DEF MarketSeriesRaises, Goto
<1>5. CASE AssignArticle  BY <1>5, <1>2 DEF AssignArticle, Goto
<1>6. CASE AssignCount  BY <1>6, <1>2 DEF AssignCount, Goto
<1>7. ASSUME NEW m \in Methods, NEW from \in {"articles", "counts"},
             NEW to \in {"downgrade", "join"}, Finalize(m, from, to)
      PROVE  Labelled'
  <2>1. /\ inputs' = inputs /\ observations' = observations /\ label' = label
        /\ pc # "done"
        /\ features' = features \cup {Feature(m, s) : s \in Used(m)}
    BY <1>7 DEF Finalize, Goto
  <2>2. \A s \in Used(m) : Feature(m, s).session \in Sessions  BY DEF Feature, Used
  <2>3. \A f \in features' : f.session \in Sessions  BY <2>1, <2>2 DEF Labelled
  <2>4. QED  BY <2>1, <2>3, <1>1
<1>8. ASSUME NEW m \in Methods, NEW from \in {"articles", "counts"}, FinalizeRaises(m, from)
      PROVE  Labelled'
  BY <1>8, <1>2 DEF FinalizeRaises, Goto
<1>9. CASE BeginCounts  BY <1>9, <1>2 DEF BeginCounts, Goto
<1>10. CASE DowngradeRefused  BY <1>10, <1>2 DEF DowngradeRefused, Goto
<1>11. CASE AssignCountRaises  BY <1>11, <1>2 DEF AssignCountRaises, Goto
<1>12. CASE BuildObservations
  <2>1. inputs' = inputs /\ features' = features /\ label' = label /\ pc = "join" /\ pc' = "split"
    BY <1>12 DEF BuildObservations, Goto
  <2>2. \A o \in observations' : \E f \in features, g \in Mappings : o = Observation(f, g)
    BY <1>12 DEF BuildObservations
  <2>3. ASSUME NEW f, NEW g PROVE Observation(f, g)' = Observation(f, g)
    BY <2>1 DEF inputs, Observation, Complete, Adjusted, HasReturn, BarAt, Between
  <2>4. \A o \in observations' : \E f \in features', g \in Mappings : o = Observation(f, g)'
    BY <2>1, <2>2, <2>3
  <2>5. label' = << >>  BY <2>1 DEF Labelled
  <2>6. QED  BY <2>1, <2>4, <2>5 DEF Labelled
<1>13. ASSUME inputs' = inputs, features' = features, observations' = observations
       PROVE  /\ (\A o \in observations : \E f \in features, g \in Mappings : o = Observation(f, g))'
              /\ [s \in ObservedSessions |-> Split(Rank(s))]'
                   = [s \in ObservedSessions |-> Split(Rank(s))]
  <2>1. ASSUME NEW f, NEW g PROVE Observation(f, g)' = Observation(f, g)
    BY <1>13 DEF inputs, Observation, Complete, Adjusted, HasReturn, BarAt, Between
  <2>2. \A o \in observations' : \E f \in features', g \in Mappings : o = Observation(f, g)'
    BY <1>13, <2>1 DEF Labelled
  <2>3. [s \in ObservedSessions |-> Split(Rank(s))]'
           = [s \in ObservedSessions |-> Split(Rank(s))]
    BY <1>13 DEF ObservedSessions, Split, Rank, Embargoed, Boundaries
  <2>4. QED  BY <2>2, <2>3
<1>14. CASE AssignSplits
  <2>1. /\ inputs' = inputs /\ features' = features /\ observations' = observations
        /\ pc' = "done" /\ label' = [s \in ObservedSessions |-> Split(Rank(s))]
    BY <1>14 DEF AssignSplits, Goto
  <2>2. label' = [s \in ObservedSessions |-> Split(Rank(s))]'  BY <2>1, <1>13
  <2>3. QED  BY <2>1, <2>2, <1>13 DEF Labelled
<1>15. CASE UNCHANGED vars
  <2>1. /\ inputs' = inputs /\ features' = features /\ observations' = observations
        /\ pc' = pc /\ label' = label
    BY <1>15 DEF vars
  <2>2. QED  BY <2>1, <1>13 DEF Labelled
<1>16. "articles" \in Methods /\ "counts" \in Methods  BY DEF Methods
<1>17. QED
  BY <1>3, <1>4, <1>5, <1>6, <1>7, <1>8, <1>9, <1>10, <1>11, <1>12, <1>14, <1>15, <1>16
  DEF Next, Ended

\* Two positions with labels of different partitions, the embargo left out, are
\* more than a horizon apart: a boundary lies between them.
LEMMA EmbargoIsLong ==
    ASSUME NEW i \in Nat, NEW j \in Nat, Cardinality(ObservedSessions) \in Nat,
           Split(i) # "embargo", Split(j) # "embargo", Order[Split(i)] < Order[Split(j)]
    PROVE  i + Horizon < j
<1> DEFINE n == Cardinality(ObservedSessions)
           B == (6 * n) \div 10
           C == (8 * n) \div 10
<1>1. Boundaries[1] = B /\ Boundaries[2] = C  BY DEF Boundaries
<1>2. B \in Nat /\ C \in Nat /\ B <= C  OBVIOUS
<1>3. Horizon \in Nat  BY DatasetAssumption
<1> HIDE DEF n, B, C
<1>4. /\ ~Embargoed(i)
      /\ Split(i) = IF i < B THEN "development" ELSE IF i < C THEN "validation" ELSE "holdout"
  BY <1>1 DEF Split
<1>5. /\ ~Embargoed(j)
      /\ Split(j) = IF j < B THEN "development" ELSE IF j < C THEN "validation" ELSE "holdout"
  BY <1>1 DEF Split
<1>6. (i < B => i < B - Horizon) /\ (i < C => i < C - Horizon)
  <2>1. ~(i < Boundaries[1] /\ i >= Boundaries[1] - Horizon)
        /\ ~(i < Boundaries[2] /\ i >= Boundaries[2] - Horizon)
    BY <1>4 DEF Embargoed
  <2>2. QED  BY <2>1, <1>1, <1>2, <1>3
<1>7. /\ Order["development"] = 1 /\ Order["validation"] = 2 /\ Order["holdout"] = 3
  BY DEF Order
<1>8. (i < B /\ B <= j) \/ (i < C /\ C <= j)
  BY <1>2, <1>4, <1>5, <1>7
<1>9. QED  BY <1>2, <1>3, <1>6, <1>8

\* The calendar has finitely many days.
LEMMA FinitelyManyDays == IsFiniteSet(1..LastDay)
<1>1. 1 \in Int /\ LastDay \in Int  BY SessionsAreNaturals
<1>2. QED  BY <1>1, FS_Interval

\* The observed sessions are sessions of the calendar, finitely many.
LEMMA ObservedAreSessions ==
    ASSUME Labelled
    PROVE  /\ ObservedSessions \subseteq Sessions
           /\ IsFiniteSet(ObservedSessions)
           /\ Cardinality(ObservedSessions) \in Nat
<1>1. ASSUME NEW o \in observations PROVE o.session \in Sessions
  <2>1. PICK f \in features, g \in Mappings : o = Observation(f, g)  BY DEF Labelled
  <2>2. o.session = f.session  BY <2>1 DEF Observation
  <2>3. QED  BY <2>2 DEF Labelled
<1>2. ObservedSessions \subseteq Sessions  BY <1>1 DEF ObservedSessions
<1>3. IsFiniteSet(1..LastDay)  BY FinitelyManyDays
<1>4. ObservedSessions \in SUBSET (1..LastDay)  BY <1>2, SessionsAreNaturals
<1>5. IsFiniteSet(ObservedSessions)  BY <1>3, <1>4, FS_Subset
<1>6. QED  BY <1>2, <1>5, FS_CardinalityType

\* Earlier sessions have smaller ranks.
LEMMA RanksAreOrdered ==
    ASSUME Labelled, NEW s \in Sessions, NEW u \in Sessions, s <= u
    PROVE  Rank(s) \in Nat /\ Rank(u) \in Nat /\ Rank(s) <= Rank(u)
<1> DEFINE S == {v \in ObservedSessions : v < s}
           U == {v \in ObservedSessions : v < u}
<1>1. ObservedSessions \subseteq Nat /\ s \in Nat /\ u \in Nat
  BY ObservedAreSessions, SessionsAreNaturals
<1>2. S \in SUBSET U
  <2>1. ASSUME NEW v \in S PROVE v \in U  BY <1>1
  <2>2. QED  BY <2>1
<1>3. IsFiniteSet(ObservedSessions) /\ U \in SUBSET ObservedSessions
  BY ObservedAreSessions
<1>4. Rank(s) = Cardinality(S) /\ Rank(u) = Cardinality(U)  BY DEF Rank
<1> HIDE DEF S, U
<1>5. IsFiniteSet(U)  BY <1>3, FS_Subset
<1>6. IsFiniteSet(S) /\ Cardinality(S) <= Cardinality(U)  BY <1>2, <1>5, FS_Subset
<1>7. Cardinality(S) \in Nat /\ Cardinality(U) \in Nat  BY <1>5, <1>6, FS_CardinalityType
<1>8. QED  BY <1>4, <1>6, <1>7

\* A session up to which the bars have no gap is at most as many ranks away as
\* there are bars between.
LEMMA RankByBars ==
    ASSUME Labelled, NEW symbol \in Symbols, bars[symbol] = Sessions,
           NEW s \in Sessions, NEW b \in Sessions, NEW u \in Sessions, u <= b
    PROVE  /\ Cardinality(Between(symbol, s, b)) \in Nat
           /\ Rank(u) <= Rank(s) + 1 + Cardinality(Between(symbol, s, b))
<1> DEFINE S == {v \in ObservedSessions : v < s}
           U == {v \in ObservedSessions : v < u}
           W == Between(symbol, s, b)
           T == S \cup {s}
<1>1. ObservedSessions \subseteq Sessions /\ Sessions \subseteq Nat
      /\ IsFiniteSet(ObservedSessions)
  BY ObservedAreSessions, SessionsAreNaturals
<1>2. W = {d \in Sessions : s < d /\ d <= b}  BY DEF Between
<1>3. U \in SUBSET (T \cup W)
  <2>1. ASSUME NEW v \in U PROVE v \in T \cup W
    <3>1. v \in ObservedSessions /\ v \in Sessions /\ v \in Nat /\ v < u  BY <1>1
    <3>2. s \in Nat /\ b \in Nat /\ u \in Nat  BY <1>1
    <3>3. v < s \/ v = s \/ (s < v /\ v <= b)  BY <3>1, <3>2
    <3>4. CASE v < s  BY <3>1, <3>4
    <3>5. CASE v = s  BY <3>5
    <3>6. CASE s < v /\ v <= b  BY <3>1, <3>6, <1>2
    <3>7. QED  BY <3>3, <3>4, <3>5, <3>6
  <2>2. QED  BY <2>1
<1>4. Rank(s) = Cardinality(S) /\ Rank(u) = Cardinality(U)  BY DEF Rank
<1>5. S \in SUBSET ObservedSessions  OBVIOUS
<1>6. IsFiniteSet(1..LastDay) /\ W \in SUBSET (1..LastDay)
  <2>1. IsFiniteSet(1..LastDay)  BY FinitelyManyDays
  <2>2. W \subseteq 1..LastDay  BY <1>2, SessionsAreNaturals
  <2>3. QED  BY <2>1, <2>2
<1>7. s \notin S  BY <1>1
<1> HIDE DEF S, U, W
<1>8. IsFiniteSet(S)  BY <1>1, <1>5, FS_Subset
<1>9. IsFiniteSet(W)  BY <1>6, FS_Subset
<1>10. IsFiniteSet(T) /\ Cardinality(T) = Cardinality(S) + 1  BY <1>7, <1>8, FS_AddElement
<1> HIDE DEF T
<1>11. /\ IsFiniteSet(T \cup W)
       /\ Cardinality(T \cup W) = Cardinality(T) + Cardinality(W) - Cardinality(T \cap W)
  BY <1>9, <1>10, FS_Union
<1>12. IsFiniteSet(T \cap W)
  <2>1. T \cap W \in SUBSET W  OBVIOUS
  <2>2. QED  BY <2>1, <1>9, FS_Subset
<1>13. /\ Cardinality(S) \in Nat /\ Cardinality(W) \in Nat
       /\ Cardinality(T \cap W) \in Nat
  BY <1>8, <1>9, <1>12, FS_CardinalityType
<1>14. IsFiniteSet(U) /\ Cardinality(U) <= Cardinality(T \cup W)  BY <1>3, <1>11, FS_Subset
<1>15. Cardinality(U) \in Nat  BY <1>14, FS_CardinalityType
<1>16. Cardinality(U) <= Cardinality(S) + 1 + Cardinality(W)
  BY <1>10, <1>11, <1>13, <1>14, <1>15
<1>17. QED  BY <1>4, <1>13, <1>16 DEF W

\* What the labels and the records say together is what the property says.
LEMMA LabelledIsEnough == ASSUME Labelled PROVE EmbargoSeparates
<1> SUFFICES ASSUME NoGaps, NEW o \in observations, NEW s \in DOMAIN label,
                    label[o.session] # "embargo", label[s] # "embargo",
                    Order[label[o.session]] < Order[label[s]]
             PROVE  Reach(o) < s
  BY DEF EmbargoSeparates, PartitionsApart
<1>1. PICK f \in features, g \in Mappings : o = Observation(f, g)  BY DEF Labelled
<1> DEFINE r == o.session
<1>2. r \in ObservedSessions /\ r \in Sessions /\ r = f.session
  <2>1. r \in ObservedSessions  BY DEF ObservedSessions
  <2>2. QED  BY <2>1, <1>1, ObservedAreSessions DEF Observation
<1>3. label = [u \in ObservedSessions |-> Split(Rank(u))]  BY DEF Labelled
<1>4. s \in ObservedSessions /\ s \in Sessions  BY <1>3, ObservedAreSessions
<1>5. label[r] = Split(Rank(r)) /\ label[s] = Split(Rank(s))  BY <1>2, <1>3, <1>4
<1>6. Sessions \subseteq Nat  BY SessionsAreNaturals
<1>7. Rank(r) \in Nat /\ Rank(s) \in Nat /\ (s <= r => Rank(s) <= Rank(r))
  <2>1. r \in Nat /\ s \in Nat /\ (r <= s \/ s <= r)  BY <1>2, <1>4, <1>6
  <2>2. r <= s => Rank(r) \in Nat /\ Rank(s) \in Nat  BY <1>2, <1>4, RanksAreOrdered
  <2>3. s <= r => Rank(r) \in Nat /\ Rank(s) \in Nat /\ Rank(s) <= Rank(r)
    BY <1>2, <1>4, RanksAreOrdered
  <2>4. QED  BY <2>1, <2>2, <2>3
<1>8. Rank(r) + Horizon < Rank(s)
  <2>1. Cardinality(ObservedSessions) \in Nat  BY ObservedAreSessions
  <2>2. Split(Rank(r)) # "embargo" /\ Split(Rank(s)) # "embargo"
        /\ Order[Split(Rank(r))] < Order[Split(Rank(s))]
    BY <1>5
  <2>3. QED  BY <2>1, <2>2, <1>7, EmbargoIsLong
<1>9. Horizon \in Nat \ {0} /\ g.symbol \in Symbols  BY DatasetAssumption
<1>10. bars[g.symbol] = Sessions  BY DEF NoGaps
<1>11. CASE ~o.complete
  <2>1. ~(s <= r)  BY <1>7, <1>8, <1>9
  <2>2. r < s  BY <2>1, <1>2, <1>4, <1>6
  <2>3. QED  BY <2>2, <1>11 DEF Reach
<1>12. CASE o.complete
  <2> DEFINE k == Horizon - 1
             b == BarAt(g.symbol, r, k)
  <2>1. k \in Offsets /\ k \in Nat  BY <1>9 DEF Offsets
  <2>2. Complete(g.symbol, r) /\ o.targets[k] = b  BY <1>1, <1>2, <1>12, <2>1 DEF Observation
  <2>3. b # NoBar  BY <2>1, <2>2 DEF Complete
  <2>4. b \in bars[g.symbol] /\ Cardinality(Between(g.symbol, r, b)) = k
    <3> DEFINE hits == {c \in bars[g.symbol] :
                          r <= c /\ Cardinality(Between(g.symbol, r, c)) = k}
    <3>1. b = IF r \in bars[g.symbol] /\ hits # {} THEN CHOOSE c \in hits : TRUE ELSE NoBar
      BY <2>1 DEF BarAt
    <3>2. hits # {} /\ b = CHOOSE c \in hits : TRUE  BY <2>3, <3>1
    <3>3. b \in hits  BY <3>2
    <3>4. QED  BY <3>3
  <2> HIDE DEF b
  <2>5. b \in Sessions  BY <2>4, <1>10
  <2>6. s <= b => Rank(s) <= Rank(r) + 1 + k
    BY <2>4, <2>5, <1>2, <1>4, <1>9, <1>10, RankByBars
  <2>7. ~(s <= b)  BY <2>6, <1>7, <1>8, <1>9
  <2>8. b < s  BY <2>5, <2>7, <1>4, <1>6
  <2>9. QED  BY <2>2, <2>8, <1>12 DEF Reach
<1>13. QED  BY <1>11, <1>12

\* Whatever the calendar, the corpus, the mappings and the horizon, as long as no
\* instrument misses a bar, what an observation is to predict lies before every
\* session of a later partition: the embargo of assign_chronological_splits is long enough.
THEOREM EmbargoIsEnough == Spec => []EmbargoSeparates
<1>1. Init => Labelled  BY LabelledInit
<1>2. Labelled /\ [Next]_vars => Labelled'  BY LabelledNext
<1>3. Labelled => EmbargoSeparates  BY LabelledIsEnough
<1>4. QED  BY <1>1, <1>2, <1>3, PTL DEF Spec
=============================================================================
