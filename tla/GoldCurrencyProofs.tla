------------------------- MODULE GoldCurrencyProofs -------------------------
(***************************************************************************)
(* Theorems about GoldCurrency, for all requests, symbols that are listed, *)
(* quotes and durations.                                                   *)
(***************************************************************************)
EXTENDS GoldCurrency, TLAPS

-----------------------------------------------------------------------------
(***************************************************************************)
(* The merge.                                                              *)
(***************************************************************************)
\* Every weight is a positive number.
LEMMA WeightsPositive ==
  ASSUME NEW s
  PROVE  WeightOf(s) \in Nat \ {0}
<1>1. s \in DOMAIN CoinWeight => CoinWeight[s] \in Nat \ {0}
  BY DEF CoinWeight
<1>2. s \in DOMAIN ParsianWeight => ParsianWeight[s] \in Nat \ {0}
  BY DEF ParsianWeight
<1>3. s \in DOMAIN OtherWeight => OtherWeight[s] \in Nat \ {0}
  BY DEF OtherWeight
<1>4. QED
  BY <1>1, <1>2, <1>3 DEF WeightOf, Unit

\* What TABAN lets be said of a listed symbol is a number.
LEMMA TabanPriceType ==
  ASSUME NEW t \in TabanReplies, NEW s \in Listed
  PROVE  TabanPrice(t, s) \in Int
<1>1. CASE s \in ByGram
  <2>1. s \in DOMAIN Gold => Gold[s] \in Nat
    BY DEF Gold
  <2>2. s \in DOMAIN Melted => Melted[s] \in Nat
    BY DEF Melted
  <2>3. s \in DOMAIN Parsian => Parsian[s] \in Nat
    BY DEF Parsian
  <2>4. s \in DOMAIN ParsianMilligrams => ParsianMilligrams[s] \in Nat
    BY DEF ParsianMilligrams
  <2>5. Grams(s) \in Nat
    BY <1>1, <2>1, <2>2, <2>3, <2>4 DEF Grams, ByGram
  <2>6. QED
    BY <1>1, <2>5 DEF TabanPrice, TabanReplies
<1>2. CASE s \notin ByGram /\ s \in DOMAIN Coins
  <2>1. t[Coins[s]] \in Nat
    BY <1>2 DEF Coins, TabanReplies
  <2>2. QED
    BY <1>2, <2>1 DEF TabanPrice, Unit
<1>3. CASE s \notin ByGram /\ s \notin DOMAIN Coins
  BY <1>3 DEF TabanPrice, TabanReplies, Unit
<1>4. QED
  BY <1>1, <1>2, <1>3

\* The quote that is taken is of the later of the two days.
Later(d, e) == IF d >= e THEN d ELSE e

LEMMA QuoteType ==
  ASSUME NEW t \in TabanReplies, NEW item \in [date : Nat, price : Nat], NEW price \in Int
  PROVE  /\ Quote(t, item, price) \in Items
         /\ Quote(t, item, price).day = Later(t.day, item.date)
         /\ Quote(t, item, price).base = "T" => Quote(t, item, price).price = price
<1>1. t.day \in Nat
  BY DEF TabanReplies
<1>2. CASE TakesBrs(t, item, price)
  <2>1. Later(t.day, item.date) = item.date
    BY <1>1, <1>2 DEF TakesBrs, Later
  <2>2. QED
    BY <1>2, <2>1 DEF Quote, Items
<1>3. CASE ~TakesBrs(t, item, price)
  <2>1. Later(t.day, item.date) = t.day
    BY <1>1, <1>3 DEF TakesBrs, Later
  <2>2. QED
    BY <1>1, <1>3, <2>1 DEF Quote, Items
<1>4. QED
  BY <1>2, <1>3

\* The coins that are added have the day and the source of the 100 mg coin.
LEMMA PartType ==
  ASSUME NEW quotes \in [Listed -> Items], NEW s \in DOMAIN Tenths
  PROVE  /\ Part(quotes, s) \in Items
         /\ "IR_PCOIN_100MG" \in Listed =>
              /\ Part(quotes, s).day = quotes["IR_PCOIN_100MG"].day
              /\ Part(quotes, s).base = quotes["IR_PCOIN_100MG"].base
              /\ Part(quotes, s).price = (quotes["IR_PCOIN_100MG"].price * Tenths[s]) \div 10
         /\ "IR_PCOIN_100MG" \notin Listed =>
              Part(quotes, s).day = 0 /\ Part(quotes, s).base = "none"
<1>1. Tenths[s] \in Nat
  BY DEF Tenths
<1>2. CASE "IR_PCOIN_100MG" \in Listed
  <2>1. quotes["IR_PCOIN_100MG"] \in Items
    BY <1>2
  <2>2. (quotes["IR_PCOIN_100MG"].price * Tenths[s]) \div 10 \in Int
    BY <1>1, <2>1 DEF Items
  <2>3. QED
    BY <1>2, <2>1, <2>2 DEF Part, Items
<1>3. CASE "IR_PCOIN_100MG" \notin Listed
  BY <1>3 DEF Part, Items
<1>4. QED
  BY <1>2, <1>3

\* A price of a gram is of the same day and source.
LEMMA PerGramType ==
  ASSUME NEW q \in Items, NEW s
  PROVE  /\ PerGram(q, s) \in Items
         /\ PerGram(q, s).day = q.day
         /\ PerGram(q, s).base = q.base
         /\ PerGram(q, s).price = q.price \div WeightOf(s)
<1>1. q.price \div WeightOf(s) \in Int
  BY WeightsPositive DEF Items
<1>2. QED
  BY <1>1 DEF PerGram, Items

\* The day of a symbol in an answer made of two replies.
DayOf(t, b, s) ==
  IF s \in Listed THEN Later(t.day, b[s].date)
  ELSE IF "IR_PCOIN_100MG" \in Listed THEN Later(t.day, b["IR_PCOIN_100MG"].date)
  ELSE 0

QuotesOf(t, b) == [s \in Listed |-> Quote(t, b[s], TabanPrice(t, s))]

\* What the merge makes of two replies, symbol by symbol.
LEMMA QuotesType ==
  ASSUME NEW t \in TabanReplies, NEW b \in BrsReplies
  PROVE  /\ QuotesOf(t, b) \in [Listed -> Items]
         /\ \A s \in Listed :
              /\ QuotesOf(t, b)[s].day = Later(t.day, b[s].date)
              /\ QuotesOf(t, b)[s].base = "T" => QuotesOf(t, b)[s].price = TabanPrice(t, s)
<1>1. ASSUME NEW s \in Listed
      PROVE  b[s] \in [date : Nat, price : Nat] /\ TabanPrice(t, s) \in Int
  BY <1>1, TabanPriceType DEF BrsReplies
<1>2. QED
  BY <1>1, QuoteType DEF QuotesOf

LEMMA MergeType ==
  ASSUME NEW t \in TabanReplies, NEW b \in BrsReplies
  PROVE  /\ Merge(t, b) \in Answers
         /\ \A s \in Symbols : Merge(t, b)[s].day = DayOf(t, b, s)
<1> DEFINE item(s) == IF s \in Listed THEN QuotesOf(t, b)[s] ELSE Part(QuotesOf(t, b), s)
<1>1. Merge(t, b) = [s \in Symbols |-> PerGram(item(s), s)]
  BY DEF Merge, QuotesOf
<1>2. ASSUME NEW s \in Symbols
      PROVE  item(s) \in Items /\ item(s).day = DayOf(t, b, s)
  <2>1. CASE s \in Listed
    BY <2>1, QuotesType DEF DayOf
  <2>2. CASE s \notin Listed
    <3>1. s \in DOMAIN Tenths
      BY <2>2 DEF Symbols
    <3>2. QED
      BY <2>2, <3>1, QuotesType, PartType DEF DayOf
  <2>3. QED
    BY <2>1, <2>2
<1> HIDE DEF item
<1>3. ASSUME NEW s \in Symbols
      PROVE  PerGram(item(s), s) \in Items /\ PerGram(item(s), s).day = DayOf(t, b, s)
  BY <1>2, PerGramType
<1>4. QED
  BY <1>1, <1>3 DEF Answers

-----------------------------------------------------------------------------
(***************************************************************************)
(* Type correctness.                                                       *)
(***************************************************************************)
\* A request that has failed or not begun has nothing.
LEMMA NoFetchType ==
  ASSUME NEW at \in {"idle", "failed"}
  PROVE  [NoFetch EXCEPT !.at = at] \in Fetches /\ HasReplies([NoFetch EXCEPT !.at = at])
BY DEF NoFetch, Fetches, HasReplies

\* A request that is answered has the answer.
LEMMA AnsweredType ==
  ASSUME NEW data \in Answers
  PROVE  /\ [NoFetch EXCEPT !.at = "answered", !.data = data] \in Fetches
         /\ HasReplies([NoFetch EXCEPT !.at = "answered", !.data = data])
BY DEF NoFetch, Fetches, HasReplies

LEMMA GoldInitType == GoldInit => GoldTypeOK
<1> SUFFICES ASSUME GoldInit PROVE GoldTypeOK
  OBVIOUS
<1>1. NoFetch \in Fetches /\ HasReplies(NoFetch)
  BY DEF NoFetch, Fetches, HasReplies
<1>2. QED
  BY <1>1, QuotesAssumption DEF GoldInit, GoldTypeOK

\* Moving on one request to a well-typed one keeps the type of all of them.
LEMMA FetchType ==
  ASSUME GoldTypeOK, NEW c \in Callers, NEW f \in Fetches, HasReplies(f),
         fetch' = [fetch EXCEPT ![c] = f]
  PROVE  fetch' \in [Callers -> Fetches] /\ \A d \in Callers : HasReplies(fetch'[d])
BY DEF GoldTypeOK

LEMMA AskType ==
  ASSUME GoldTypeOK, NEW c \in Callers, Ask(c)
  PROVE  GoldTypeOK'
<1>1. UNCHANGED <<taban, brs, cache, now, stores>>
  BY DEF Ask
<1>2. CASE Valid
  <2>1. cache.data \in Answers
    BY <1>2 DEF Valid, GoldTypeOK
  <2>2. fetch' = [fetch EXCEPT ![c] = [NoFetch EXCEPT !.at = "answered", !.data = cache.data]]
    BY <1>2 DEF Ask
  <2>3. QED
    BY <1>1, <2>1, <2>2, AnsweredType, FetchType DEF GoldTypeOK
<1>3. CASE ~Valid
  <2> DEFINE f == [NoFetch EXCEPT !.at = "taban", !.since = stores]
  <2>1. fetch' = [fetch EXCEPT ![c] = f]
    BY <1>3 DEF Ask
  <2>2. stores \in Nat
    BY DEF GoldTypeOK
  <2>3. f \in Fetches /\ HasReplies(f)
    BY <2>2 DEF NoFetch, Fetches, HasReplies
  <2> HIDE DEF f
  <2>4. QED
    BY <1>1, <2>1, <2>3, FetchType DEF GoldTypeOK
<1>4. QED
  BY <1>2, <1>3

LEMMA RepliedType ==
  ASSUME GoldTypeOK, NEW c \in Callers, TabanReplied(c) \/ BrsReplied(c)
  PROVE  GoldTypeOK'
<1>1. UNCHANGED <<taban, brs, cache, now, stores>>
  BY DEF TabanReplied, BrsReplied
<1>2. fetch[c] \in Fetches /\ HasReplies(fetch[c]) /\ taban \in TabanReplies /\ brs \in BrsReplies
  BY DEF GoldTypeOK
<1>3. CASE TabanReplied(c)
  <2> DEFINE f == [fetch[c] EXCEPT !.at = "brs", !.taban = taban]
  <2>1. fetch' = [fetch EXCEPT ![c] = f]
    BY <1>3 DEF TabanReplied, GoldTypeOK
  <2>2. f \in Fetches /\ HasReplies(f)
    BY <1>2 DEF Fetches, HasReplies
  <2> HIDE DEF f
  <2>3. QED
    BY <1>1, <2>1, <2>2, FetchType DEF GoldTypeOK
<1>4. CASE BrsReplied(c)
  <2> DEFINE f == [fetch[c] EXCEPT !.at = "merge", !.brs = brs]
  <2>1. fetch' = [fetch EXCEPT ![c] = f] /\ fetch[c].at = "brs"
    BY <1>4 DEF BrsReplied, GoldTypeOK
  <2>2. f \in Fetches /\ HasReplies(f)
    BY <1>2, <2>1 DEF Fetches, HasReplies
  <2> HIDE DEF f
  <2>3. QED
    BY <1>1, <2>1, <2>2, FetchType DEF GoldTypeOK
<1>5. QED
  BY <1>3, <1>4

LEMMA StoreType ==
  ASSUME GoldTypeOK, NEW c \in Callers, Store(c)
  PROVE  GoldTypeOK'
<1> DEFINE data == Merge(fetch[c].taban, fetch[c].brs)
<1>1. data \in Answers
  BY MergeType DEF Store, GoldTypeOK, HasReplies
<1>2. /\ cache' = [data |-> data, at |-> now]
      /\ fetch' = [fetch EXCEPT ![c] = [NoFetch EXCEPT !.at = "answered", !.data = data]]
      /\ stores' = stores + 1
      /\ UNCHANGED <<taban, brs, now>>
  BY DEF Store
<1> HIDE DEF data
<1>3. fetch' \in [Callers -> Fetches] /\ \A d \in Callers : HasReplies(fetch'[d])
  BY <1>1, <1>2, AnsweredType, FetchType
<1>4. QED
  BY <1>1, <1>2, <1>3 DEF GoldTypeOK

LEMMA EndsType ==
  ASSUME GoldTypeOK, NEW c \in Callers, FetchFails(c) \/ Takes(c)
  PROVE  GoldTypeOK'
<1>1. UNCHANGED <<taban, brs, cache, now, stores>>
  BY DEF FetchFails, Takes
<1>2. NoFetch = [NoFetch EXCEPT !.at = "idle"]
  BY DEF NoFetch
<1>3. PICK at \in {"idle", "failed"} : fetch' = [fetch EXCEPT ![c] = [NoFetch EXCEPT !.at = at]]
  BY <1>2 DEF FetchFails, Takes
<1>4. QED
  BY <1>1, <1>3, NoFetchType, FetchType DEF GoldTypeOK

LEMMA GoldTypeStep == GoldTypeOK /\ [GoldNext]_gold => GoldTypeOK'
<1> SUFFICES ASSUME GoldTypeOK, [GoldNext]_gold PROVE GoldTypeOK'
  OBVIOUS
<1>1. CASE World
  <2>1. taban' \in TabanReplies /\ brs' \in BrsReplies /\ now' \in Nat
    BY <1>1, QuotesAssumption DEF World, TabanPublishes, BrsPublishes, Tick, GoldTypeOK
  <2>2. UNCHANGED <<cache, fetch, stores>>
    BY <1>1 DEF World, TabanPublishes, BrsPublishes, Tick
  <2>3. QED
    BY <2>1, <2>2 DEF GoldTypeOK
<1>2. ASSUME NEW c \in Callers, Ask(c) \/ Fetching(c) \/ Reply(c)
      PROVE  GoldTypeOK'
  BY <1>2, AskType, RepliedType, StoreType, EndsType DEF Fetching, Reply
<1>3. CASE UNCHANGED gold
  BY <1>3 DEF gold, GoldTypeOK
<1>4. QED
  BY <1>1, <1>2, <1>3 DEF GoldNext

\* Every variable keeps its type, for all callers, symbols, quotes and durations: in
\* particular a merge of any two replies is an answer with a price for every symbol.
THEOREM GoldTypeCorrect == GoldSpec => []GoldTypeOK
<1>1. QED
  BY GoldInitType, GoldTypeStep, PTL DEF GoldSpec

-----------------------------------------------------------------------------
(***************************************************************************)
(* Prices do not go back.  A source never answers with an older day than   *)
(* it did, so a cache that was stored before a request began is no later   *)
(* than what that request is told; requests that began before the last     *)
(* store know it by since < stores.                                        *)
(***************************************************************************)
\* b is not earlier than a, for any symbol.
NoEarlier(a, b) == \A s \in Listed : a[s].date <= b[s].date

\* Replies of later days make an answer of later days.
LEMMA DayOfMonotone ==
  ASSUME NEW t \in TabanReplies, NEW u \in TabanReplies, t.day <= u.day,
         NEW b \in BrsReplies, NEW d \in BrsReplies, NoEarlier(b, d),
         NEW s \in Symbols
  PROVE  DayOf(t, b, s) <= DayOf(u, d, s)
<1>1. ASSUME NEW r \in Listed
      PROVE  Later(t.day, b[r].date) <= Later(u.day, d[r].date)
  <2>1. t.day \in Nat /\ u.day \in Nat
    BY DEF TabanReplies
  <2>2. b[r].date \in Nat /\ d[r].date \in Nat /\ b[r].date <= d[r].date
    BY <1>1 DEF BrsReplies, NoEarlier
  <2>3. QED
    BY <2>1, <2>2 DEF Later
<1>2. QED
  BY <1>1 DEF DayOf

LEMMA DayOfType ==
  ASSUME NEW t \in TabanReplies, NEW b \in BrsReplies, NEW s \in Symbols
  PROVE  DayOf(t, b, s) \in Nat
BY DEF DayOf, Later, TabanReplies, BrsReplies

\* What the request has, or will have, from BRS.
BrsOf(f, b) == IF f.at = "merge" THEN f.brs ELSE b

\* A request began before or after the last store, and its replies are not of the future.
FetchDated(f) ==
  /\ f.since <= stores
  /\ f.at \in {"brs", "merge"} => f.taban.day <= taban.day
  /\ f.at = "merge" => NoEarlier(f.brs, brs)

\* An answer is of no later day than two replies.
NotAfter(data, t, b) == \A s \in Symbols : data[s].day <= DayOf(t, b, s)

CacheDated == cache # None => NotAfter(cache.data, taban, brs)

\* The cache that a request found has no later day than the replies it gets.
FoundBefore(f) ==
  f.at \in {"brs", "merge"} /\ f.since = stores /\ cache # None
    => NotAfter(cache.data, f.taban, BrsOf(f, brs))

OrderInv ==
  /\ \A c \in Callers : FetchDated(fetch[c]) /\ FoundBefore(fetch[c])
  /\ CacheDated

LEMMA NoEarlierTransitive ==
  ASSUME NEW a \in BrsReplies, NEW b \in BrsReplies, NEW d \in BrsReplies,
         NoEarlier(a, b), NoEarlier(b, d)
  PROVE  NoEarlier(a, d)
<1> SUFFICES ASSUME NEW s \in Listed PROVE a[s].date <= d[s].date
  BY DEF NoEarlier
<1>1. a[s].date \in Nat /\ b[s].date \in Nat /\ d[s].date \in Nat
  BY DEF BrsReplies
<1>2. QED
  BY <1>1 DEF NoEarlier

LEMMA NotAfterMonotone ==
  ASSUME NEW data \in Answers,
         NEW t \in TabanReplies, NEW u \in TabanReplies, t.day <= u.day,
         NEW b \in BrsReplies, NEW d \in BrsReplies, NoEarlier(b, d),
         NotAfter(data, t, b)
  PROVE  NotAfter(data, u, d)
<1> SUFFICES ASSUME NEW s \in Symbols PROVE data[s].day <= DayOf(u, d, s)
  BY DEF NotAfter
<1>1. data[s].day \in Nat
  BY DEF Answers, Items
<1>2. DayOf(t, b, s) \in Nat /\ DayOf(u, d, s) \in Nat
  BY DayOfType
<1>3. data[s].day <= DayOf(t, b, s) /\ DayOf(t, b, s) <= DayOf(u, d, s)
  BY DayOfMonotone DEF NotAfter
<1>4. QED
  BY <1>1, <1>2, <1>3

LEMMA NoEarlierReflexive ==
  ASSUME NEW b \in BrsReplies
  PROVE  NoEarlier(b, b)
BY DEF NoEarlier, BrsReplies

\* When one request moves on and nothing else changes, only that request has to be seen to.
LEMMA OneMoves ==
  ASSUME GoldTypeOK, OrderInv, NEW c \in Callers, NEW f,
         fetch' = [fetch EXCEPT ![c] = f], UNCHANGED <<taban, brs, cache, stores>>,
         FetchDated(f), FoundBefore(f)
  PROVE  OrderInv'
<1>1. CacheDated'
  BY DEF OrderInv, CacheDated, NotAfter
<1>2. ASSUME NEW d \in Callers
      PROVE  FetchDated(fetch[d])' /\ FoundBefore(fetch[d])'
  <2>1. fetch'[d] = IF d = c THEN f ELSE fetch[d]
    BY DEF GoldTypeOK
  <2>2. FetchDated(fetch'[d]) /\ FoundBefore(fetch'[d])
    BY <2>1 DEF OrderInv
  <2>3. QED
    BY <2>2 DEF FetchDated, FoundBefore
<1>3. QED
  BY <1>1, <1>2 DEF OrderInv

LEMMA AskOrder ==
  ASSUME GoldTypeOK, OrderInv, NEW c \in Callers, Ask(c)
  PROVE  OrderInv'
<1>1. UNCHANGED <<taban, brs, cache, stores>> /\ stores \in Nat
  BY DEF Ask, GoldTypeOK
<1>2. CASE Valid
  <2> DEFINE f == [NoFetch EXCEPT !.at = "answered", !.data = cache.data]
  <2>1. fetch' = [fetch EXCEPT ![c] = f]
    BY <1>2 DEF Ask
  <2>2. FetchDated(f) /\ FoundBefore(f)
    BY <1>1 DEF NoFetch, FetchDated, FoundBefore
  <2> HIDE DEF f
  <2>3. QED
    BY <1>1, <2>1, <2>2, OneMoves
<1>3. CASE ~Valid
  <2> DEFINE f == [NoFetch EXCEPT !.at = "taban", !.since = stores]
  <2>1. fetch' = [fetch EXCEPT ![c] = f]
    BY <1>3 DEF Ask
  <2>2. FetchDated(f) /\ FoundBefore(f)
    BY <1>1 DEF NoFetch, FetchDated, FoundBefore
  <2> HIDE DEF f
  <2>3. QED
    BY <1>1, <2>1, <2>2, OneMoves
<1>4. QED
  BY <1>2, <1>3

LEMMA TabanRepliedOrder ==
  ASSUME GoldTypeOK, OrderInv, NEW c \in Callers, TabanReplied(c)
  PROVE  OrderInv'
<1> DEFINE f == [fetch[c] EXCEPT !.at = "brs", !.taban = taban]
<1>1. UNCHANGED <<taban, brs, cache, stores>> /\ fetch' = [fetch EXCEPT ![c] = f]
  BY DEF TabanReplied, GoldTypeOK
<1>2. taban.day \in Nat /\ fetch[c] \in Fetches /\ fetch[c].since <= stores
  BY DEF GoldTypeOK, OrderInv, FetchDated, TabanReplies
<1>3. f.at = "brs" /\ f.taban = taban /\ f.since = fetch[c].since
  BY <1>2 DEF Fetches
<1> HIDE DEF f
<1>4. FetchDated(f)
  BY <1>2, <1>3 DEF FetchDated
<1>5. FoundBefore(f)
  BY <1>3 DEF FoundBefore, BrsOf, OrderInv, CacheDated
<1>6. QED
  BY <1>1, <1>4, <1>5, OneMoves

LEMMA BrsRepliedOrder ==
  ASSUME GoldTypeOK, OrderInv, NEW c \in Callers, BrsReplied(c)
  PROVE  OrderInv'
<1> DEFINE f == [fetch[c] EXCEPT !.at = "merge", !.brs = brs]
<1>1. UNCHANGED <<taban, brs, cache, stores>> /\ fetch' = [fetch EXCEPT ![c] = f]
  BY DEF BrsReplied, GoldTypeOK
<1>2. /\ brs \in BrsReplies /\ fetch[c] \in Fetches /\ fetch[c].at = "brs"
      /\ FetchDated(fetch[c]) /\ FoundBefore(fetch[c])
  BY DEF GoldTypeOK, OrderInv, BrsReplied
<1>3. /\ f.at = "merge" /\ f.brs = brs
      /\ f.taban = fetch[c].taban /\ f.since = fetch[c].since
  BY <1>2 DEF Fetches
<1> HIDE DEF f
<1>4. FetchDated(f)
  BY <1>2, <1>3, NoEarlierReflexive DEF FetchDated
<1>5. FoundBefore(f)
  BY <1>2, <1>3 DEF FoundBefore, BrsOf
<1>6. QED
  BY <1>1, <1>4, <1>5, OneMoves

LEMMA EndsOrder ==
  ASSUME GoldTypeOK, OrderInv, NEW c \in Callers, FetchFails(c) \/ Takes(c)
  PROVE  OrderInv'
<1>1. UNCHANGED <<taban, brs, cache, stores>> /\ stores \in Nat
  BY DEF FetchFails, Takes, GoldTypeOK
<1>2. NoFetch = [NoFetch EXCEPT !.at = "idle"]
  BY DEF NoFetch
<1>3. PICK at \in {"idle", "failed"} : fetch' = [fetch EXCEPT ![c] = [NoFetch EXCEPT !.at = at]]
  BY <1>2 DEF FetchFails, Takes
<1> DEFINE f == [NoFetch EXCEPT !.at = at]
<1>4. FetchDated(f) /\ FoundBefore(f)
  BY <1>1 DEF NoFetch, FetchDated, FoundBefore
<1> HIDE DEF f
<1>5. fetch' = [fetch EXCEPT ![c] = f]
  BY <1>3 DEF f
<1>6. QED
  BY <1>1, <1>4, <1>5, OneMoves

\* What a store writes: the days of its two replies, of which neither is from the future.
LEMMA Stored ==
  ASSUME GoldTypeOK, OrderInv, NEW c \in Callers, Store(c)
  PROVE  /\ cache'.data = Merge(fetch[c].taban, fetch[c].brs)
         /\ fetch[c].taban \in TabanReplies /\ fetch[c].brs \in BrsReplies
         /\ cache'.data \in Answers
         /\ \A s \in Symbols : cache'.data[s].day = DayOf(fetch[c].taban, fetch[c].brs, s)
<1>1. cache'.data = Merge(fetch[c].taban, fetch[c].brs)
  BY DEF Store
<1>2. fetch[c].taban \in TabanReplies /\ fetch[c].brs \in BrsReplies
  BY DEF Store, GoldTypeOK, HasReplies
<1>3. QED
  BY <1>1, <1>2, MergeType

LEMMA StoreOrder ==
  ASSUME GoldTypeOK, OrderInv, NEW c \in Callers, Store(c)
  PROVE  OrderInv'
<1> DEFINE g == [NoFetch EXCEPT !.at = "answered", !.data = Merge(fetch[c].taban, fetch[c].brs)]
<1>1. /\ UNCHANGED <<taban, brs>> /\ stores' = stores + 1 /\ stores \in Nat
      /\ fetch' = [fetch EXCEPT ![c] = g]
  BY DEF Store, GoldTypeOK
<1>2. g.at = "answered" /\ g.since = 0
  BY DEF NoFetch
<1> HIDE DEF g
<1>3. CacheDated'
  <2>1. /\ taban \in TabanReplies /\ brs \in BrsReplies /\ fetch[c].at = "merge"
        /\ fetch[c].taban.day <= taban.day /\ NoEarlier(fetch[c].brs, brs)
    BY DEF GoldTypeOK, OrderInv, FetchDated, Store
  <2>2. NotAfter(cache'.data, taban, brs)
    BY <2>1, Stored, DayOfMonotone DEF NotAfter
  <2>3. QED
    BY <1>1, <2>2 DEF CacheDated, NotAfter
<1>4. ASSUME NEW d \in Callers
      PROVE  FetchDated(fetch[d])' /\ FoundBefore(fetch[d])'
  <2>1. /\ fetch[d] \in Fetches /\ FetchDated(fetch[d])
        /\ fetch'[d] = IF d = c THEN g ELSE fetch[d]
    BY <1>1 DEF GoldTypeOK, OrderInv
  <2>2. fetch'[d].since \in Nat /\ fetch'[d].since < stores'
    BY <1>1, <1>2, <2>1 DEF FetchDated, Fetches
  <2>3. FetchDated(fetch[d])'
    BY <1>1, <1>2, <2>1, <2>2 DEF FetchDated
  <2>4. FoundBefore(fetch[d])'
    BY <1>1, <2>2 DEF FoundBefore
  <2>5. QED
    BY <2>3, <2>4
<1>5. QED
  BY <1>3, <1>4 DEF OrderInv

LEMMA WorldOrder ==
  ASSUME GoldTypeOK, GoldTypeOK', OrderInv, World
  PROVE  OrderInv'
<1>1. UNCHANGED <<cache, fetch, stores>>
  BY DEF World, TabanPublishes, BrsPublishes, Tick
<1>2. /\ taban \in TabanReplies /\ brs \in BrsReplies
      /\ taban' \in TabanReplies /\ brs' \in BrsReplies
  BY DEF GoldTypeOK
<1>3. taban.day <= taban'.day /\ NoEarlier(brs, brs')
  BY <1>2, NoEarlierReflexive
     DEF World, TabanPublishes, BrsPublishes, Tick, NoEarlier, TabanReplies, BrsReplies
<1>4. cache # None => cache.data \in Answers
  BY DEF GoldTypeOK
<1>5. CacheDated'
  <2>1. cache # None => NotAfter(cache.data, taban', brs')
    BY <1>2, <1>3, <1>4, NotAfterMonotone DEF OrderInv, CacheDated
  <2>2. QED
    BY <1>1, <2>1 DEF CacheDated, NotAfter
<1>6. ASSUME NEW c \in Callers
      PROVE  FetchDated(fetch[c])' /\ FoundBefore(fetch[c])'
  <2>1. /\ fetch[c] \in Fetches /\ HasReplies(fetch[c])
        /\ FetchDated(fetch[c]) /\ FoundBefore(fetch[c])
    BY DEF GoldTypeOK, OrderInv
  <2>2. FetchDated(fetch[c])'
    <3>1. ASSUME fetch[c].at \in {"brs", "merge"} PROVE fetch[c].taban.day <= taban'.day
      BY <1>2, <1>3, <2>1, <3>1 DEF HasReplies, FetchDated, TabanReplies
    <3>2. ASSUME fetch[c].at = "merge" PROVE NoEarlier(fetch[c].brs, brs')
      BY <1>2, <1>3, <2>1, <3>2, NoEarlierTransitive DEF HasReplies, FetchDated
    <3>3. QED
      BY <1>1, <2>1, <3>1, <3>2 DEF FetchDated
  <2>3. ASSUME fetch[c].at \in {"brs", "merge"}, fetch[c].since = stores, cache # None
        PROVE  NotAfter(cache.data, fetch[c].taban, BrsOf(fetch[c], brs'))
    <3>1. fetch[c].taban \in TabanReplies /\ fetch[c].taban.day <= fetch[c].taban.day
      BY <2>1, <2>3 DEF HasReplies, TabanReplies
    <3>2. /\ BrsOf(fetch[c], brs) \in BrsReplies /\ BrsOf(fetch[c], brs') \in BrsReplies
          /\ NoEarlier(BrsOf(fetch[c], brs), BrsOf(fetch[c], brs'))
      BY <1>2, <1>3, <2>1, NoEarlierReflexive DEF BrsOf, HasReplies
    <3>3. NotAfter(cache.data, fetch[c].taban, BrsOf(fetch[c], brs))
      BY <2>1, <2>3 DEF FoundBefore
    <3>4. QED
      BY <1>4, <2>3, <3>1, <3>2, <3>3, NotAfterMonotone
  <2>4. FoundBefore(fetch[c])'
    BY <1>1, <2>3 DEF FoundBefore, BrsOf, NotAfter
  <2>5. QED
    BY <2>2, <2>4
<1>7. QED
  BY <1>5, <1>6 DEF OrderInv

LEMMA OrderInit == GoldInit => OrderInv
BY DEF GoldInit, OrderInv, CacheDated, FetchDated, FoundBefore, NoFetch

LEMMA OrderStep == GoldTypeOK /\ GoldTypeOK' /\ OrderInv /\ [GoldNext]_gold => OrderInv'
<1> SUFFICES ASSUME GoldTypeOK, GoldTypeOK', OrderInv, [GoldNext]_gold PROVE OrderInv'
  OBVIOUS
<1>1. ASSUME NEW c \in Callers, Ask(c) \/ Fetching(c) \/ Reply(c)
      PROVE  OrderInv'
  BY <1>1, AskOrder, TabanRepliedOrder, BrsRepliedOrder, StoreOrder, EndsOrder
     DEF Fetching, Reply
<1>2. CASE UNCHANGED gold
  BY <1>2 DEF gold, OrderInv, CacheDated, FetchDated, FoundBefore, NotAfter
<1>3. QED
  BY <1>1, <1>2, WorldOrder DEF GoldNext

LEMMA OrderKept ==
  ASSUME GoldTypeOK, OrderInv, NEW c \in Callers
  PROVE  NotOvertaken(c)
<1> SUFFICES ASSUME Store(c), cache # None, fetch[c].since = stores, NEW s \in Symbols
             PROVE  cache'.data[s].day >= cache.data[s].day
  BY DEF NotOvertaken
<1>1. NotAfter(cache.data, fetch[c].taban, fetch[c].brs)
  BY DEF OrderInv, FoundBefore, BrsOf, Store
<1>2. cache.data[s].day \in Nat
  BY DEF GoldTypeOK, Answers, Items
<1>3. cache'.data[s].day = DayOf(fetch[c].taban, fetch[c].brs, s) /\ cache'.data[s].day \in Nat
  BY Stored DEF Answers, Items
<1>4. QED
  BY <1>1, <1>2, <1>3 DEF NotAfter

\* A store takes no symbol back to an earlier day, unless another request that was under
\* way at the same time stored first: for any number of requests and any replies whose
\* days do not go back.
THEOREM PricesKeepOrder == GoldSpec => PricesInOrder
<1>1. GoldTypeOK /\ OrderInv => [\A c \in Callers : NotOvertaken(c)]_gold
  BY OrderKept
<1>2. QED
  BY <1>1, GoldInitType, GoldTypeStep, OrderInit, OrderStep, PTL DEF GoldSpec, PricesInOrder

-----------------------------------------------------------------------------
(***************************************************************************)
(* The price of a gram.                                                    *)
(***************************************************************************)
ByGramOf18 == ByGram \ {"IR_GOLD_24K"}

\* A symbol is quoted for the weight that its price is divided by.
LEMMA SameWeight ==
  ASSUME NEW s \in ByGramOf18
  PROVE  Grams(s) = WeightOf(s)
<1>1. CASE s \in DOMAIN Gold
  BY <1>1 DEF ByGramOf18, Gold, Grams, WeightOf, CoinWeight, ParsianWeight, OtherWeight, Unit
<1>2. CASE s \in DOMAIN Melted
  BY <1>2 DEF Melted, Gold, Grams, WeightOf, CoinWeight, ParsianWeight, OtherWeight
<1>3. CASE s \in DOMAIN Parsian
  <2>1. Grams(s) = Parsian[s] /\ WeightOf(s) = ParsianWeight[s]
    BY <1>3 DEF Parsian, Melted, Gold, Grams, WeightOf, CoinWeight, ParsianWeight
  <2>2. QED
    BY <1>3, <2>1 DEF Parsian, ParsianWeight
<1>4. CASE s \in DOMAIN ParsianMilligrams
  <2>1. Grams(s) = ParsianMilligrams[s] /\ WeightOf(s) = ParsianWeight[s]
    BY <1>4 DEF ParsianMilligrams, Parsian, Melted, Gold, Grams, WeightOf, CoinWeight,
                ParsianWeight
  <2>2. QED
    BY <1>4, <2>1 DEF ParsianMilligrams, ParsianWeight
<1>5. QED
  BY <1>1, <1>2, <1>3, <1>4 DEF ByGramOf18, ByGram

LEMMA TimesAndDivided ==
  ASSUME NEW g \in Nat, NEW w \in Nat \ {0}
  PROVE  (g * w) \div w = g
OBVIOUS

\* A coin of k times 10 mg is a k-th of ten of the 100 mg coin, in price and in weight.
LEMMA TenthOfAHundred ==
  ASSUME NEW g \in Nat, NEW s \in DOMAIN Tenths
  PROVE  (((g * 10000) * Tenths[s]) \div 10) \div WeightOf(s) = g
<1>1. CASE s = "IR_PCOIN_70MG"
  <2>1. Tenths[s] = 7 /\ WeightOf(s) = 7000
    BY <1>1 DEF Tenths, WeightOf, CoinWeight, ParsianWeight
  <2>2. QED
    BY <2>1
<1>2. CASE s = "IR_PCOIN_50MG"
  <2>1. Tenths[s] = 5 /\ WeightOf(s) = 5000
    BY <1>2 DEF Tenths, WeightOf, CoinWeight, ParsianWeight
  <2>2. QED
    BY <2>1
<1>3. CASE s = "IR_PCOIN_30MG"
  <2>1. Tenths[s] = 3 /\ WeightOf(s) = 3000
    BY <1>3 DEF Tenths, WeightOf, CoinWeight, ParsianWeight
  <2>2. QED
    BY <2>1
<1>4. QED
  BY <1>1, <1>2, <1>3 DEF Tenths

\* What the merge takes from TABAN for a symbol of 18 karat gold is the gram of TABAN.
LEMMA MergeOfGram ==
  ASSUME NEW t \in TabanReplies, NEW b \in BrsReplies,
         NEW s \in (ByGram \cap Listed) \cup DOMAIN Tenths, s # "IR_GOLD_24K",
         Merge(t, b)[s].base = "T"
  PROVE  Merge(t, b)[s].price = t.YekGram18
<1>1. t.YekGram18 \in Nat
  BY DEF TabanReplies
<1>2. QuotesOf(t, b) \in [Listed -> Items]
  BY QuotesType
<1>3. CASE s \in Listed
  <2>1. s \in ByGramOf18 /\ s \in Symbols
    BY <1>3, ListedAssumption DEF ByGramOf18, Symbols, Quoted, ByGram, Tenths, Coins,
       Gold, Melted, Parsian, ParsianMilligrams
  <2>2. Merge(t, b)[s] = PerGram(QuotesOf(t, b)[s], s)
    BY <1>3, <2>1 DEF Merge, QuotesOf
  <2>3. QuotesOf(t, b)[s].price = TabanPrice(t, s)
    BY <1>2, <1>3, <2>2, PerGramType, QuotesType
  <2>4. TabanPrice(t, s) = t.YekGram18 * WeightOf(s)
    BY <2>1, SameWeight DEF TabanPrice, ByGramOf18
  <2>5. QED
    BY <1>1, <1>2, <1>3, <2>2, <2>3, <2>4, PerGramType, WeightsPositive, TimesAndDivided
<1>4. CASE s \notin Listed
  <2> DEFINE hundred == QuotesOf(t, b)["IR_PCOIN_100MG"]
  <2>1. s \in DOMAIN Tenths /\ s \in Symbols
    BY <1>4 DEF Symbols
  <2>2. Merge(t, b)[s] = PerGram(Part(QuotesOf(t, b), s), s)
    BY <1>4, <2>1 DEF Merge, QuotesOf
  <2>3. Part(QuotesOf(t, b), s) \in Items /\ Part(QuotesOf(t, b), s).base = "T"
    BY <1>2, <2>1, <2>2, PartType, PerGramType
  <2>4. "IR_PCOIN_100MG" \in Listed
    BY <1>2, <2>1, <2>3, PartType
  <2>5. /\ hundred.base = "T"
        /\ Part(QuotesOf(t, b), s).price = (hundred.price * Tenths[s]) \div 10
    BY <1>2, <2>1, <2>3, <2>4, PartType
  <2>6. hundred.price = TabanPrice(t, "IR_PCOIN_100MG")
    BY <2>4, <2>5, QuotesType
  <2>7. Grams("IR_PCOIN_100MG") = 10000 /\ "IR_PCOIN_100MG" \in ByGram
    BY DEF Grams, ByGram, Gold, Melted, Parsian, ParsianMilligrams
  <2>8. hundred.price = t.YekGram18 * 10000
    BY <2>6, <2>7 DEF TabanPrice
  <2>9. Merge(t, b)[s].price = (((t.YekGram18 * 10000) * Tenths[s]) \div 10) \div WeightOf(s)
    BY <2>2, <2>3, <2>5, <2>8, PerGramType
  <2>10. QED
    BY <1>1, <2>1, <2>9, TenthOfAHundred
<1>5. QED
  BY <1>3, <1>4

LEMMA GramStep ==
  ASSUME GoldTypeOK, OneGramPrice, [GoldNext]_gold
  PROVE  OneGramPrice'
<1>1. CASE UNCHANGED cache
  BY <1>1 DEF OneGramPrice, SameGram
<1>2. ASSUME NEW c \in Callers, Store(c)
      PROVE  OneGramPrice'
  <2>1. fetch[c].taban \in TabanReplies /\ fetch[c].brs \in BrsReplies
    BY <1>2 DEF Store, GoldTypeOK, HasReplies
  <2>2. cache'.data = Merge(fetch[c].taban, fetch[c].brs)
    BY <1>2 DEF Store
  <2>3. SameGram(cache'.data)
    BY <2>1, <2>2, MergeOfGram DEF SameGram
  <2>4. QED
    BY <2>3 DEF OneGramPrice, SameGram
<1>3. CASE UNCHANGED gold
  BY <1>1, <1>3 DEF gold
<1>4. World => UNCHANGED cache
  BY DEF World, TabanPublishes, BrsPublishes, Tick
<1>5. ASSUME NEW c \in Callers, Ask(c) \/ Fetching(c) \/ Reply(c)
      PROVE  UNCHANGED cache \/ Store(c)
  BY <1>5 DEF Fetching, Reply, Ask, TabanReplied, BrsReplied, FetchFails, Takes
<1>6. QED
  BY <1>1, <1>2, <1>3, <1>4, <1>5 DEF GoldNext

\* Symbols of 18 karat gold whose price is TABAN's have the same price of a gram, for
\* every set of listed symbols and every pair of replies.
THEOREM GramsAgree == GoldSpec => []OneGramPrice
<1>1. GoldInit => OneGramPrice
  BY DEF GoldInit, OneGramPrice
<1>2. QED
  BY <1>1, GoldInitType, GoldTypeStep, GramStep, PTL DEF GoldSpec
=============================================================================
