---------------------------- MODULE GoldCurrency ----------------------------
(***************************************************************************)
(* The gold prices of the server: GoldCurrencyService, one cache of 60 s   *)
(* filled from two web services, TABAN and BRS, that are asked one after   *)
(* the other.                                                              *)
(*                                                                         *)
(* Nothing keeps two requests that find the cache expired from asking      *)
(* both: each waits for its own replies and stores what it made of them.   *)
(* A reply says what its source knew at some moment of the wait.  There    *)
(* is no timeout; a source that does not answer keeps its request.         *)
(*                                                                         *)
(* Prices are integers in 1/Unit of a toman, weights in 1/Unit of a gram,  *)
(* so that every factor of the source is exact; days are numbered.         *)
(***************************************************************************)
EXTENDS Integers

CONSTANTS
  Callers,       \* requests that may need prices at the same time
  Listed,        \* the symbols BRS lists
  TabanQuotes,   \* what TABAN may answer
  BrsQuotes,     \* what BRS may answer
  CacheDuration, \* how long a cached answer is used (60 s)
  MaxEvents,     \* bound: requests, new quotes, failures and ticks
  None

Unit == 100000

-----------------------------------------------------------------------------
(***************************************************************************)
(* The symbols.  TABAN quotes few prices: those of a gram of 18 karat gold *)
(* (YekGram18), of coins in thousands, and of an ounce.  What it lets be   *)
(* said of a symbol is a weight times the gram, or a field of its own.     *)
(***************************************************************************)
Gold     == [IR_GOLD_18K |-> 100000, IR_GOLD_24K |-> 133332]  \* 999.99 / 750
Melted   == [IR_GOLD_MELTED |-> 433180]
Parsian  == [IR_PCOIN_1_5G |-> 150000, IR_PCOIN_1_4G |-> 140000, IR_PCOIN_1_3G |-> 130000,
             IR_PCOIN_1_2G |-> 120000, IR_PCOIN_1_1G |-> 110000, IR_PCOIN_1G |-> 100000]
ParsianMilligrams ==
            [IR_PCOIN_900MG |-> 90000, IR_PCOIN_800MG |-> 80000, IR_PCOIN_700MG |-> 70000,
             IR_PCOIN_600MG |-> 60000, IR_PCOIN_500MG |-> 50000, IR_PCOIN_400MG |-> 40000,
             IR_PCOIN_300MG |-> 30000, IR_PCOIN_200MG |-> 20000, IR_PCOIN_100MG |-> 10000]
Coins    == [IR_COIN_EMAMI |-> "SekehEmam", IR_COIN_BAHAR |-> "SekehTamam",
             IR_COIN_HALF |-> "SekehNim", IR_COIN_QUARTER |-> "SekehRob",
             IR_COIN_1G |-> "SekehGerami"]

ByGram  == DOMAIN Gold \cup DOMAIN Melted \cup DOMAIN Parsian \cup DOMAIN ParsianMilligrams
Quoted  == ByGram \cup DOMAIN Coins \cup {"XAUUSD"}

\* Parsian coins that no source lists, as tenths of the 100 mg coin.
Tenths  == [IR_PCOIN_70MG |-> 7, IR_PCOIN_50MG |-> 5, IR_PCOIN_30MG |-> 3]
Symbols == Listed \cup DOMAIN Tenths

TabanReplies == [day : Nat, YekGram18 : Nat, SekehEmam : Nat, SekehTamam : Nat,
                 SekehNim : Nat, SekehRob : Nat, SekehGerami : Nat, OunceTala : Nat]
BrsReplies   == [Listed -> [date : Nat, price : Nat]]

ASSUME ListedAssumption == Listed \subseteq Quoted
ASSUME QuotesAssumption == TabanQuotes \subseteq TabanReplies /\ BrsQuotes \subseteq BrsReplies
ASSUME GoldBounds       == CacheDuration \in Nat /\ MaxEvents \in Nat

VARIABLES
  taban, brs, \* what the two web services know now
  cache,      \* the stored answer with the time it was stored at, or None
  fetch,      \* [Callers -> where the request for prices stands]
  now,        \* the clock, in the unit of CacheDuration
  stores,     \* history: how often the cache was written
  events

gold == <<taban, brs, cache, fetch, now, stores>>

\* A request: the stage it is at, TABAN's and BRS's replies once it has them,
\* the answer it got; since is history, the stores made before it began.
NoFetch == [at |-> "idle", taban |-> None, brs |-> None, data |-> None, since |-> 0]

GoldInit ==
  /\ taban  \in TabanQuotes
  /\ brs    \in BrsQuotes
  /\ cache  = None
  /\ fetch  = [c \in Callers |-> NoFetch]
  /\ now    = 0
  /\ stores = 0
  /\ events = 0

-----------------------------------------------------------------------------
(***************************************************************************)
(* The merge of two replies.                                               *)
(***************************************************************************)
Grams(s) ==
  IF s \in DOMAIN Gold THEN Gold[s]
  ELSE IF s \in DOMAIN Melted THEN Melted[s]
  ELSE IF s \in DOMAIN Parsian THEN Parsian[s]
  ELSE ParsianMilligrams[s]

TabanPrice(t, s) ==
  IF s \in ByGram THEN t.YekGram18 * Grams(s)
  ELSE IF s \in DOMAIN Coins THEN t[Coins[s]] * 1000 * Unit
  ELSE t.OunceTala * Unit

\* mutant: the larger price, whatever its day
TakesBrsIfDearer(t, item, price) == item.price > price

\* Of two quotes of one day the larger is taken, otherwise the later one.
TakesBrs(t, item, price) ==
  \/ item.date = t.day /\ item.price > price
  \/ item.date > t.day

\* The quote that is taken for a listed symbol, and the day it is of.
Quote(t, item, price) ==
  IF TakesBrs(t, item, price)
  THEN [price |-> item.price, base |-> "B", day |-> item.date]
  ELSE [price |-> price, base |-> "T", day |-> t.day]

\* The coins that are added: a copy of the 100 mg coin with a part of its price.
Part(quotes, s) ==
  IF "IR_PCOIN_100MG" \in Listed
  THEN [quotes["IR_PCOIN_100MG"] EXCEPT !.price = (@ * Tenths[s]) \div 10]
  ELSE [price |-> 0, base |-> "none", day |-> 0]

\* assignKarat turns every price into that of a gram: the weights it divides by.
CoinWeight == [IR_COIN_EMAMI |-> 813300, IR_COIN_BAHAR |-> 813300, IR_COIN_HALF |-> 406600,
               IR_COIN_QUARTER |-> 203300, IR_COIN_1G |-> 101000]
ParsianWeight ==
  [IR_PCOIN_1_5G |-> 150000, IR_PCOIN_1_4G |-> 140000, IR_PCOIN_1_3G |-> 130000,
   IR_PCOIN_1_2G |-> 120000, IR_PCOIN_1_1G |-> 110000, IR_PCOIN_1G |-> 100000,
   IR_PCOIN_900MG |-> 90000, IR_PCOIN_800MG |-> 80000, IR_PCOIN_700MG |-> 70000,
   IR_PCOIN_600MG |-> 60000, IR_PCOIN_500MG |-> 50000, IR_PCOIN_400MG |-> 40000,
   IR_PCOIN_300MG |-> 30000, IR_PCOIN_200MG |-> 20000, IR_PCOIN_100MG |-> 10000,
   IR_PCOIN_70MG |-> 7000, IR_PCOIN_50MG |-> 5000, IR_PCOIN_30MG |-> 3000]

OtherWeight == [IR_GOLD_MELTED |-> 433180, XAUUSD |-> 2834950]

\* mutant: melted gold and ounces keep the price of the weight they are traded in
WeightOfUnmelted(s) ==
  IF s \in DOMAIN CoinWeight THEN CoinWeight[s]
  ELSE IF s \in DOMAIN ParsianWeight THEN ParsianWeight[s]
  ELSE Unit

WeightOf(s) ==
  IF s \in DOMAIN CoinWeight THEN CoinWeight[s]
  ELSE IF s \in DOMAIN ParsianWeight THEN ParsianWeight[s]
  ELSE IF s \in DOMAIN OtherWeight THEN OtherWeight[s]
  ELSE Unit
KaratOf(s) ==
  CASE s \in DOMAIN CoinWeight -> 900
    [] s = "XAUUSD"            -> 995
    [] OTHER                   -> 750
PerGram(q, s) == [q EXCEPT !.price = @ \div WeightOf(s)]

Merge(t, b) ==
  LET quotes == [s \in Listed |-> Quote(t, b[s], TabanPrice(t, s))]
  IN  [s \in Symbols |->
         PerGram(IF s \in Listed THEN quotes[s] ELSE Part(quotes, s), s)]

-----------------------------------------------------------------------------
(***************************************************************************)
(* getGoldCurrencyData.                                                    *)
(***************************************************************************)
Happens == events < MaxEvents /\ events' = events + 1

Valid == cache # None /\ now - cache.at < CacheDuration

\* A request begins: it is answered from the cache, or asks TABAN.
Ask(c) ==
  /\ fetch[c].at = "idle"
  /\ Happens
  /\ fetch' = [fetch EXCEPT ![c] =
       IF Valid THEN [NoFetch EXCEPT !.at = "answered", !.data = cache.data]
                ELSE [NoFetch EXCEPT !.at = "taban", !.since = stores]]
  /\ UNCHANGED <<taban, brs, cache, now, stores>>

TabanReplied(c) ==
  /\ fetch[c].at = "taban"
  /\ fetch' = [fetch EXCEPT ![c].at = "brs", ![c].taban = taban]
  /\ UNCHANGED <<taban, brs, cache, now, stores, events>>

\* What BRS knew when it answered; the reply may travel for a while.
BrsReplied(c) ==
  /\ fetch[c].at = "brs"
  /\ fetch' = [fetch EXCEPT ![c].at = "merge", ![c].brs = brs]
  /\ UNCHANGED <<taban, brs, cache, now, stores, events>>

\* mutant: the replies are stored as they came
StoreReplies(c) ==
  /\ fetch[c].at = "merge"
  /\ cache'  = [data |-> fetch[c].brs, at |-> now]
  /\ fetch'  = [fetch EXCEPT ![c] = [NoFetch EXCEPT !.at = "answered", !.data = fetch[c].brs]]
  /\ stores' = stores + 1
  /\ UNCHANGED <<taban, brs, now, events>>

\* The second reply is there: both are merged, stored and answered.
Store(c) ==
  LET data == Merge(fetch[c].taban, fetch[c].brs)
  IN  /\ fetch[c].at = "merge"
      /\ cache'  = [data |-> data, at |-> now]
      /\ fetch'  = [fetch EXCEPT ![c] = [NoFetch EXCEPT !.at = "answered", !.data = data]]
      /\ stores' = stores + 1
      /\ UNCHANGED <<taban, brs, now, events>>

\* A source fails: the request is answered with an error, whatever is cached.
FetchFails(c) ==
  /\ fetch[c].at \in {"taban", "brs"}
  /\ Happens
  /\ fetch' = [fetch EXCEPT ![c] = [NoFetch EXCEPT !.at = "failed"]]
  /\ UNCHANGED <<taban, brs, cache, now, stores>>

\* The caller goes on with what it got (here: the controller replies).
Takes(c) ==
  /\ fetch[c].at \in {"answered", "failed"}
  /\ fetch' = [fetch EXCEPT ![c] = NoFetch]
  /\ UNCHANGED <<taban, brs, cache, now, stores>>
Reply(c) == Takes(c) /\ UNCHANGED events

-----------------------------------------------------------------------------
\* The sources learn new quotes: days only advance, prices go either way.
TabanPublishes ==
  /\ Happens
  /\ taban' \in {q \in TabanQuotes : q.day >= taban.day}
  /\ UNCHANGED <<brs, cache, fetch, now, stores>>

BrsPublishes ==
  /\ Happens
  /\ brs' \in {q \in BrsQuotes : \A s \in Listed : q[s].date >= brs[s].date}
  /\ UNCHANGED <<taban, cache, fetch, now, stores>>

Tick ==
  /\ Happens
  /\ now' = now + 1
  /\ UNCHANGED <<taban, brs, cache, fetch, stores>>

Fetching(c) == TabanReplied(c) \/ BrsReplied(c) \/ Store(c) \/ FetchFails(c)
World       == TabanPublishes \/ BrsPublishes \/ Tick

GoldNext == World \/ \E c \in Callers : Ask(c) \/ Fetching(c) \/ Reply(c)
GoldSpec == GoldInit /\ [][GoldNext]_gold

-----------------------------------------------------------------------------
Items   == [price : Int, base : {"T", "B", "none"}, day : Nat]
Answers == [Symbols -> Items]
Fetches == [at : {"idle", "taban", "brs", "merge", "answered", "failed"},
            taban : TabanReplies \cup {None}, brs : BrsReplies \cup {None},
            data : Answers \cup {None}, since : Nat]

\* A request has the replies and the answer that its stage works on.
HasReplies(f) ==
  /\ f.at \in {"brs", "merge"} => f.taban \in TabanReplies
  /\ f.at = "merge" => f.brs \in BrsReplies
  /\ f.at = "answered" => f.data \in Answers

GoldTypeOK ==
  /\ taban \in TabanReplies /\ brs \in BrsReplies
  /\ cache \in [data : Answers, at : Nat] \cup {None}
  /\ fetch \in [Callers -> Fetches] /\ \A c \in Callers : HasReplies(fetch[c])
  /\ now \in Nat /\ stores \in Nat

\* The price of a gram is the same for all symbols of 18 karat gold that were
\* taken from TABAN: what the merge multiplies by a weight, assignKarat divides by
\* the same weight, over 18 symbols and two tables.  (IR_GOLD_24K is quoted as
\* 999.99 / 750 of the gram and yet given 750 karat, so it stands apart.)
SameGram(data) ==
  \A r, s \in (ByGram \cap Listed) \cup DOMAIN Tenths :
    r # "IR_GOLD_24K" /\ s # "IR_GOLD_24K" /\ data[r].base = "T" /\ data[s].base = "T"
      => data[r].price = data[s].price
OneGramPrice == cache # None => SameGram(cache.data)

\* The prices of no symbol go back to an earlier day, unless the request that
\* stores them was overtaken: another one began later or ran at the same time and
\* stored first.
NotOvertaken(c) ==
  Store(c) /\ cache # None /\ fetch[c].since = stores
    => \A s \in Symbols : cache'.data[s].day >= cache.data[s].day
PricesInOrder == [][\A c \in Callers : NotOvertaken(c)]_gold
=============================================================================
