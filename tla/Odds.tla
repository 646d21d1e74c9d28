-------------------------------- MODULE Odds --------------------------------
(***************************************************************************)
(* Fetching odds on a metered budget (modeling/odds_api.py,                *)
(* modeling/odds_store.py, modeling/odds_sources.py).  The cycles share a  *)
(* cache and a monthly ledger in the database; each cycle is a fresh       *)
(* process that can die between any two of its writes.  The two providers  *)
(* are external.                                                           *)
(*                                                                         *)
(* Time is the phase of the month, in ticks; the provider's billing period *)
(* turns at a phase of its own.  A cycle fetches for seconds: a bound of   *)
(* the model is that it is over within a tick.                             *)
(***************************************************************************)
EXTENDS Integers, FiniteSets

CONSTANTS
  Sports,         \* TRADING_ODDS_SPORT_KEYS
  NoSport,        \* none of them
  Quota,          \* ODDS_MONTHLY_QUOTA, and what the provider grants
  MonthTicks,     \* a month
  BillingTurns,   \* the phases at which the provider's period may turn
  LiveTtl,        \* how long a slate with games is fresh
  EmptyTtl,       \* EMPTY_PAYLOAD_TTL_SECONDS: how long an empty one is
  MaxStale        \* _MAX_STALE_SECONDS

ASSUME OddsAssumption ==
  /\ NoSport \notin Sports
  /\ {Quota, LiveTtl, EmptyTtl, MaxStale} \subseteq Nat
  /\ MonthTicks \in Nat \ {0}
  /\ BillingTurns \subseteq 0..(MonthTicks - 1)

VARIABLES
  phase,     \* the time of the month
  setting,   \* ENABLE_ESPN_ODDS, and when the provider's period turns
  inSeason,  \* does the league play?  external
  used,      \* OddsQuotaUsage of this calendar month: QuotaLedger.used
  billed,    \* requests the provider has counted in its period
  cache,     \* OddsCacheEntry for each sport and source
  fetch      \* the running cycle: its step and its locals

oddsVars == <<phase, setting, inSeason, used, billed, cache, fetch>>

Sources == {"the_odds_api", "espn"}

OldAge == 1 + (IF LiveTtl > EmptyTtl THEN LiveTtl ELSE EmptyTtl) + MaxStale

\* What is cached: nothing, an empty slate or one with games, and its age.
NoEntry == [slate |-> "none", age |-> OldAge + 1]

\* A cycle between two calls holds the sport it is at, the sports it still has
\* to fetch, whether it has seen the quota gone, and what it got so far.
NoFetch == [step |-> "none", sport |-> NoSport, todo |-> {}, dead |-> FALSE,
            reply |-> "none", served |-> [s \in Sports |-> "none"]]

-----------------------------------------------------------------------------
(***************************************************************************)
(* The cache and the ledger.                                               *)
(***************************************************************************)

\* OddsCacheStore.get: the newest entry of any source.  The database may pick
\* either of two that are equally new.
Cached(s) ==
  {cache[s][x] : x \in {x \in Sources : \A y \in Sources : cache[s][x].age <= cache[s][y].age}}

\* Mutant of TtlOf: an empty slate is trusted for ever.
TtlForEver(entry) == IF entry.slate = "empty" THEN OldAge + 1 ELSE LiveTtl

\* An empty slate lives longer than a live one.
TtlOf(entry) == IF entry.slate = "empty" THEN EmptyTtl ELSE LiveTtl

\* _from_store: may an entry be served, and may it when every source failed?
Fresh(entry)    == entry.slate # "none" /\ entry.age < TtlOf(entry)
Servable(entry) == entry.slate # "none" /\ entry.age < MaxStale

Put(s, source, slate) ==
  cache' = [cache EXCEPT ![s][source] = [slate |-> slate, age |-> 0]]

\* charge: what the ledger says after one more request.
Charged == used + 1

-----------------------------------------------------------------------------
(***************************************************************************)
(* A cycle's fetch: get_all_odds and _odds_for_sport.                      *)
(***************************************************************************)

\* A fresh process: nothing is remembered from the last cycle.
FetchBegins ==
  /\ fetch.step = "none"
  /\ fetch' = [NoFetch EXCEPT !.step = "next", !.todo = Sports]
  /\ UNCHANGED <<phase, setting, inSeason, used, billed, cache>>

\* The next sport: from the cache if that is fresh, else a request if the
\* ledger allows one, else the fallback.  A spent ledger marks the cycle dark.
NextSport ==
  /\ fetch.step = "next"
  /\ \E s \in fetch.todo : \E entry \in Cached(s) :
       \/ /\ Fresh(entry)
          /\ fetch' = [fetch EXCEPT !.todo = @ \ {s}, !.served[s] = entry.slate]
       \/ /\ ~Fresh(entry)
          /\ fetch' = [fetch EXCEPT !.todo = @ \ {s}, !.sport = s,
                         !.step = IF used < Quota THEN "charge" ELSE "fallback",
                         !.dead = @ \/ used >= Quota]
  /\ UNCHANGED <<phase, setting, inSeason, used, billed, cache>>

\* Mutant of ChargeFirst: the ledger is charged by the reply only.
ChargeLater ==
  /\ fetch.step = "charge"
  /\ fetch' = [fetch EXCEPT !.step = "request"]
  /\ UNCHANGED <<phase, setting, inSeason, used, billed, cache>>

\* _fetch charges before the call.
ChargeFirst ==
  /\ fetch.step = "charge"
  /\ used' = Charged
  /\ fetch' = [fetch EXCEPT !.step = "request"]
  /\ UNCHANGED <<phase, setting, inSeason, billed, cache>>

\* The provider's status: a spent account is refused, a league that does not
\* play is unavailable or has no events.
Statuses == IF billed >= Quota THEN {401, 429} ELSE IF inSeason THEN {200} ELSE {200, 422}

\* TheOddsApiSource.fetch: the events of a 200, none for a 422, and a refusal.
ReplyOf(status) ==
  CASE status = 200 -> IF inSeason THEN "games" ELSE "empty"
    [] status = 422 -> "empty"
    [] status \in {401, 429} -> "refused"

\* The provider counts a request it accepts, and says in the reply how many
\* it has counted.  The client adopts that number before it reads the answer.
RequestAnswered ==
  /\ fetch.step = "request"
  /\ \E status \in Statuses :
       /\ ReplyOf(status) # "refused"
       /\ fetch' = [fetch EXCEPT !.step = "answered", !.reply = ReplyOf(status)]
  /\ billed' = billed + 1
  /\ used' = billed'
  /\ UNCHANGED <<phase, setting, inSeason, cache>>

\* The answer is cached; an empty one sends the client on to the fallback.
StoreAnswer ==
  /\ fetch.step = "answered"
  /\ Put(fetch.sport, "the_odds_api", fetch.reply)
  /\ fetch' = IF fetch.reply = "games"
              THEN [fetch EXCEPT !.step = "next", !.sport = NoSport, !.reply = "none",
                      !.served[fetch.sport] = "games"]
              ELSE [fetch EXCEPT !.step = "fallback", !.reply = "none"]
  /\ UNCHANGED <<phase, setting, inSeason, used, billed>>

\* An answer that does not parse is a failed source like any other.
AnswerUnreadable ==
  /\ fetch.step = "answered"
  /\ fetch' = [fetch EXCEPT !.step = "fallback", !.reply = "none"]
  /\ UNCHANGED <<phase, setting, inSeason, used, billed, cache>>

\* The request is counted and its reply is lost, or it never gets there.
RequestFails ==
  /\ fetch.step = "request"
  /\ billed' \in {billed, IF billed < Quota THEN billed + 1 ELSE billed}
  /\ fetch' = [fetch EXCEPT !.step = "fallback"]
  /\ UNCHANGED <<phase, setting, inSeason, used, cache>>

\* 401 or 429: _mark_quota_dead spends what is left of the calendar month.
RequestRefused ==
  /\ fetch.step = "request"
  /\ \E status \in Statuses : ReplyOf(status) = "refused"
  /\ used' = IF used < Quota THEN Quota ELSE used
  /\ fetch' = [fetch EXCEPT !.step = "fallback", !.dead = TRUE]
  /\ UNCHANGED <<phase, setting, inSeason, billed, cache>>

\* ESPN's scoreboard: what its games carry.  A FINAL game has lost its odds.
Scoreboards == IF inSeason THEN SUBSET {{"teams"}, {"odds"}, {"teams", "odds"}} ELSE {{}}

\* EspnOddsSource.fetch: a game without both teams and both moneylines is no
\* game, and a scoreboard without one is an empty slate.
EspnSlate(scoreboard) ==
  IF \E game \in scoreboard : {"teams", "odds"} \subseteq game THEN "games" ELSE "empty"

\* ESPN, which is free, answers or fails.  An empty slate of the last source
\* is read back from the cache, where it is the newest; so is an old slate
\* when every source failed.
Fallback ==
  /\ fetch.step = "fallback"
  /\ LET s == fetch.sport
         Served(slate) == [fetch EXCEPT !.step = "next", !.sport = NoSport, !.served[s] = slate]
     IN \/ /\ setting.espn
           /\ \E scoreboard \in Scoreboards :
                Put(s, "espn", EspnSlate(scoreboard)) /\ fetch' = Served(EspnSlate(scoreboard))
        \/ /\ \E entry \in Cached(s) :
                fetch' = Served(IF Servable(entry) THEN entry.slate ELSE "none")
           /\ UNCHANGED cache
  /\ UNCHANGED <<phase, setting, inSeason, used, billed>>

FetchEnds ==
  /\ fetch.step = "next" /\ fetch.todo = {}
  /\ fetch' = NoFetch
  /\ UNCHANGED <<phase, setting, inSeason, used, billed, cache>>

\* The process dies where it is.
FetchDies ==
  /\ fetch.step # "none"
  /\ fetch' = NoFetch
  /\ UNCHANGED <<phase, setting, inSeason, used, billed, cache>>

-----------------------------------------------------------------------------
Older(e) == IF e.age >= OldAge THEN e ELSE [e EXCEPT !.age = @ + 1]

\* Time passes.  A new calendar month has a ledger of its own.
OddsTick ==
  /\ fetch.step = "none"
  /\ phase' = (phase + 1) % MonthTicks
  /\ used' = IF phase' = 0 THEN 0 ELSE used
  /\ billed' = IF phase' = setting.turn THEN 0 ELSE billed
  /\ cache' = [s \in Sports |-> [src \in Sources |-> Older(cache[s][src])]]
  /\ UNCHANGED <<setting, inSeason, fetch>>

SeasonOpens ==
  /\ ~inSeason
  /\ inSeason' = TRUE
  /\ UNCHANGED <<phase, setting, used, billed, cache, fetch>>

OddsInit ==
  /\ phase = 0
  /\ setting \in [espn : BOOLEAN, turn : BillingTurns]
  /\ inSeason = FALSE
  /\ used = 0
  /\ billed = 0
  /\ cache = [s \in Sports |-> [src \in Sources |-> NoEntry]]
  /\ fetch = NoFetch

OddsNext ==
  \/ FetchBegins \/ NextSport \/ ChargeFirst
  \/ RequestAnswered \/ StoreAnswer \/ AnswerUnreadable \/ RequestFails \/ RequestRefused \/ Fallback \/ FetchEnds \/ FetchDies
  \/ OddsTick \/ SeasonOpens

-----------------------------------------------------------------------------
\* Every variable holds a value of its domain.
OddsTypeOK ==
  /\ phase \in 0..(MonthTicks - 1)
  /\ used \in Nat
  /\ billed \in 0..Quota
  /\ cache \in [Sports -> [Sources -> [slate : {"none", "empty", "games"}, age : 0..(OldAge + 1)]]]
  /\ fetch.step \in {"none", "next", "charge", "request", "answered", "fallback"}
  /\ fetch.todo \subseteq Sports
  /\ fetch.served \in [Sports -> {"none", "empty", "games"}]

\* "Over-counting on a crash is the safe direction": whatever the cycles die
\* between, and whatever replies are lost, the ledger never says less than the
\* provider has counted, when their months agree.
LedgerNeverUnderCounts == setting.turn = 0 => billed <= used

\* "It must not stay dark forever": a league that starts to play is quoted in
\* the end, through empty slates cached before, spent months, refusals that
\* spend a month at once, and a billing period that is not the calendar's.
SportsComeBack == \A s \in Sports : inSeason ~> fetch.served[s] = "games"
=============================================================================
