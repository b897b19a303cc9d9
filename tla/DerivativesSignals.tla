------------------------- MODULE DerivativesSignals -------------------------
(***************************************************************************)
(* The derivatives observation: what the market streams store, the capture  *)
(* of a snapshot and the signals computed from it, and the overlay that a   *)
(* trading decision reads as of its cutoff.                                 *)
(*                                                                          *)
(* A capture fetches over the network, then stores its snapshot, its main   *)
(* signal, the other signals and the crowding signal one transaction at a   *)
(* time; streams and decisions go on meanwhile, and a crash may end it      *)
(* anywhere.  Rates, ratios and changes are in millionths, shares in        *)
(* hundredths, scores in ten-thousandths; each division rounds down.        *)
(***************************************************************************)
EXTENDS Integers, FiniteSetsExt, SequencesExt

CONSTANTS
    Absent,             \* no value, row or capture
    MaxClock,           \* bound on the clock
    MaxStreamed,        \* bound on what happens to the streams
    MaxCaptureFaults,   \* bound on what goes wrong in captures
    MaxDecisions,       \* bound on the decisions
    Quarter, Hour,      \* 15 minutes and 1 hour, in ticks of the clock
    ChangeGap,          \* how far before its target a reference snapshot may be
    ClockSkew,          \* how far ahead of this clock an event may be stamped
    MarkAge, PriceAge,  \* the ages up to which a mark and a spot price are used
    OverlayAge,         \* the age up to which a decision uses a signal
    Lookback,           \* candles before the latest one
    Cooldown, MaximumCooldown,
    BasisAnswers,       \* what the basis endpoint may answer: "rate", "empty",
                        \* "malformed", "limited", "banned" or "banned for long"
    OfficialBasis,      \* whether the official basis is asked for
    Markets,            \* courses of the market: at each time the mark and index
                        \* prices, funding, basis, interest and ratios
    Liquidated,         \* liquidations the stream may report: position, notional
    Prices,             \* spot prices the Coinbase stream may report
    MaxDelay,           \* bound on how late a stream delivers
    Candles,            \* the spot candles: open, available, close, high, volume
    LogShare            \* log1p(n) / log1p(10,000,000) of a notional

VARIABLES
    clock,
    market,                         \* the course the market takes
    marks, liquidations, prices,    \* what the streams stored
    events,                         \* how much has happened to the streams
    since,                          \* connected_since of the liquidation stream
    blockedUntil,                   \* the client's pause for the official basis
    snapshots, signals, crowding,   \* the tables of the observation
    captureFaults,                  \* how much went wrong in captures
    capture,                        \* the capture in progress
    reading,                        \* the decision that is reading its overlay
    decisions                       \* the overlays that decisions recorded

streamed == <<events, marks, liquidations, prices, since>>
client == <<captureFaults, blockedUntil>>
tables == <<snapshots, signals, crowding>>
signalVars == <<clock, market, streamed, client, tables, capture, reading, decisions>>

CaptureFault(happens) ==
    /\ happens => captureFaults < MaxCaptureFaults
    /\ captureFaults' = IF happens THEN captureFaults + 1 ELSE captureFaults

StreamEvent == events < MaxStreamed /\ events' = events + 1

Newest(S, Key(_)) == CHOOSE x \in S : \A y \in S : Key(y) <= Key(x)

(***************************************************************************)
(* The streams                                                              *)
(***************************************************************************)
\* parse_mark_price: an event stamped ahead of this clock counts as received
\* when it says it happened; one too far ahead is an error and is not stored.
ReceiveMarkPrice(event) ==
    /\ StreamEvent
    /\ ~\E m \in marks : m.event = event        \* INSERT OR IGNORE
    /\ marks' = marks \cup
            {[event |-> event, received |-> Max({event, clock})]}
    /\ UNCHANGED <<clock, market, liquidations, prices, since, client, tables, capture,
                   reading, decisions>>

ReceiveLiquidation(l, event) ==
    /\ StreamEvent
    /\ liquidations' = liquidations \cup
            {[position |-> l.position, notional |-> l.notional, event |-> event]}
    /\ UNCHANGED <<clock, market, marks, prices, since, client, tables, capture,
                   reading, decisions>>

ReceiveCoinbasePrice(price, observed) ==
    /\ StreamEvent
    /\ prices' = prices \cup {[price |-> price, observed |-> observed]}
    /\ UNCHANGED <<clock, market, marks, liquidations, since, client, tables, capture,
                   reading, decisions>>

\* The liquidation stream connects, or is marked disconnected or stale.
StreamChanges ==
    /\ StreamEvent
    /\ since' = IF since = Absent THEN clock ELSE Absent
    /\ UNCHANGED <<clock, market, marks, liquidations, prices, client, tables, capture,
                   reading, decisions>>

mark_price_known_at(t) == {m \in marks : m.event <= t /\ m.received <= t}

continuously_connected_since(t) == since # Absent /\ since <= t

liquidation_notional(position, start, end) ==
    MapThenSumSet(LAMBDA l : l.notional,
        {l \in liquidations : l.position = position /\ start < l.event /\ l.event <= end})

(***************************************************************************)
(* Fetching a snapshot                                                      *)
(***************************************************************************)
\* _premium: the newest mark price of the stream, unless it is too old.
Premium ==
    LET known == mark_price_known_at(clock)
        newest == Newest(known, LAMBDA m : m.event)
    IN IF known # {} /\ clock - newest.event <= MarkAge
       THEN [source |-> "websocket", time |-> newest.event]
       ELSE [source |-> "rest", time |-> clock]

\* _optional_latest: what one answer of the basis endpoint yields, and until
\* when the client then leaves the endpoint alone.  An empty list is asked for
\* again, and yields nothing when it stays empty.
Blocked == blockedUntil # Absent /\ clock < blockedUntil

Basis(answer) ==
    IF ~OfficialBasis \/ Blocked \/ answer # "rate" THEN Absent ELSE market[clock].basis

BasisBlockedUntil(answer) ==
    IF ~OfficialBasis \/ Blocked THEN blockedUntil
    ELSE CASE answer = "rate" -> Absent
           [] answer = "limited" -> clock + Cooldown
           [] answer = "banned" -> clock + 1
           [] answer = "banned for long" -> clock + MaximumCooldown
           [] OTHER -> blockedUntil

\* Mutant of AvailableAt: a snapshot is available when its fetch begins.
AvailableAtStart(started) == started

\* fetch_snapshot reads the clock again when everything has been fetched.
AvailableAt(started) == Max({started, clock})

MarkIndexBasis(s) == ((s.mark - s.index) * 1000000) \div s.index

StartFetch ==
    /\ capture = Absent
    /\ capture' = [at |-> "fetch", started |-> clock, quote |-> Premium]
    /\ UNCHANGED <<clock, market, streamed, client, tables, reading, decisions>>

\* The requests take time; any of them but the last may raise, which ends the
\* capture (see CaptureFails).
EndFetch(answer) ==
    /\ capture # Absent /\ capture.at = "fetch" /\ clock > capture.started
    /\ CaptureFault(answer # "rate")
    /\ LET q == market[capture.quote.time]
           m == market[clock]
           available == AvailableAt(capture.started)
       IN capture' = [at |-> "snapshot",
             snapshot |-> [available |-> available,
                           observed |-> Min({Max({capture.quote.time, clock}), available}),
                           mark |-> q.mark, index |-> q.index, funding |-> q.funding,
                           source |-> capture.quote.source, interest |-> m.interest * q.mark,
                           global |-> m.global, top |-> m.top, taker |-> m.taker,
                           basis |-> Basis(answer),
                           premium |-> Absent]]
    /\ blockedUntil' = BasisBlockedUntil(answer)
    /\ UNCHANGED <<clock, market, streamed, tables, reading, decisions>>

\* _with_coinbase_premium, and the snapshot's transaction.
WithCoinbasePremium(s) ==
    LET known == {c \in prices : c.observed <= s.available}
        newest == Newest(known, LAMBDA c : c.observed)
    IN IF known = {} THEN s
       ELSE IF s.available - newest.observed > PriceAge THEN s
       ELSE [s EXCEPT !.premium = ((newest.price - s.index) * 1000000) \div s.index]

SaveSnapshot ==
    /\ capture # Absent /\ capture.at = "snapshot"
    /\ LET s == WithCoinbasePremium(capture.snapshot)
       IN /\ snapshots' = snapshots \cup {s}
          /\ capture' = [at |-> "signal", snapshot |-> s]
    /\ UNCHANGED <<clock, market, streamed, client, signals, crowding, reading, decisions>>

(***************************************************************************)
(* The squeeze signal                                                       *)
(***************************************************************************)
Portion(value, scale) == Max({0, Min({100, (value * 100) \div scale})})

Mean(a, b) == (a + b) \div 2

\* _change: against the newest snapshot at least the delay older, unless that
\* is much older still.
Change(history, s, field, delay) ==
    LET before == {x \in history : x.available < s.available /\ x.available <= s.available - delay}
        previous == Newest(before, LAMBDA x : x.available)
    IN IF before = {} THEN Absent
       ELSE IF s.available - delay - previous.available > ChangeGap THEN Absent
       ELSE ((s[field] - previous[field]) * 1000000) \div previous[field]

FuelScore(s, basis, interest1h, price1h) ==
    IF Absent \in {interest1h, price1h, basis} THEN Absent
    ELSE IF interest1h <= 0 THEN 0
    ELSE 35 * Portion(interest1h, 30000) + 20 * Portion(10000 - price1h, 20000)
         + 20 * Portion(50 - s.funding, 200) + 15 * Portion(-basis, 1000)
         + 10 * Mean(Portion(1000000 - s.global, 250000), Portion(1000000 - s.top, 250000))

Unknown == [ret |-> Absent, ratio |-> Absent, breakout |-> Absent]

MedianVolume(S) ==
    LET v == SetToSortSeq(S, LAMBDA c, d : c.volume < d.volume)
    IN Mean(v[(Len(v) + 1) \div 2].volume, v[Len(v) \div 2 + 1].volume)

SpotFeatures(asOf) ==
    LET known == {c \in Candles : c.available <= asOf}
        newest == Newest(known, LAMBDA c : c.open)
        before == {c \in known : c.open < newest.open}
        previous == Newest(before, LAMBDA c : c.open)
        recent == {c \in before : Cardinality({d \in before : d.open > c.open}) < Lookback}
        baseline == MedianVolume(recent)
    IN IF Cardinality(known) <= Lookback THEN Unknown
       ELSE [ret |-> ((newest.close - previous.close) * 1000000) \div previous.close,
             ratio |-> IF baseline > 0 THEN (newest.volume * 100) \div baseline ELSE Absent,
             breakout |-> newest.close > Max({c.high : c \in recent})]

IgnitionScore(s, spot) ==
    IF Absent \in {spot.ret, spot.ratio} THEN Absent
    ELSE (IF spot.breakout THEN 4000 ELSE 0) + 25 * Portion(spot.ratio - 100, 150)
         + 20 * Portion(spot.ret, 10000) + 15 * Portion(s.taker - 1000000, 300000)

SqueezeState(fuel, ignition, interest15, price15, spot, shorts, confirmed) ==
    IF fuel = Absent THEN "INSUFFICIENT_DATA"
    ELSE IF fuel < 5000 THEN "NONE"
    ELSE IF ignition = Absent THEN "FUEL"
    ELSE IF ignition < 5500 THEN "FUEL"
    ELSE IF Absent \in {interest15, price15} THEN "IGNITION"
    ELSE IF /\ interest15 <= -5000 /\ price15 >= 4000
            /\ spot.ret > 0 /\ spot.breakout /\ confirmed /\ shorts > 0
         THEN "ACTIVE" ELSE "IGNITION"

\* The frozen version reads the official basis, its successor the proxy.
Versions == {"official", "proxy"}

BasisInput(version, s) == IF version = "proxy" THEN MarkIndexBasis(s) ELSE s.basis

Signal(version, history, s, shorts, confirmed) ==
    LET interest15 == Change(history, s, "interest", Quarter)
        interest1h == Change(history, s, "interest", Hour)
        price15 == Change(history, s, "mark", Quarter)
        price1h == Change(history, s, "mark", Hour)
        spot == SpotFeatures(s.available)
        fuel == FuelScore(s, BasisInput(version, s), interest1h, price1h)
        ignition == IgnitionScore(s, spot)
    IN [snapshot |-> s, version |-> version, asOf |-> s.available,
        state |-> SqueezeState(fuel, ignition, interest15, price15, spot, shorts, confirmed),
        fuel |-> fuel, ignition |-> ignition,
        interest15 |-> interest15, interest1h |-> interest1h,
        price15 |-> price15, price1h |-> price1h,
        basis |-> IF version = "proxy" THEN BasisInput(version, s) ELSE Absent,
        shorts |-> shorts, confirmed |-> confirmed]

IsScore(x) == x = Absent \/ x \in 0 .. 10000

\* What the constructor of a signal demands; it raises otherwise.
SignalIsSound(g) ==
    /\ IsScore(g.fuel) /\ IsScore(g.ignition)
    /\ g.confirmed => g.shorts # Absent

\* INSERT OR IGNORE: one signal of a version for a snapshot.
Store(table, row) ==
    IF \E r \in table : r.snapshot = row.snapshot /\ r.version = row.version
    THEN table ELSE table \cup {row}

\* The 15 minutes before the snapshot, if the stream covered them.
Notional(position, s) ==
    IF continuously_connected_since(s.available - Quarter)
    THEN liquidation_notional(position, s.available - Quarter, s.available) ELSE Absent

SavePrimarySignal ==
    /\ capture # Absent /\ capture.at = "signal"
    /\ LET s == capture.snapshot
           confirmed == continuously_connected_since(s.available - Quarter)
           shorts == Notional("SHORT", s)
           signal == Signal("proxy", snapshots, s, shorts, confirmed)
       IN /\ SignalIsSound(signal)
          /\ signals' = Store(signals, signal)
          /\ capture' = [at |-> "others", snapshot |-> s, signal |-> signal,
                         history |-> snapshots, shorts |-> shorts,
                         longs |-> Notional("LONG", s), confirmed |-> confirmed]
    /\ UNCHANGED <<clock, market, streamed, client, snapshots, crowding, reading, decisions>>

\* A calculator or a transaction that raises costs only its own signal.
SaveAdditionalSignal(raises) ==
    /\ capture # Absent /\ capture.at = "others" /\ CaptureFault(raises)
    /\ LET signal == Signal("official", capture.history, capture.snapshot,
                            capture.shorts, capture.confirmed)
       IN signals' = IF raises \/ ~SignalIsSound(signal) THEN signals
                     ELSE Store(signals, signal)
    /\ capture' = [capture EXCEPT !.at = "crowding"]
    /\ UNCHANGED <<clock, market, streamed, blockedUntil, snapshots, crowding, reading, decisions>>

(***************************************************************************)
(* The crowding signal                                                      *)
(***************************************************************************)
CrowdingScore(build, price, funding, basis, positioning) ==
    (build * (3000 + 20 * Portion(price, 20000) + 20 * Portion(funding, 200)
              + 15 * Portion(basis, 1000) + 15 * positioning)) \div 100

LiquidationShare(notional, confirmed) ==
    IF ~confirmed \/ notional = Absent THEN Absent ELSE LogShare[notional]

\* The pressures that are known share the weight of those that are not.
UnwindScore(price, interest, taker, premium, liquidation) ==
    LET known == <<[w |-> 30, v |-> price], [w |-> 25, v |-> interest], [w |-> 20, v |-> taker]>>
                 \o (IF premium = Absent THEN <<>> ELSE <<[w |-> 10, v |-> premium]>>)
                 \o (IF liquidation = Absent THEN <<>> ELSE <<[w |-> 15, v |-> liquidation]>>)
        Total(Of(_)) == FoldLeft(LAMBDA sum, x : sum + Of(x), 0, known)
    IN (Total(LAMBDA x : x.w * x.v) * 100) \div Total(LAMBDA x : x.w)

DominantSide(long, short) ==
    IF Max({long, short}) < 5000 \/ (long - short < 1000 /\ short - long < 1000) THEN "NONE"
    ELSE IF long > short THEN "LONG" ELSE "SHORT"

CrowdingState(long, short, bullish, bearish) ==
    LET side == DominantSide(long, short)
    IN CASE long >= 6500 /\ bearish >= 5500 -> "LONG_UNWIND"
         [] ~(long >= 6500 /\ bearish >= 5500) /\ short >= 6500 /\ bullish >= 5500
                -> "SHORT_UNWIND"
         [] ~(long >= 6500 /\ bearish >= 5500) /\ ~(short >= 6500 /\ bullish >= 5500)
                -> IF side = "LONG" /\ long >= 6500 THEN "LONG_CROWDED"
                   ELSE IF side = "SHORT" /\ short >= 6500 THEN "SHORT_CROWDED"
                   ELSE "NEUTRAL"

Crowding(s, source, longs, shorts, confirmed) ==
    LET build == Portion(source.interest1h, 30000)
        long == CrowdingScore(build, source.price1h, s.funding, source.basis,
                    Mean(Portion(s.global - 1000000, 500000), Portion(s.top - 1000000, 500000)))
        short == CrowdingScore(build, -source.price1h, -s.funding, -source.basis,
                    Mean(Portion(1000000 - s.global, 250000), Portion(1000000 - s.top, 250000)))
        Unwind(sign, notional) ==
            UnwindScore(Portion(sign * source.price15, 10000), Portion(-source.interest15, 20000),
                        Portion(sign * (s.taker - 1000000), 300000),
                        IF s.premium = Absent THEN Absent ELSE Portion(sign * s.premium, 1000),
                        LiquidationShare(notional, confirmed))
        bullish == Unwind(1, shorts)
        bearish == Unwind(-1, longs)
        row == [snapshot |-> s, version |-> "crowding", asOf |-> s.available,
                state |-> "INSUFFICIENT_DATA", side |-> "NONE", long |-> Absent,
                short |-> Absent, bullish |-> Absent, bearish |-> Absent, confidence |-> 0,
                longs |-> longs, shorts |-> shorts, confirmed |-> confirmed]
    IN IF Absent \in {source.basis, source.interest1h, source.price1h,
                    source.interest15, source.price15}
       THEN row
       ELSE [row EXCEPT !.state = CrowdingState(long, short, bullish, bearish),
                        !.side = DominantSide(long, short),
                        !.long = long, !.short = short,
                        !.bullish = bullish, !.bearish = bearish,
                        !.confidence = 80 + (IF s.premium # Absent THEN 10 ELSE 0)
                                          + (IF confirmed THEN 10 ELSE 0)]

CrowdingIsSound(c) ==
    /\ \A x \in {c.long, c.short, c.bullish, c.bearish} :
          IsScore(x) /\ (x = Absent => c.state = "INSUFFICIENT_DATA")
    /\ c.state = "INSUFFICIENT_DATA" => c.side = "NONE"
    /\ c.confidence \in 0 .. 100
    /\ c.confirmed => Absent \notin {c.longs, c.shorts}

SaveCrowdingSignal(raises) ==
    /\ capture # Absent /\ capture.at = "crowding" /\ CaptureFault(raises)
    /\ LET row == Crowding(capture.snapshot, capture.signal, capture.longs,
                           capture.shorts, capture.confirmed)
       IN crowding' = IF raises \/ ~CrowdingIsSound(row) THEN crowding
                      ELSE Store(crowding, row)
    /\ capture' = Absent
    /\ UNCHANGED <<clock, market, streamed, blockedUntil, snapshots, signals, reading, decisions>>

\* A request, the snapshot's or the main signal's transaction raises, or the
\* process ends: what was stored stays, and the pause of the basis is lost
\* with the process.
CaptureFails(crash) ==
    /\ capture # Absent /\ (crash \/ capture.at \in {"fetch", "snapshot", "signal"})
    /\ CaptureFault(TRUE)
    /\ capture' = Absent
    /\ blockedUntil' = IF crash THEN Absent ELSE blockedUntil
    /\ reading' = IF crash THEN Absent ELSE reading
    /\ UNCHANGED <<clock, market, streamed, tables, decisions>>

(***************************************************************************)
(* The overlay of a decision                                                *)
(***************************************************************************)
\* The newest row that is available at the cutoff with its snapshot.
Known(table, version, cutoff) ==
    LET known == {r \in table : /\ r.version = version /\ r.asOf <= cutoff
                                /\ r.snapshot.available <= cutoff}
    IN IF known = {} THEN Absent ELSE Newest(known, LAMBDA r : r.asOf)

observation_known_at(cutoff) == Known(signals, "proxy", cutoff)
crowding_known_at(cutoff) == Known(crowding, "crowding", cutoff)

Availability(row, cutoff) ==
    IF row = Absent THEN "MISSING"
    ELSE IF cutoff - row.asOf > OverlayAge THEN "STALE"
    ELSE IF row.state = "INSUFFICIENT_DATA" THEN "INCOMPLETE" ELSE "AVAILABLE"

Recommendation(state) ==
    CASE state = "NONE" -> "NO_CONFIRMATION"
      [] state = "FUEL" -> "WAIT_FOR_IGNITION"
      [] state \in {"IGNITION", "ACTIVE"} -> "CONFIRM_RISK_ON"

\* known_at asks for the crowding signal only beside a squeeze signal.
Overlay(cutoff, signal, crowd) ==
    LET availability == Availability(signal, cutoff)
    IN [asOf |-> cutoff, availability |-> availability, signal |-> signal,
        recommendation |-> IF availability = "AVAILABLE"
                           THEN Recommendation(signal.state) ELSE "UNKNOWN",
        crowdingAvailability |-> IF signal = Absent THEN Absent ELSE Availability(crowd, cutoff),
        crowding |-> IF signal = Absent THEN Absent ELSE crowd]

\* What the constructor of the overlay demands; a decision whose overlay raises
\* goes on without one.
OverlayIsSound(o) ==
    /\ (o.signal = Absent) = (o.availability = "MISSING")
    /\ o.signal # Absent => o.signal.asOf <= o.asOf /\ o.signal.snapshot.available <= o.asOf
    /\ o.availability # "AVAILABLE" => o.recommendation = "UNKNOWN"
    /\ o.crowding # Absent => o.crowding.asOf <= o.asOf

known_at(cutoff) ==
    Overlay(cutoff, observation_known_at(cutoff), crowding_known_at(cutoff))

Storing == capture # Absent /\ capture.at # "fetch"

\* The two tables are read one after the other.  No later reading of the clock
\* is the instant that a decision has taken as its cutoff.
StartDecision ==
    /\ reading = Absent /\ clock < MaxClock /\ Cardinality(decisions) < MaxDecisions
    /\ reading' = [asOf |-> clock, signal |-> observation_known_at(clock), quiet |-> ~Storing]
    /\ clock' = clock + 1
    /\ UNCHANGED <<market, streamed, client, tables, capture, decisions>>

FinishDecision ==
    /\ reading # Absent
    /\ LET o == Overlay(reading.asOf, reading.signal, crowding_known_at(reading.asOf))
       IN decisions' = decisions \cup
            {[asOf |-> reading.asOf, quiet |-> reading.quiet,
              overlay |-> IF OverlayIsSound(o) THEN o ELSE Absent]}
    /\ reading' = Absent
    /\ UNCHANGED <<clock, market, streamed, client, tables, capture>>

ClockTicks ==
    /\ clock < MaxClock
    /\ clock' = clock + 1
    /\ UNCHANGED <<market, streamed, client, tables, capture, reading, decisions>>

SignalsInit ==
    /\ clock = 0 /\ market \in Markets /\ since = -Quarter
    /\ marks = {} /\ liquidations = {} /\ prices = {} /\ events = 0
    /\ captureFaults = 0 /\ blockedUntil = Absent /\ snapshots = {} /\ signals = {} /\ crowding = {}
    /\ capture = Absent /\ reading = Absent /\ decisions = {}

SignalsNext ==
    \/ \E delay \in -ClockSkew .. MaxDelay :
          clock - delay \in 0 .. MaxClock /\ ReceiveMarkPrice(clock - delay)
    \/ \E l \in Liquidated, delay \in 0 .. MaxDelay : ReceiveLiquidation(l, clock - delay)
    \/ \E p \in Prices, delay \in 0 .. MaxDelay : ReceiveCoinbasePrice(p, clock - delay)
    \/ StreamChanges
    \/ StartFetch
    \/ \E answer \in BasisAnswers : EndFetch(answer)
    \/ SaveSnapshot \/ SavePrimarySignal
    \/ \E raises \in BOOLEAN : SaveAdditionalSignal(raises) \/ SaveCrowdingSignal(raises)
    \/ \E crash \in BOOLEAN : CaptureFails(crash)
    \/ StartDecision \/ FinishDecision
    \/ ClockTicks

SignalsSpec == SignalsInit /\ [][SignalsNext]_signalVars

(***************************************************************************)
(* Properties                                                               *)
(***************************************************************************)
\* The overlay a decision recorded, which is never rejected, is what the tables say
\* for its cutoff for ever after, unless a capture was between its last request and
\* its last transaction when the decision read them: a snapshot counts as available
\* when its fetch has ended, so no later capture, stream message or clock reaches
\* back behind a cutoff (fetch_snapshot, observation_known_at, crowding_known_at,
\* INSERT OR IGNORE).
OverlayIsPointInTime ==
    \A d \in decisions : d.quiet => d.overlay = known_at(d.asOf)
=============================================================================
