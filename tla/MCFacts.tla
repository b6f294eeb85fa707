------------------------------- MODULE MCFacts -------------------------------
EXTENDS IntakeScan, DividendMigration, Curated, InstrumentMaster, ArtifactStore, MCNormalizedBatch
CONSTANTS a, b, table, report, manifest, derive, rederive
VARIABLE case

TheInstants == 0..28

Bar(s, d, c, h) == [symbol |-> s, date |-> d, open |-> 10, high |-> h, low |-> 10, close |-> c]

BarRows ==
  {Bar(s, d, 20, 20) : s \in {a, b, Blank}, d \in {10, 20, Blank, Bad}}
    \union {Bar(a, 10, c, 20) : c \in {Blank, Bad, 30, 0}} \union {Bar(a, 15, 20, 20)}

BarContract ==
  [kind |-> "daily_bars", formats |-> {"date"}, key |-> {"symbol", "date"}, timezone |-> TRUE,
   types |-> [c \in {"symbol", "date"} \union Ohlc |->
                CASE c = "symbol" -> "string" [] c = "date" -> "date" [] OTHER -> "number"],
   units |-> Ohlc, declared |-> TRUE, pointInTime |-> FALSE]

BarContracts == {BarContract, [BarContract EXCEPT !.key = {}], [BarContract EXCEPT !.kind = "table"]}

History(s, p, t, v) == [symbol |-> s, period_end |-> p, available_at |-> t, eps |-> v]

HistoryRows ==
  {History(s, p, 20, 10) : s \in {a, Blank}, p \in {10, 20, 30, Blank, Bad}}
    \union {History(a, 10, t, 10) : t \in {Blank, Bad, 5, 25}}
    \union {History(a, 10, 20, v) : v \in {Blank, Bad, 15}}

HistoryContract ==
  [kind |-> "history", formats |-> {"period_end", "available_at"}, key |-> {"symbol", "period_end"},
   timezone |-> TRUE, units |-> {"eps"}, declared |-> FALSE, pointInTime |-> TRUE,
   types |-> [symbol |-> "string", period_end |-> "date", available_at |-> "datetime", eps |-> "integer"]]

HistoryContracts == {HistoryContract, [HistoryContract EXCEPT !.timezone = FALSE], [HistoryContract EXCEPT !.key = {}]}

Queries(purpose, columns) ==
  {q \in [purpose : {"exploration", purpose}, columns : columns, symbols : {Everything, {a}, {a, b}},
           start : {Everything, 20}, end : {Everything, 20}] :
     q.start = 20 => q.end = 20 /\ q.symbols # {a, b}}

Good == [symbol |-> {a, b}, date |-> {10, 20}, period_end |-> {10, 20}, available_at |-> {10, 30},
         open |-> {10}, high |-> {20}, low |-> {10}, close |-> {10, 20}, eps |-> {10}]

Tables(rows) == UNION {[1..n -> rows] : n \in 0..2}

Tables2 == [contract : BarContracts, rows : Tables(BarRows), query : Queries("daily_bars_research", {Everything, {"close"}})]
  \union [contract : HistoryContracts, rows : Tables(HistoryRows),
            query : Queries("historical_financial_factor_backtest", {Everything, {"eps"}})]

\* A clock that leaps ahead by a minute at 16 and falls back at 16.
Offsets(before, after) == [i \in TheInstants |-> IF i < 16 THEN before ELSE after]
Zone(status, zone, offset, fold) == [status |-> status, zone |-> zone, offset |-> offset, fold |-> fold]
Zones ==
  {Zone("evidenced_iana", z, o, f) :
     z \in {Offsets(0, 4), Offsets(4, 0), Unknown}, o \in {Unknown, 0, 4}, f \in {Unknown, 0, 1}}
    \union {Zone("evidenced_offset", Unknown, o, Unknown) : o \in {0, 4}}
    \union {Unverified, Zone("unknown", Unknown, 4, Unknown)}

Claim(precision, shown, zone, rule, parity) ==
  [precision |-> precision, shown |-> shown, zone |-> zone, display |-> [rule |-> rule, parity |-> parity],
   zoneIds |-> {a}, displayIds |-> {a}, clock |-> ClockUnknown, clockIds |-> {}, intervalIds |-> {},
   known |-> {a}, acquired |-> [m \in {a, b} |-> 26], captured |-> 22, revision |-> 22,
   study |-> "retrospective", trust |-> "trust_source_declared_time"]

Parities(rule) == IF rule = "rounded_half_even" THEN {Unknown, "minute_of_hour", "epoch"} ELSE {Unknown}

Claims ==
  UNION {{Claim("minute", l, z, r, p) : l \in {12, 16, 20}, z \in Zones, p \in Parities(r)} : r \in MinuteRules}
    \union {Claim("date", l, z, r, Unknown) : l \in {8, 16}, z \in Zones, r \in {"publication_date", "exact", Unknown}}
    \union {Claim("exact_timestamp", t, Unverified, r, Unknown) : t \in Instants, r \in {"exact", Unknown}}
    \union {Claim("interval", Interval(8, f, 13, t), Unverified, "explicit_interval", Unknown) :
              f \in BOOLEAN, t \in BOOLEAN}
    \union {Claim("unknown", 8, Unverified, Unknown, Unknown)}

Doubts(claim) ==
  {claim, [claim EXCEPT !.zoneIds = {a, b}], [claim EXCEPT !.displayIds = {}],
   [claim EXCEPT !.clock = [status |-> "source_asserted", error |-> 1]],
   [claim EXCEPT !.clock.error = 1], [claim EXCEPT !.intervalIds = {b}],
   [claim EXCEPT !.study = "natural_forward"], [claim EXCEPT !.trust = "capture_receipt_only"],
   [claim EXCEPT !.captured = 14]}

Trade(day, seq, time) ==
  [session |-> day, seq |-> seq, time |-> time, price |-> seq, quantity |-> IF seq = 2 THEN 2 ELSE 1, available |-> time + 1]

TradesAt(day, times) == {Trade(day, i, times[i]) : i \in DOMAIN times}

TheSessions == [s \in {a, b} |-> IF s = a THEN [opens |-> 0, closes |-> 4] ELSE [opens |-> 4, closes |-> 8]]

TheTrades ==
  {TradesAt(a, times) : times \in UNION {[seqs -> 0..2] : seqs \in {{1}, {1, 2}, {1, 2, 4}}}}
    \union {TradesAt(a, [i \in {1, 2, 4, 5} |-> CASE i = 1 -> 1 [] i = 2 -> 0 [] OTHER -> i - 2])}
    \union {TradesAt(a, <<1, x>>) \union TradesAt(b, <<y, z>>) : x \in {0, 3}, y \in {3, 4}, z \in {5, 6}}

KindsAndSizes ==
  {<<"fixed_time_bar", 2>>, <<"fixed_time_bar", 3>>, <<"session", 1>>, <<"trading_day", 1>>,
   <<"trade_count", 1>>, <<"trade_count", 2>>, <<"base_volume", 2>>, <<"base_volume", 3>>}

TheCalls == {[kind |-> k[1], size |-> k[2], trades |-> t] : k \in KindsAndSizes, t \in TheTrades}
OtherCall == [kind |-> "trade_count", size |-> 1, trades |-> TradesAt(a, <<1, 2>>)]

\* A dividend in one currency, or declared in one and paid in another.
V1(effective, available, captured, published, date) ==
  [effective |-> effective, available |-> available, captured |-> captured, published |-> published, date |-> date]

V1Timings ==
  {V1(4, 6, 10, 6, Unknown), V1(12, 10, 18, 10, Unknown), V1(4, 10, 18, 6, Unknown), V1(4, 6, 18, 10, Unknown),
   V1(4, 18, 18, Unknown, 16), V1(12, 10, 10, Unknown, 8), V1(4, 10, 10, Unknown, 16), V1(4, 6, 10, Unknown, 0),
   V1(12, 18, 18, Unknown, Unknown), V1(4, 10, 10, 6, 0)}

Fixing(at, date, zone) == [at |-> at, date |-> date, zone |-> zone]

Dividend(selected, policy, fixing, phases) ==
  [evidence |-> [p \in phases |-> [event |-> p, timing |-> V1(4, 10, 10, IF p = "proposal" THEN 6 ELSE Unknown, Unknown)]],
   terms |-> [declared |-> a, options |-> {a, b}, default |-> a, selected |-> selected, choice |-> "elected",
              policy |-> policy, account |-> [p \in {"election", "policy", "payment"} |-> a], from |-> a, to |-> b,
              fixing |-> fixing, paid |-> selected, gross |-> 10, net |-> 8, withheld |-> 1, deducted |-> 1, rounding |-> 0]]

Parts == {"proposal", "entitlement", "election", "conversion", "policy", "payment"}

Dividends ==
  {Dividend(b, "certified", f, Parts) :
     f \in {Fixing(10, Unknown, Unknown), Fixing(10, Unknown, Offsets(0, 4)), Fixing(11, Unknown, Unknown),
            Fixing(Unknown, 8, Offsets(0, 4)), Fixing(Unknown, 16, Offsets(0, 4))}}
    \union {Dividend(a, "certified", Unknown, Parts \ {"conversion"}), Dividend(a, "unverified", Unknown, {"entitlement", "election"}),
            Dividend(a, Unknown, Unknown, {"entitlement"})}

\* A dividend whose one phase has other times, or which has other terms.
Retimed(l) == {[l EXCEPT !.evidence[p].timing = t] : p \in DOMAIN l.evidence, t \in V1Timings}
Flawed(l) ==
  {[l EXCEPT !.terms.choice = "default"], [l EXCEPT !.terms.account["election"] = b], [l EXCEPT !.terms.paid = b],
   [l EXCEPT !.terms.net = 9], [l EXCEPT !.terms.options = {a}], [l EXCEPT !.evidence["entitlement"].event = "payment"]}

\* What may be presented as the migration of a source.
Presented(source, at) ==
  LET l == Migrated(source, at) IN
  {l, [l EXCEPT !.binding = Unknown], [l EXCEPT !.binding.at = 0], [l EXCEPT !.binding.bindings = {}],
   [l EXCEPT !.binding.source.terms.gross = 9], [l EXCEPT !.evidence["entitlement"].timing.revision = 30],
   [l EXCEPT !.evidence["entitlement"].event = "other"], [l EXCEPT !.terms.net = 9]}
    \union UNION {{[l EXCEPT !.evidence[p].timing = MigratedTiming(t, p, at)],
                   [l EXCEPT !.evidence[p].timing = MigratedTiming(t, p, at), !.binding.bindings = BindingsOf([source EXCEPT !.evidence[p].timing = t])]}
                  : p \in {"entitlement"}, t \in {V1(4, 6, 10, 6, Unknown), V1(4, 10, 10, Unknown, 0)}}

\* A master of one symbol, captured at c, whose tick changes at s by a rule published at p.
Values(tick, rates) ==
  [asset_class |-> "etf", venue |-> "SSE", listing_date |-> 0, price_scale |-> 2, price_tick |-> tick, lot_size |-> 100,
   price_limit_rate |-> 1, commission_rate |-> IF rates THEN 0 ELSE Absent]

States(values, fields) ==
  SetToSeq({[symbol |-> a, field |-> f, value |-> values[f]] : f \in fields})

Document(kind, available, from, to, c, values, fields) ==
  [kind |-> kind, published |-> available, available |-> available, from |-> from, to |-> to, file |-> "page.html",
   basis |-> IF to = c THEN "observed" ELSE "superseded", sha256 |-> b, content |-> b, says |-> States(values, fields)]

Version(available, from, to, trading, rates, values) ==
  [symbol |-> a, available |-> available, from |-> from, to |-> to, listing |-> "L", trading |-> trading, limit |-> "P",
   fee |-> IF rates THEN "F" ELSE Absent, feeScope |-> IF rates THEN "official" ELSE "unavailable", values |-> values]

Master(c, s, p, tick, rates) ==
  LET old == Values(10, rates)
      new == Values(tick, rates)
      first == IF s = Absent THEN c ELSE s
  IN [captured |-> c,
      docs |-> [id \in {"L", "P", "T"} \union (IF rates THEN {"F"} ELSE {}) \union (IF s = Absent THEN {} ELSE {"U"}) |->
                  CASE id = "L" -> Document("listing", 1, 0, c, c, old, ListingFields)
                    [] id = "P" -> Document("price_limit", 0, 0, c, c, old, PriceLimitFields)
                    [] id = "T" -> Document("trading_rule", 0, 0, first, c, old, TradingFields)
                    [] id = "U" -> Document("trading_rule", p, s, c, c, new, TradingFields)
                    [] id = "F" -> Document("fee_schedule", 0, 0, c, c, old, FeeFields)],
      rows |-> <<Version(1, 1, first, "T", rates, old)>>
                 \o IF s = Absent THEN <<>> ELSE <<Version(p, s, c, "U", rates, new)>>]

Masters ==
  UNION {{Master(c, Absent, 0, 10, r), Master(c, 5, 3, 20, r), Master(c, 9, 3, 10, r), Master(c, 9, 9, 10, r), Master(c, 13, 9, 20, r)}
           : c \in {14, 18}, r \in BOOLEAN}

FlawedMasters ==
  UNION {UNION {{[m EXCEPT !.docs["T"].available = t], [m EXCEPT !.docs["L"].available = t], [m EXCEPT !.rows[1].available = t],
                 [m EXCEPT !.docs["T"].available = t, !.docs["T"].published = 0, !.rows[1].available = t],
                 [m EXCEPT !.docs["L"].available = t, !.rows[1].available = t],
                 [m EXCEPT !.rows[1].to = t], [m EXCEPT !.docs["T"].to = t], [m EXCEPT !.rows[1].from = t]} : t \in {0, 2, 5, 8, 10, 14}}
     \union {[m EXCEPT !.docs["P"].content = a], [m EXCEPT !.docs["T"].says = <<>>], [m EXCEPT !.rows = <<m.rows[1], m.rows[1]>>],
             [m EXCEPT !.rows[1].values["lot_size"] = 10], [m EXCEPT !.docs["L"].file = "catalog.csv"],
             [m EXCEPT !.rows[1].limit = "T"], [m EXCEPT !.rows[1].trading = "L"]}
     : m \in {Master(14, 9, 3, 10, TRUE), Master(14, 9, 9, 10, FALSE)}}

Cutoffs == {0, 1, 3, 5, 9, 11, 13, 14}
Days == {<<0, 0>>, <<0, 1>>, <<1, 1>>, <<1, 2>>, <<2, 2>>, <<2, 3>>}
OtherFiles == [declaration |-> Master(18, 5, 3, 20, FALSE), source |-> Master(18, 5, 3, 20, FALSE).rows,
               catalog |-> Catalog(Master(18, 5, 3, 20, FALSE).rows),
               documents |-> [id \in {"L", "P", "T", "U", "F"} |-> a]]

\* A snapshot of a report, its derivation from a table and, should it be admitted, that
\* of the frame from the report.
TheMembers == [k \in {manifest} |-> {report}]
TheInputs == [k \in {derive, rederive} |-> IF k = derive THEN {table} ELSE {report}]
TheOutput == [k \in {derive, rederive} |-> IF k = derive THEN report ELSE table]

CuratedIdle == CuratedInit
BatchIdle == BatchInit /\ mode = "mapping" /\ expected = {}
curated == <<snapshots, registry, writers, lost>>

Symmetry == Permutations(Writers) \union Permutations(Revisions)

FactsInit ==
  /\ ArtifactInit
  /\ \/ /\ \/ \E t \in Tables2 : case = [kind |-> "intake", input |-> t]
           \/ \E c \in Claims : \E k \in Doubts(c) : case = [kind |-> "publication", input |-> k]
           \/ \E l \in Dividends : \E s \in Retimed(l) \union Flawed(l), at \in {10, 20} : \E m \in Presented(s, at) :
                case = [kind |-> "dividend", input |-> <<s, at, m>>]
           \/ \E k \in Masters, n \in Masters : case = [kind |-> "master", input |-> <<k, n>>]
           \/ \E k \in FlawedMasters : case = [kind |-> "master", input |-> <<k, k>>]
           \/ \E c \in TheCalls : case = [kind |-> "curated", input |-> IF c.size = 2 \/ Bars(c) = NoBars THEN {c, OtherCall} ELSE {c}]
           \/ case = [kind |-> "artifacts", input |-> {}]
        /\ CuratedIdle /\ BatchIdle
     \/ case = [kind |-> "batch", input |-> {}] /\ CuratedIdle /\ BatchInit

FactsNext ==
  /\ UNCHANGED case
  /\ \/ /\ case.kind = "curated" /\ UNCHANGED <<batchVars, artifactVars>>
        /\ (\E w \in Writers, r \in Revisions, c \in case.input : Stage(w, r, c)) \/ StagedCall
     \/ case.kind = "batch" /\ BatchNext /\ UNCHANGED <<curated, artifactVars>>
     \/ case.kind = "artifacts" /\ ArtifactNext /\ UNCHANGED <<curated, batchVars>>
     \/ case.kind \in {"intake", "publication", "dividend", "master"} /\ UNCHANGED <<curated, batchVars, artifactVars>>

FactsSpec == FactsInit /\ [][FactsNext]_<<case, curated, batchVars, artifactVars>>

\* The curated part alone.
BarsSpec == FactsInit /\ case.kind = "curated" /\ [][FactsNext]_<<case, curated, batchVars, artifactVars>>

\* IntakeScan: a read is admitted only if no correction of a doubtful row changes it.
ReadsAreCertain ==
  case.kind = "intake" => AdmissionIsCertain(case.input.contract, case.input.rows, case.input.query, Good)

\* PublicationTime and DividendMigration: no study uses information before it was
\* published, what is built of a claim is accepted where it is read, and a dividend is
\* migrated with the times and the terms it had, whoever presents the migration.
PublicationIsNeverEarly ==
  /\ case.kind = "publication" => NeverEarly(case.input)
  /\ case.kind = "dividend" => MigrationIsTotal(case.input[1], case.input[2]) /\ MigratedIsNeverEarly(case.input[3])

\* InstrumentMaster: a published master loads as it was imported, tells the same past
\* in each later capture and resolves an interval to what was known and in force.
MasterIsFaithful ==
  case.kind = "master" =>
    LET loaded == [i \in 1..2 |-> IF Imported(case.input[i]) = Absent THEN Absent ELSE Loaded(Imported(case.input[i]))] IN
    /\ BundleReplays(case.input[1], OtherFiles)
    /\ loaded[1] # Absent => \A d \in Days : ResolutionHolds(loaded[1], a, d[1], d[2])
    /\ loaded[1] # Absent /\ loaded[2] # Absent => \A k \in Cutoffs : PrefixIsStable(loaded[1], loaded[2], k)
=============================================================================
