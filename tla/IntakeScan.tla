------------------------------ MODULE IntakeScan ------------------------------
(***************************************************************************)
(* The quality scan of research_intake.py and the admission of a scope: a  *)
(* table and its contract are normalized, every doubtful cell is entered   *)
(* in a ledger of issues, and a reader who asks for columns, symbols and   *)
(* dates is refused when an issue may concern what he would get.           *)
(*                                                                         *)
(* A number, an instant and a day are integers on axes of tenths: day d is *)
(* 10 * d, and an integer is a multiple of ten.  Symbols are model values. *)
(***************************************************************************)
EXTENDS Integers, FiniteSets, Sequences

CONSTANTS
  Blank,       \* an empty cell, and what becomes of a cell that is none
  Bad,         \* a text that is neither number nor date
  Everything,  \* no restriction of columns, symbols or dates
  Ambiguous,   \* local instants that a clock change repeats or skips
  Refused      \* the answer to a read that is not admitted

ASSUME ScanAssumption ==
  /\ Ambiguous \subseteq Int
  /\ {Blank, Bad, Everything, Refused} \cap Int = {}

Ohlc == {"open", "high", "low", "close"}
Numeric == {"number", "integer"}
Mapped(contract) == DOMAIN contract.types
TypeIn(contract, c) == IF c \in Mapped(contract) THEN contract.types[c] ELSE Everything

Cells(rows, columns) == (DOMAIN rows) \X columns
Midnight(t) == 10 * (t \div 10)

(***************************************************************************)
(* _normalize: what each cell becomes, and the issues.                     *)
(***************************************************************************)
Unconverted(contract, c, cell) ==
  /\ cell # Blank
  /\ CASE contract.types[c] = "string"   -> FALSE
       [] contract.types[c] = "number"   -> cell \notin Int
       [] contract.types[c] = "integer"  -> cell \notin Int \/ cell % 10 # 0
       [] contract.types[c] = "boolean"  -> cell \notin {0, 10}
       [] contract.types[c] = "date"     -> c \notin contract.formats \/ cell \notin Int
       [] contract.types[c] = "datetime" -> \/ c \notin contract.formats \/ cell \notin Int
                                            \/ ~contract.timezone \/ cell \in Ambiguous

Converted(contract, c, cell) ==
  IF cell = Blank \/ Unconverted(contract, c, cell) THEN Blank
  ELSE IF contract.types[c] = "date" THEN Midnight(cell) ELSE cell

Normalized(contract, rows) ==
  [i \in DOMAIN rows |-> [c \in Mapped(contract) |-> Converted(contract, c, rows[i][c])]]

Issue(row, rule, columns) == [row |-> row, rule |-> rule, columns |-> columns, error |-> TRUE]
Global(rule, columns) == Issue(0, rule, columns)

EmptyIssues(contract, rows) ==
  IF rows # <<>> THEN {}
  ELSE {[Global("empty", {}) EXCEPT !.error = contract.kind \in {"daily_bars", "history"}]}

ConversionIssues(contract, rows) ==
  {Issue(y[1], "type", {y[2]}) : y \in
     {x \in Cells(rows, Mapped(contract)) : Unconverted(contract, x[2], rows[x[1]][x[2]])}}

\* A date with a time of day keeps its day.
TimeIssues(contract, rows) ==
  {Issue(x[1], "date_has_time", {x[2]}) : x \in
     {y \in Cells(rows, Mapped(contract)) :
        /\ contract.types[y[2]] = "date" /\ ~Unconverted(contract, y[2], rows[y[1]][y[2]])
        /\ rows[y[1]][y[2]] # Blank /\ rows[y[1]][y[2]] # Midnight(rows[y[1]][y[2]])}}

Required(contract) ==
  contract.key \union (CASE contract.kind = "daily_bars" -> {"symbol", "date"} \union Ohlc
                         [] contract.kind = "history"    -> {"symbol", "period_end"}
                         [] OTHER                        -> {})

MissingIssues(contract, frame) ==
  {Issue(x[1], "missing", {x[2]}) : x \in
     {y \in Cells(frame, Required(contract)) : frame[y[1]][y[2]] = Blank}}

SameKey(frame, i, j, key) == \A c \in key : frame[i][c] = frame[j][c]

\* Every row of a repeated key is named, none is chosen.
DuplicateIssues(contract, frame) ==
  {Issue(i, "duplicate_primary_key", contract.key) : i \in
     {j \in DOMAIN frame : contract.key # {} /\
        \E k \in DOMAIN frame \ {j} : SameKey(frame, j, k, contract.key)}}

PriceIssues(contract, frame) ==
  {Issue(x[1], "price", {x[2]}) : x \in
     {y \in Cells(frame, Mapped(contract) \cap (Ohlc \union {"volume"})) :
        /\ contract.kind = "daily_bars" /\ contract.types[y[2]] \in Numeric
        /\ frame[y[1]][y[2]] # Blank
        /\ frame[y[1]][y[2]] < (IF y[2] = "volume" THEN 0 ELSE 1)}}

OhlcIssues(contract, frame) ==
  {Issue(i, "ohlc_consistency", Ohlc) : i \in
     {j \in DOMAIN frame :
        /\ contract.kind = "daily_bars" /\ \A c \in Ohlc : contract.types[c] \in Numeric
        /\ \A c \in Ohlc : frame[j][c] # Blank
        /\ \E c \in Ohlc : frame[j]["high"] < frame[j][c] \/ frame[j]["low"] > frame[j][c]}}

Ledger(contract, rows) ==
  LET frame == Normalized(contract, rows) IN
    EmptyIssues(contract, rows) \union ConversionIssues(contract, rows)
      \union TimeIssues(contract, rows) \union MissingIssues(contract, frame)
      \union DuplicateIssues(contract, frame) \union PriceIssues(contract, frame)
      \union OhlcIssues(contract, frame)

HasErrors(issues) == \E issue \in issues : issue.error

\* Whether a version of the table is ready or blocked.
\* Mutation of Status: an issue of a cell does not block.
StatusOfTable(contract, rows) ==
  IF \E issue \in Ledger(contract, rows) : issue.error /\ issue.row = 0 THEN "blocked" ELSE "ready"
Status(contract, rows) == IF HasErrors(Ledger(contract, rows)) THEN "blocked" ELSE "ready"

(***************************************************************************)
(* _check_snapshot: a query names a purpose, columns, symbols and the      *)
(* first and last day; each but the purpose may be Everything.             *)
(***************************************************************************)
DateColumn(contract) ==
  IF "date" \in Mapped(contract) THEN "date"
  ELSE IF "period_end" \in Mapped(contract) THEN "period_end" ELSE Everything

Dated(query) == query.start # Everything \/ query.end # Everything

Columns(contract, query) == IF query.columns = Everything THEN Mapped(contract) ELSE query.columns

\* A query that asks for a column that is not there is an error, and so is the
\* comparison of instants with calendar dates.
Askable(contract, query) ==
  /\ Columns(contract, query) \subseteq Mapped(contract)
  /\ query.symbols # Everything => "symbol" \in Mapped(contract)
  /\ Dated(query) => /\ DateColumn(contract) # Everything
                     /\ TypeIn(contract, DateColumn(contract)) # "datetime"
  /\ query.start # Everything /\ query.end # Everything => query.start <= query.end

InDates(contract, query, day) ==
  /\ TypeIn(contract, DateColumn(contract)) = "date" /\ day # Blank
  /\ query.start # Everything => day >= query.start
  /\ query.end # Everything => day <= query.end

Selected(contract, frame, query) ==
  {i \in DOMAIN frame :
     /\ query.symbols # Everything => frame[i]["symbol"] \in query.symbols
     /\ Dated(query) => InDates(contract, query, frame[i][DateColumn(contract)])}

\* The rows of the scope and those of which it is not known.
\* Mutation of Potential: only those that are known to be in the scope.
PotentialKnown(contract, frame, query) == Selected(contract, frame, query)
Potential(contract, frame, query) ==
  {i \in DOMAIN frame :
     /\ query.symbols # Everything => frame[i]["symbol"] \in query.symbols \union {Blank}
     /\ Dated(query) /\ TypeIn(contract, DateColumn(contract)) = "date" =>
          LET day == frame[i][DateColumn(contract)] IN day = Blank \/ InDates(contract, query, day)}

Relevant(issue, columns) ==
  \/ issue.rule = "duplicate_primary_key" \/ issue.columns = {}
  \/ issue.columns \cap (columns \union {"symbol", "date", "period_end"}) # {}

ScopedIssues(contract, rows, query) ==
  {issue \in Ledger(contract, rows) :
     /\ Relevant(issue, Columns(contract, query))
     /\ issue.row \in {0} \union Potential(contract, Normalized(contract, rows), query)}

UnitIssues(contract, query) ==
  {Global("declared_units", {c}) : c \in
     {d \in Columns(contract, query) : contract.types[d] \in Numeric /\ d \notin contract.units}}

\* Strict use of bars: the types, the natural key within the scope, what is declared.
DailyIssues(contract, frame, query) ==
  LET chosen == Selected(contract, frame, query) IN
  (IF contract.kind # "daily_bars" THEN {Global("purpose_table_kind", {})} ELSE {})
    \union {Global("purpose_required_type", {c}) : c \in
              {d \in {"symbol", "date"} \union Ohlc :
                 TypeIn(contract, d) \notin (CASE d = "symbol" -> {"string"}
                                               [] d = "date"   -> {"date"}
                                               [] OTHER        -> Numeric)}}
    \union {Issue(i, "daily_bars_natural_key", {"symbol", "date"}) : i \in
              {j \in chosen : {"symbol", "date"} \subseteq Mapped(contract) /\
                 \E k \in DOMAIN frame \ {j} :
                   /\ frame[j]["symbol"] # Blank /\ frame[j]["date"] # Blank
                   /\ SameKey(frame, j, k, {"symbol", "date"})}}
    \union (IF contract.declared THEN {} ELSE {Global("declared", {})})
    \union UnitIssues(contract, query)

\* Historical replay: every row was available at a known time, no earlier than its period.
HistoryIssues(contract, frame, query) ==
  LET chosen == Selected(contract, frame, query)
      Type(c) == TypeIn(contract, c)
  IN
  (IF contract.kind # "history" THEN {Global("purpose_table_kind", {})} ELSE {})
    \union (IF Type("period_end") = "date" THEN {} ELSE {Global("purpose_required_type", {"period_end"})})
    \union (IF Type("available_at") # "datetime" THEN {Global("historical_available_at", {"available_at"})}
            ELSE {Issue(i, "available_at", {"available_at"}) : i \in
                    {j \in chosen :
                       \/ frame[j]["available_at"] = Blank
                       \/ /\ Type("period_end") = "date" /\ frame[j]["period_end"] # Blank
                          /\ frame[j]["available_at"] < frame[j]["period_end"]}})
    \union (IF contract.pointInTime THEN {} ELSE {Global("point_in_time_availability", {"available_at"})})
    \union UnitIssues(contract, query)

\* What was asked for is there.
CoverageIssues(contract, frame, query) ==
  LET chosen == Selected(contract, frame, query) IN
  (IF query.purpose # "exploration" /\ chosen = {} THEN {Global("empty_research_scope", {})} ELSE {})
    \union {Global("requested_symbol_coverage", {"symbol"}) : s \in
              (IF query.symbols = Everything THEN {}
               ELSE query.symbols \ {frame[i]["symbol"] : i \in chosen})}
    \union (IF Dated(query) /\ chosen = {} THEN {Global("requested_date_coverage", {})} ELSE {})

SemanticIssues(contract, frame, query) ==
  (CASE query.purpose = "daily_bars_research" -> DailyIssues(contract, frame, query)
     [] query.purpose = "historical_financial_factor_backtest" -> HistoryIssues(contract, frame, query)
     [] OTHER -> {})
    \union CoverageIssues(contract, frame, query)

Allowed(contract, rows, query) ==
  /\ Askable(contract, query)
  /\ ~HasErrors(ScopedIssues(contract, rows, query)
                  \union SemanticIssues(contract, Normalized(contract, rows), query))

\* read_snapshot: the rows of the scope by their number in the source.
Delivered(contract, rows, query) ==
  LET frame == Normalized(contract, rows) IN
  [i \in Selected(contract, frame, query) |-> [c \in Columns(contract, query) |-> frame[i][c]]]

ReadScope(contract, rows, query) ==
  IF Allowed(contract, rows, query) THEN Delivered(contract, rows, query) ELSE Refused
-----------------------------------------------------------------------------
\* The cells that intake holds for wrong: those that do not convert, and what is
\* required and missing.
Wrong(contract, rows, i, c) ==
  \/ Unconverted(contract, c, rows[i][c])
  \/ c \in Required(contract) /\ Converted(contract, c, rows[i][c]) = Blank

\* The tables that differ from this one in the wrong cells only, which hold what the
\* column may hold.
Repairs(contract, rows, good) ==
  LET wrong == {x \in Cells(rows, Mapped(contract)) : Wrong(contract, rows, x[1], x[2])} IN
  {[i \in DOMAIN rows |-> [c \in Mapped(contract) |->
      IF <<i, c>> \in wrong THEN f[<<i, c>>] ELSE rows[i][c]]] :
     f \in {g \in [wrong -> UNION {good[c] : c \in Mapped(contract)}] :
              \A x \in wrong : g[x] \in good[x[2]]}}

\* What a reader gets does not depend on a cell that intake knows to be wrong: however
\* the wrong cells are corrected, also those that say whose row it is and of which day,
\* the same read returns the same rows or is refused.
AdmissionIsCertain(contract, rows, query, good) ==
  LET answer == ReadScope(contract, rows, query) IN
  answer # Refused =>
    \A repaired \in Repairs(contract, rows, good) :
      ReadScope(contract, repaired, query) \in {Refused, answer}
===============================================================================
