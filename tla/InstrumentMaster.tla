--------------------------- MODULE InstrumentMaster ---------------------------
(***************************************************************************)
(* The historical instrument master of instrument_master.py: the rule      *)
(* versions of a symbol, the documents that state them, the bundle made of *)
(* both, what was known at a cutoff and the flat view of an interval.      *)
(*                                                                         *)
(* A document is a record under its id and a catalogue a sequence of rows. *)
(* The digest of a file is its content.  Day d begins at instant 4 * d,    *)
(* opens one instant later and closes at 4 * d + 3.                        *)
(***************************************************************************)
EXTENDS Integers, SequencesExt

CONSTANT Absent   \* an empty field, and the answer to a call that is refused

FirstOpen(day) == 4 * day + 1
LastClose(day) == 4 * day + 3

ListingFields == {"asset_class", "venue", "listing_date"}
TradingFields == {"venue", "price_scale", "price_tick", "lot_size"}
PriceLimitFields == {"price_limit_rate"}
FeeFields == {"commission_rate"}

(***************************************************************************)
(* The documents of a declaration.                                         *)
(***************************************************************************)
\* _assertion_index: a field of a symbol is stated once.
StatesOnce(doc) ==
  \A i, j \in DOMAIN doc.says : i # j => <<doc.says[i].symbol, doc.says[i].field>> # <<doc.says[j].symbol, doc.says[j].field>>

InForceWhenKnown == {"trading_rule", "price_limit", "fee_schedule"}

DocumentAdmitted(doc, captured) ==
  /\ doc.published <= doc.available /\ doc.available <= captured
  /\ doc.from < doc.to /\ doc.to <= captured
  /\ doc.kind \in InForceWhenKnown => doc.available <= doc.from
  /\ doc.basis \in IF doc.to = captured THEN {"observed"} ELSE {"superseded", "bounded"}
  /\ doc.content = doc.sha256
  /\ StatesOnce(doc)
  /\ doc.kind \in InForceWhenKnown \union {"listing"} => doc.says # <<>>

DocumentsAdmitted(docs, captured) ==
  DOMAIN docs # {} /\ \A id \in DOMAIN docs : DocumentAdmitted(docs[id], captured)

(***************************************************************************)
(* The rows of a catalogue.                                                *)
(***************************************************************************)
IsKind(docs, id, kinds) == id \in DOMAIN docs /\ docs[id].kind \in kinds

CoversRow(doc, row) == doc.from <= row.from /\ row.to <= doc.to

StatesFields(doc, row, fields) ==
  \A f \in fields : \E i \in DOMAIN doc.says :
    doc.says[i] = [symbol |-> row.symbol, field |-> f, value |-> row.values[f]]

Supports(docs, id, kinds, row, fields) ==
  IsKind(docs, id, kinds) /\ CoversRow(docs[id], row) /\ StatesFields(docs[id], row, fields)

FeesCertified(row) == row.feeScope = "official"
Referenced(row) == {row.listing, row.trading, row.limit} \union (IF row.fee = Absent THEN {} ELSE {row.fee})

LegalValues(values) ==
  /\ values["asset_class"] = "etf" /\ values["venue"] \in {"SSE", "SZSE"}
  /\ values["price_scale"] >= 0 /\ values["price_tick"] > 0 /\ values["lot_size"] > 0
  /\ values["price_limit_rate"] \in 1..9
  /\ (values["price_tick"] * 10 ^ values["price_scale"]) % 1000 = 0

\* price_tick is in thousandths, the rates are in tenths.
RowAdmitted(row, docs, captured) ==
  /\ LegalValues(row.values)
  /\ row.available <= row.from /\ row.from < row.to /\ row.to <= captured
  /\ row.values["listing_date"] <= row.from \div 4
  /\ Supports(docs, row.listing, {"listing"}, row, ListingFields)
  /\ Supports(docs, row.trading, {"trading_rule"}, row, TradingFields)
  /\ Supports(docs, row.limit, {"price_limit", "trading_rule"}, row, PriceLimitFields)
  /\ IF FeesCertified(row)
     THEN /\ Supports(docs, row.fee, {"fee_schedule"}, row, FeeFields)
          /\ row.values["commission_rate"] \in 0..9
     ELSE row.fee = Absent /\ row.values["commission_rate"] = Absent
  /\ \A id \in Referenced(row) : docs[id].available <= row.available
  /\ \E id \in Referenced(row) : docs[id].available = row.available

Static(row) == <<row.symbol, row.listing, [f \in ListingFields |-> row.values[f]]>>

Versions(rows, symbol) ==
  SetToSortSeq({rows[i] : i \in {j \in DOMAIN rows : rows[j].symbol = symbol}}, LAMBDA x, y : x.from < y.from)

Gapless(versions) == \A i \in 1..(Len(versions) - 1) : versions[i].to = versions[i + 1].from

SymbolsOf(rows) == {rows[i].symbol : i \in DOMAIN rows}

CatalogAdmitted(rows, docs, captured) ==
  /\ rows # <<>>
  /\ \A i \in DOMAIN rows : RowAdmitted(rows[i], docs, captured)
  /\ \A i, j \in DOMAIN rows : i # j =>
       /\ <<rows[i].symbol, rows[i].from>> # <<rows[j].symbol, rows[j].from>>
       /\ rows[i].symbol = rows[j].symbol => Static(rows[i]) = Static(rows[j])
  /\ \A s \in SymbolsOf(rows) : Gapless(Versions(rows, s))

\* The rows as the bundle keeps them.
Catalog(rows) == [s \in SymbolsOf(rows) |-> Versions(rows, s)]

(***************************************************************************)
(* import_instrument_master and load_instrument_master.                    *)
(***************************************************************************)
\* The declared catalogue is copied first, and a document of the same name over it.
CopiedCatalog(source) ==
  IF \E id \in DOMAIN source.docs : source.docs[id].file = "catalog.csv"
  THEN source.docs[CHOOSE id \in DOMAIN source.docs : source.docs[id].file = "catalog.csv"].content
  ELSE source.rows

Imported(source) ==
  IF ~DocumentsAdmitted(source.docs, source.captured) \/ ~CatalogAdmitted(source.rows, source.docs, source.captured)
  THEN Absent
  ELSE LET files == [declaration |-> source, source |-> CopiedCatalog(source), catalog |-> Catalog(source.rows),
                     documents |-> [id \in DOMAIN source.docs |-> source.docs[id].content]]
       IN [captured |-> source.captured, docs |-> source.docs, symbols |-> SymbolsOf(source.rows),
           declarationDigest |-> source, sourceDigest |-> files.source, catalogDigest |-> files.catalog, files |-> files]

OnDisk(docs, contents) == [id \in DOMAIN docs |-> [docs[id] EXCEPT !.content = contents[id]]]

Intact(bundle) ==
  LET f == bundle.files IN
  /\ f.declaration = bundle.declarationDigest /\ f.source = bundle.sourceDigest /\ f.catalog = bundle.catalogDigest
  /\ f.declaration.captured = bundle.captured
  /\ f.declaration.rows = bundle.sourceDigest
  /\ DocumentsAdmitted(f.declaration.docs, bundle.captured)
  /\ CatalogAdmitted(f.source, f.declaration.docs, bundle.captured)
  /\ DocumentsAdmitted(OnDisk(bundle.docs, f.documents), bundle.captured)
  /\ Catalog(f.source) = f.catalog /\ SymbolsOf(f.source) = bundle.symbols

Loaded(bundle) ==
  IF Intact(bundle) THEN [captured |-> bundle.captured, docs |-> bundle.docs, catalog |-> bundle.files.catalog]
  ELSE Absent

(***************************************************************************)
(* instrument_master_prefix and resolve_instrument_catalog.                *)
(***************************************************************************)
RowsOf(master) == UNION {ToSet(master.catalog[s]) : s \in DOMAIN master.catalog}
Known(master, cutoff) == {r \in RowsOf(master) : r.available <= cutoff}
KnownIds(master, cutoff) == UNION {Referenced(r) : r \in Known(master, cutoff)}

\* Mutation of UntilCutoff: a scheduled version keeps its end.
UntilCutoffScheduled(x, cutoff) ==
  [x EXCEPT !.to = IF x.from >= cutoff \/ x.to < cutoff THEN x.to ELSE cutoff]

UntilCutoff(x, cutoff) ==
  [x EXCEPT !.to = IF x.from >= cutoff THEN Absent ELSE IF x.to < cutoff THEN x.to ELSE cutoff]

Undated(doc) == [doc EXCEPT !.basis = Absent, !.file = Absent]

Prefix(master, cutoff) ==
  IF cutoff > master.captured \/ \E id \in KnownIds(master, cutoff) : master.docs[id].available > cutoff THEN Absent
  ELSE [rows |-> {UntilCutoff(r, cutoff) : r \in Known(master, cutoff)},
        docs |-> [id \in KnownIds(master, cutoff) |-> UntilCutoff(Undated(master.docs[id]), cutoff)]]

Flat(row) == <<[f \in DOMAIN row.values \ PriceLimitFields |-> row.values[f]], row.feeScope>>

InInterval(versions, start, end) ==
  SelectSeq(versions, LAMBDA v : v.to > FirstOpen(start) /\ v.from <= LastClose(end))

ResolvedView(master, symbol, start, end) ==
  IF symbol \notin DOMAIN master.catalog THEN Absent
  ELSE LET v == InInterval(master.catalog[symbol], start, end) IN
       IF \/ v = <<>> \/ Head(v).from > FirstOpen(start) \/ Last(v).to <= LastClose(end)
          \/ ~Gapless(v) \/ \E i \in DOMAIN v : Flat(v[i]) # Flat(v[1])
       THEN Absent
       ELSE [flat |-> Flat(v[1]), from |-> v[1].from, to |-> Last(v).to, available |-> v[1].available]

(***************************************************************************)
(* What a master promises.                                                 *)
(***************************************************************************)
NamedAsCatalog(source) == \E id \in DOMAIN source.docs : source.docs[id].file = "catalog.csv"

\* What was imported is what is loaded, and a file that was exchanged is noticed.
BundleReplays(source, damage) ==
  LET bundle == Imported(source) IN
  bundle # Absent =>
    /\ ~NamedAsCatalog(source) =>
         Loaded(bundle) = [captured |-> source.captured, docs |-> source.docs, catalog |-> Catalog(source.rows)]
    /\ \A part \in DOMAIN damage :
         LET damaged == [bundle EXCEPT !.files[part] = damage[part]] IN
         damaged # bundle /\ ~NamedAsCatalog(source) => Loaded(damaged) = Absent

\* The same up to where it ends, when that is after the cutoff.
SameAt(x, y, cutoff) ==
  [x EXCEPT !.to = y.to] = y /\ (x.to = y.to \/ (x.to >= cutoff /\ y.to >= cutoff))

Published(m, cutoff) == {r \in RowsOf(m) : \A id \in Referenced(r) : m.docs[id].available <= cutoff}

\* Two captures know the same at a cutoff.
SameKnowledge(m, n, cutoff) ==
  /\ \A r \in Published(m, cutoff) : \E q \in Published(n, cutoff) : SameAt(r, q, cutoff)
  /\ \A q \in Published(n, cutoff) : \E r \in Published(m, cutoff) : SameAt(r, q, cutoff)
  /\ \A r \in Published(m, cutoff) : \A id \in Referenced(r) :
       SameAt(Undated(m.docs[id]), Undated(n.docs[id]), cutoff)

\* The prefixes of two captures agree if and only if they know the same at the cutoff.
PrefixIsStable(m, n, cutoff) ==
  cutoff <= m.captured /\ cutoff <= n.captured =>
    (Prefix(m, cutoff) = Prefix(n, cutoff) <=> SameKnowledge(m, n, cutoff))

\* Each instant of a resolved interval has one row in force, of the resolved values and on documents known and in force.
ResolutionHolds(m, symbol, start, end) ==
  LET r == ResolvedView(m, symbol, start, end) IN
  r # Absent => \A t \in FirstOpen(start)..LastClose(end) :
    LET inForce == {q \in RowsOf(m) : q.symbol = symbol /\ q.from <= t /\ t < q.to} IN
    /\ Cardinality(inForce) = 1
    /\ \A q \in inForce : Flat(q) = r.flat /\ \A id \in Referenced(q) :
         m.docs[id].available <= t /\ m.docs[id].from <= t /\ t < m.docs[id].to
=============================================================================
