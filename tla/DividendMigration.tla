-------------------------- MODULE DividendMigration --------------------------
(***************************************************************************)
(* Dividend lifecycles (financial/dividends.py, financial/dividends_v2.py) *)
(* and the migration of one from the first schema to the second            *)
(* (financial/dividend_migration_v2.py), which derives the evidence of     *)
(* publication time of each phase from the times the first schema has, and *)
(* embeds the source so that whoever reads the result derives it again.    *)
(*                                                                         *)
(* A lifecycle is the evidence of its phases and its terms.  An amount, a  *)
(* rate, a name and a date that nothing is compared with are left out; a   *)
(* hash is what it is the hash of.                                         *)
(***************************************************************************)
EXTENDS PublicationTime

\* The phases that have evidence; a policy that is not certified may have none.
PhasesOf(l) == DOMAIN l.evidence
Effective(l, p) == l.evidence[p].timing.effective

(***************************************************************************)
(* What both schemas demand, given the moment each phase is available at.  *)
(***************************************************************************)
\* EvidenceTiming of the first schema: available when captured, unless the source
\* names the instant of its publication.
TimingFits(t) ==
  /\ t.published = Unknown \/ t.date = Unknown
  /\ IF t.published = Unknown THEN t.available = t.captured
     ELSE t.published <= t.available /\ t.available <= t.captured
  /\ t.date # Unknown => t.date <= Day * (t.captured \div Day)

PolicyFits(l) == l.terms.policy = "certified" => "policy" \in PhasesOf(l)

\* A rate is not available before it was fixed; a date is compared in its own zone.
FixingFits(fixing, at) ==
  /\ (fixing.at = Unknown) # (fixing.date = Unknown)
  /\ IF fixing.at # Unknown THEN fixing.at <= at
     ELSE fixing.zone # Unknown /\ fixing.date <= Day * ((at + fixing.zone[at]) \div Day)

ConversionFits(l, at) ==
  "conversion" \in PhasesOf(l) =>
    LET terms == l.terms IN
    /\ terms.from = terms.declared /\ terms.from # terms.to /\ terms.to \in terms.options
    /\ "election" \in PhasesOf(l) => terms.selected # terms.declared /\ terms.to = terms.selected
    /\ FixingFits(terms.fixing, at["conversion"])

ElectionFits(l) ==
  "election" \in PhasesOf(l) =>
    /\ l.terms.selected \in l.terms.options
    /\ l.terms.choice = "default" => l.terms.selected = l.terms.default
    /\ l.terms.policy # Unknown => l.terms.account["election"] = l.terms.account["policy"]

\* Cash is complete, and is not known before it is received.
CashFits(l, at) ==
  "payment" \in PhasesOf(l) =>
    /\ l.terms.gross = l.terms.net + l.terms.withheld + l.terms.deducted + l.terms.rounding
    /\ at["payment"] >= Effective(l, "payment")

\* It is paid in the elected currency under a certified policy, after every phase but
\* the proposal took effect.
PaymentFits(l) ==
  "payment" \in PhasesOf(l) =>
    LET terms == l.terms IN
    /\ "election" \in PhasesOf(l) /\ terms.policy = "certified"
    /\ terms.selected # terms.declared => "conversion" \in PhasesOf(l)
    /\ terms.paid = terms.selected /\ terms.account["payment"] = terms.account["policy"]
    /\ \A p \in PhasesOf(l) \ {"proposal"} : Effective(l, p) <= Effective(l, "payment")

LifecycleFits(l, at) ==
  /\ "entitlement" \in PhasesOf(l) /\ l.terms.default \in l.terms.options
  /\ \A p, q \in PhasesOf(l) : p # q => l.evidence[p].event # l.evidence[q].event
  /\ "proposal" \in PhasesOf(l) => Effective(l, "proposal") <= Effective(l, "entitlement")
  /\ PolicyFits(l) /\ ElectionFits(l) /\ ConversionFits(l, at) /\ CashFits(l, at) /\ PaymentFits(l)

\* DividendLifecycle of the first schema.
FirstFits(l) ==
  /\ \A p \in PhasesOf(l) : TimingFits(l.evidence[p].timing)
  /\ LifecycleFits(l, [p \in PhasesOf(l) |-> l.evidence[p].timing.available])

(***************************************************************************)
(* The migration.                                                          *)
(***************************************************************************)
CapturedOnly(t, reason) ==
  [mode |-> "captured_only", at |-> t.captured, relation |-> "at_or_after", reasons |-> {reason},
   pointer |-> Unknown]

\* The available_at of the first schema is kept where the source names an instant.
MigratedAvailability(t, pointer) ==
  CASE t.published # Unknown -> [mode |-> "source_declared_nominal", at |-> t.available,
                                 relation |-> "at_or_after", reasons |-> {}, pointer |-> pointer]
    [] t.published = Unknown /\ t.date # Unknown -> CapturedOnly(t, "PUBLICATION_DATE_SEMANTICS_UNVERIFIED")
    [] OTHER -> CapturedOnly(t, "PRECISION_UNKNOWN")

MigratedTiming(t, pointer, at) ==
  [effective |-> t.effective, captured |-> t.captured, revision |-> at, materials |-> {},
   availability |-> MigratedAvailability(t, pointer), nominal |-> Unknown,
   precision |-> IF t.published # Unknown THEN "exact_timestamp" ELSE IF t.date # Unknown THEN "date" ELSE "unknown",
   exact |-> t.published]

MigratedEvidence(source, at) ==
  [p \in PhasesOf(source) |-> [event |-> source.evidence[p].event,
                               timing |-> MigratedTiming(source.evidence[p].timing, p, at)]]

\* The zone of a fixing that names an instant is dropped.
MigratedTerms(terms) ==
  IF terms.fixing # Unknown /\ terms.fixing.at # Unknown THEN [terms EXCEPT !.fixing.zone = Unknown] ELSE terms

BindingsOf(source) ==
  {[pointer |-> p, event |-> source.evidence[p].event, available |-> source.evidence[p].timing.available,
    captured |-> source.evidence[p].timing.captured] : p \in PhasesOf(source)}

\* migrate_dividend_lifecycle_v1_to_v2, before its result is validated.
Migrated(source, at) ==
  [evidence |-> MigratedEvidence(source, at), terms |-> MigratedTerms(source.terms),
   binding |-> [source |-> source, fingerprint |-> source, bindings |-> BindingsOf(source), at |-> at]]

(***************************************************************************)
(* The second schema.                                                      *)
(***************************************************************************)
IsLegacy(t) == t.availability.pointer # Unknown

\* EvidenceTimingV2 where a binding may take the place of the source's materials.
SecondTimingFits(t, bound) ==
  IF IsLegacy(t)
  THEN bound /\ t.revision >= t.captured /\ t.availability.at <= t.captured /\ t.availability.reasons = {}
  ELSE Valid(t) /\ (t.availability.mode # "captured_only" => t.materials # {})

\* validate_legacy_v1_binding_v2: everything is derived again from the embedded source.
BindingHolds(l) ==
  LET source == l.binding.source IN
  /\ FirstFits(source) /\ l.binding.fingerprint = source
  /\ l.terms = MigratedTerms(source.terms)
  /\ l.binding.bindings = BindingsOf(source)
  /\ l.evidence = MigratedEvidence(source, l.binding.at)

\* DividendLifecycleV2.
SecondFits(l) ==
  /\ \A p \in PhasesOf(l) : SecondTimingFits(l.evidence[p].timing, l.binding # Unknown)
  /\ LifecycleFits(l, [p \in PhasesOf(l) |-> l.evidence[p].timing.availability.at])
  /\ l.binding # Unknown => BindingHolds(l)
-----------------------------------------------------------------------------
\* Every lifecycle of the first schema can be migrated, unless the migration is dated
\* before one of its captures.
MigrationIsTotal(source, at) ==
  FirstFits(source) => (SecondFits(Migrated(source, at))
                          <=> \A p \in PhasesOf(source) : source.evidence[p].timing.captured <= at)

\* Whatever is accepted as migrated uses no phase earlier than its source did: those who
\* trust the source have it from the same moment, the others not before the capture, and
\* a study that moves forward not before the migration.
MigratedIsNeverEarly(l) ==
  SecondFits(l) /\ l.binding # Unknown =>
    LET source == l.binding.source IN
    /\ PhasesOf(l) = PhasesOf(source)
    /\ \A p \in PhasesOf(l), cutoff \in Instants :
         LET old == source.evidence[p].timing
             admits(study, trust) == Admits(Boundary(l.evidence[p].timing, study, trust), cutoff)
         IN /\ admits("retrospective", "trust_source_declared_time") <=> cutoff >= old.available
            /\ admits("retrospective", "capture_receipt_only") => cutoff >= old.captured
            /\ \A trust \in {"trust_source_declared_time", "capture_receipt_only"} :
                 admits("natural_forward", trust) => cutoff >= old.captured /\ cutoff >= l.binding.at
=============================================================================
