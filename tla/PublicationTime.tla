--------------------------- MODULE PublicationTime ---------------------------
(***************************************************************************)
(* Publication-time evidence (financial/publication_time_v2.py): from what *)
(* a source shows (an instant, a local minute, a local date, an interval), *)
(* and from what is known of its zone and of its rule of display, the      *)
(* instant from which a study may use the information is derived, or the   *)
(* claim is downgraded to the moment of capture.                           *)
(*                                                                         *)
(* Instants are integers, Minute of them to a minute and Day to a day.  A  *)
(* zone is the function of its offsets.  The texts of a claim and of a     *)
(* reason are left out; a reason is its code.                              *)
(***************************************************************************)
EXTENDS Integers, FiniteSets, FiniteSetsExt

CONSTANTS
  Instants,    \* bound: the instants of zones and cutoffs
  Minute, Day, \* their lengths
  Unknown      \* what a claim does not say

ASSUME TimeAssumption ==
  /\ Instants \subseteq Int /\ Minute \in Nat /\ Minute % 2 = 0 /\ Minute > 0
  /\ Day \in Nat /\ Day % Minute = 0 /\ Day > 0 /\ Unknown \notin Int

RoundingRules == {"rounded_half_up", "rounded_half_down", "rounded_half_even"}
MinuteRules == RoundingRules \union {"truncated_minute"}
DisplayRules == MinuteRules \union {"exact", "publication_date", "explicit_interval"}
Evidenced == {"evidenced_iana", "evidenced_offset"}

(***************************************************************************)
(* The parts of the evidence, and what they are downgraded to.             *)
(***************************************************************************)
CompleteIds(ids, known) == ids # {} /\ ids \subseteq known

Unverified == [status |-> "unverified", zone |-> Unknown, offset |-> Unknown, fold |-> Unknown]

ZoneWellFormed(z) ==
  CASE z.status = "evidenced_iana"   -> z.zone # Unknown
    [] z.status = "evidenced_offset" -> z.offset # Unknown /\ z.zone = Unknown /\ z.fold = Unknown
    [] OTHER -> z.zone = Unknown /\ z.offset = Unknown /\ z.fold = Unknown

ZoneIncomplete(claim) == claim.zone.status \in Evidenced /\ ~CompleteIds(claim.zoneIds, claim.known)

ZoneOf(claim) ==
  IF ZoneIncomplete(claim) \/ ~ZoneWellFormed(claim.zone) THEN Unverified ELSE claim.zone

ZoneReasons(claim) ==
  IF ZoneIncomplete(claim) THEN {"MATERIAL_REFERENCE_INCOMPLETE"}
  ELSE IF ZoneWellFormed(claim.zone) THEN {} ELSE {"MATERIAL_REFERENCE_CONFLICT"}

NoRule == [rule |-> Unknown, parity |-> Unknown]

DisplayWellFormed(d) ==
  IF d.rule = Unknown THEN d.parity = Unknown
  ELSE d.rule \in DisplayRules /\ (d.rule = "rounded_half_even") = (d.parity # Unknown)

DisplayIncomplete(claim) == claim.display.rule # Unknown /\ ~CompleteIds(claim.displayIds, claim.known)

DisplayOf(claim) ==
  IF DisplayIncomplete(claim) \/ ~DisplayWellFormed(claim.display) THEN NoRule ELSE claim.display

DisplayReasons(claim) ==
  IF DisplayIncomplete(claim) THEN {"MATERIAL_REFERENCE_INCOMPLETE"}
  ELSE IF DisplayWellFormed(claim.display) THEN {}
  ELSE IF claim.display.rule = "rounded_half_even" THEN {"ROUNDING_REFERENCE_UNVERIFIED"}
  ELSE {"MATERIAL_REFERENCE_CONFLICT"}

ClockUnknown == [status |-> "unknown", error |-> Unknown]

ClockWellFormed(c) ==
  IF c.status = "unknown" THEN c.error = Unknown ELSE c.error \in Nat

ClockIncomplete(claim) == claim.clock.status # "unknown" /\ ~CompleteIds(claim.clockIds, claim.known)

ClockReasons(claim) ==
  IF ClockIncomplete(claim) THEN {"MATERIAL_REFERENCE_INCOMPLETE"}
  ELSE IF ClockWellFormed(claim.clock) THEN {} ELSE {"MATERIAL_REFERENCE_CONFLICT"}

(***************************************************************************)
(* Local time.                                                             *)
(***************************************************************************)
\* _valid_zone_instants: the instants with this local time, with fold and offset; a
\* clock change repeats some local times and skips others.
Candidates(local, zone) ==
  LET instants == {i \in Instants : i + zone[i] = local} IN
  {[fold |-> Cardinality({j \in instants : j < i}), at |-> i, offset |-> zone[i]] : i \in instants}

\* _resolve_local: an instant, or the code of the reason why there is none.
Resolved(at) == [at |-> at, code |-> "OK"]
Unresolved(code) == [at |-> 0, code |-> code]

ResolveLocal(local, z, ambiguous, nonexistent) ==
  IF z.status = "evidenced_offset" THEN Resolved(local - z.offset)
  ELSE LET all == Candidates(local, z.zone)
           left == {c \in all : /\ z.offset = Unknown \/ c.offset = z.offset
                                /\ z.fold = Unknown \/ c.fold = z.fold}
       IN IF all = {} THEN Unresolved(nonexistent)
          ELSE IF left = {} THEN Unresolved("MATERIAL_REFERENCE_CONFLICT")
          ELSE IF Cardinality(left) > 1 THEN Unresolved(ambiguous)
          ELSE Resolved((CHOOSE c \in left : TRUE).at)

(***************************************************************************)
(* _derive_nominal_interval_from_source: the instants at which the source  *)
(* may have published.                                                     *)
(***************************************************************************)
Interval(from, fromIn, to, toIn) == [from |-> from, fromIn |-> fromIn, to |-> to, toIn |-> toIn]

Even(minute, anchor, parity) ==
  IF parity = "minute_of_hour" THEN (minute \div Minute) % 2 = 0 ELSE (anchor \div Minute) % 2 = 0

\* Mutation of MinuteInterval: a minute is shown as it begins.
MinuteIntervalCut(minute, anchor, display) == Interval(anchor, TRUE, anchor + Minute \div 2, FALSE)

MinuteInterval(minute, anchor, display) ==
  LET half == Minute \div 2
      even == Even(minute, anchor, display.parity)
  IN CASE display.rule = "truncated_minute"  -> Interval(anchor, TRUE, anchor + Minute, FALSE)
       [] display.rule = "rounded_half_up"   -> Interval(anchor - half, TRUE, anchor + half, FALSE)
       [] display.rule = "rounded_half_down" -> Interval(anchor - half, FALSE, anchor + half, TRUE)
       [] display.rule = "rounded_half_even" -> Interval(anchor - half, even, anchor + half, even)

MinuteAnchor(claim) ==
  ResolveLocal(claim.shown, ZoneOf(claim), "DST_LOCAL_TIME_AMBIGUOUS", "DST_LOCAL_TIME_NONEXISTENT")

\* The bounds of a local date are resolved without the fold and the offset of the claim.
DateBound(claim, local) ==
  ResolveLocal(local, [ZoneOf(claim) EXCEPT !.offset = Unknown, !.fold = Unknown],
               "DATE_BOUNDARY_AMBIGUOUS", "DATE_BOUNDARY_NONEXISTENT")

DateBounds(claim) == <<DateBound(claim, claim.shown), DateBound(claim, claim.shown + Day)>>

(***************************************************************************)
(* build_evidence_timing_v2.                                               *)
(***************************************************************************)
When(condition, code) == IF condition THEN {code} ELSE {}

EarlyReasons(claim) == ZoneReasons(claim) \union DisplayReasons(claim) \union ClockReasons(claim)

\* What the precision needs beyond well-formed parts.
PrecisionReasons(claim) ==
  LET zone == ZoneOf(claim)
      rule == DisplayOf(claim).rule
  IN CASE claim.precision = "minute" ->
            When(zone.status \notin Evidenced, "ZONE_UNVERIFIED")
              \union When(rule \notin MinuteRules, "DISPLAY_RULE_UNVERIFIED")
       [] claim.precision = "date" ->
            When(zone.status # "evidenced_iana", "ZONE_UNVERIFIED")
              \union When(rule # "publication_date", "PUBLICATION_DATE_SEMANTICS_UNVERIFIED")
       [] claim.precision = "interval" ->
            When(~(claim.intervalIds \subseteq claim.known), "MATERIAL_REFERENCE_INCOMPLETE")
              \union When(rule # "explicit_interval", "DISPLAY_RULE_UNVERIFIED")
       [] claim.precision = "exact_timestamp" -> When(rule # "exact", "DISPLAY_RULE_UNVERIFIED")
       [] OTHER -> {"PRECISION_UNKNOWN"}

BasicReasons(claim) == EarlyReasons(claim) \union PrecisionReasons(claim)

\* Local time is only resolved when nothing else is wrong.
LocalReasons(claim) ==
  IF BasicReasons(claim) # {} THEN {}
  ELSE CASE claim.precision = "minute" -> {MinuteAnchor(claim).code} \ {"OK"}
         [] claim.precision = "date" ->
              LET bounds == DateBounds(claim)
              IN IF bounds[1].code # "OK" THEN {bounds[1].code} ELSE {bounds[2].code} \ {"OK"}
         [] OTHER -> {}

Nominal(claim) ==
  CASE claim.precision = "interval" -> claim.shown
    [] claim.precision = "minute" -> MinuteInterval(claim.shown, MinuteAnchor(claim).at, DisplayOf(claim))
    [] claim.precision = "date" -> Interval(DateBounds(claim)[1].at, TRUE, DateBounds(claim)[2].at, FALSE)

SourceReasons(claim) == BasicReasons(claim) \union LocalReasons(claim)

\* The boundary that the source declares, when nothing is wrong with it.
SourceBoundary(claim) ==
  IF claim.precision = "exact_timestamp" THEN [at |-> claim.shown, relation |-> "at_or_after"]
  ELSE [at |-> Nominal(claim).to,
        relation |-> IF Nominal(claim).toIn THEN "strictly_after" ELSE "at_or_after"]

PolicyReasons(claim) ==
  IF SourceReasons(claim) # {} THEN {}
  ELSE IF SourceBoundary(claim).at > claim.captured THEN {"NOMINAL_BOUND_AFTER_CAPTURE"}
  ELSE When(claim.study # "retrospective" \/ claim.trust # "trust_source_declared_time",
            "POLICY_CAPTURE_ONLY")

Reasons(claim) == SourceReasons(claim) \union PolicyReasons(claim)

Availability(claim) ==
  IF Reasons(claim) # {}
  THEN [mode |-> "captured_only", at |-> claim.captured, relation |-> "at_or_after",
        reasons |-> Reasons(claim)]
  ELSE [mode |-> IF claim.precision = "exact_timestamp"
                 THEN "source_declared_nominal" ELSE "conservative_nominal_bound",
        at |-> SourceBoundary(claim).at, relation |-> SourceBoundary(claim).relation, reasons |-> {}]

\* An interval of which the evidence is not complete is recorded as of unknown precision.
PrecisionOf(claim) ==
  IF /\ claim.precision = "interval"
     /\ ~(claim.intervalIds \subseteq claim.known) \/ DisplayOf(claim).rule # "explicit_interval"
  THEN "unknown" ELSE claim.precision

NominalOf(claim) ==
  IF \/ PrecisionOf(claim) \in {"unknown", "exact_timestamp"}
     \/ claim.precision # "interval" /\ SourceReasons(claim) # {}
  THEN Unknown ELSE Nominal(claim)

\* A revision is acquired when the latest of its materials is, at the earliest.
Timing(claim) ==
  LET materials == {claim.acquired[m] : m \in claim.known} IN
  [captured |-> claim.captured, revision |-> Max({claim.revision} \union materials),
   materials |-> materials, availability |-> Availability(claim), precision |-> PrecisionOf(claim),
   exact |-> claim.shown, nominal |-> NominalOf(claim)]

(***************************************************************************)
(* EvidenceTimingV2.                                                       *)
(***************************************************************************)
\* What the constructor demands of a timing: AvailabilityDecisionV2 and EvidenceTimingV2.
SourceFitsDecision(timing) ==
  \/ timing.availability.mode = "captured_only"
  \/ /\ timing.precision = "exact_timestamp"
     /\ timing.availability.mode = "source_declared_nominal"
     /\ timing.availability.relation = "at_or_after" /\ timing.availability.at = timing.exact
  \/ /\ timing.precision # "exact_timestamp"
     /\ timing.nominal # Unknown /\ timing.availability.mode = "conservative_nominal_bound"
     /\ timing.availability.at = timing.nominal.to
     /\ (timing.availability.relation = "strictly_after") = timing.nominal.toIn

Valid(timing) ==
  /\ timing.revision >= timing.captured /\ \A m \in timing.materials : m <= timing.revision
  /\ (timing.availability.mode = "captured_only") = (timing.availability.reasons # {})
  /\ IF timing.availability.mode = "captured_only" THEN timing.availability.at = timing.captured
     ELSE timing.availability.at <= timing.captured
  /\ timing.nominal # Unknown => timing.nominal.from < timing.nominal.to
  /\ timing.precision = "unknown" => timing.nominal = Unknown
  /\ SourceFitsDecision(timing)

\* admission_boundary: what may be used in which study.  A nominal boundary is refused
\* to those who do not trust the time that the source declares.
Boundary(timing, study, trust) ==
  CASE study = "natural_forward" ->
         [at |-> Max(timing.materials \union {timing.captured, timing.revision}),
          relation |-> "at_or_after"]
    [] study = "retrospective" /\ timing.availability.mode = "captured_only" ->
         [at |-> timing.captured, relation |-> "at_or_after"]
    [] /\ study = "retrospective" /\ timing.availability.mode # "captured_only"
       /\ trust = "trust_source_declared_time" ->
         [at |-> timing.availability.at, relation |-> timing.availability.relation]
    [] OTHER -> Unknown

Admits(boundary, cutoff) ==
  /\ boundary # Unknown
  /\ IF boundary.relation = "at_or_after" THEN cutoff >= boundary.at ELSE cutoff > boundary.at
-----------------------------------------------------------------------------
\* The local minute that a source with this rule and zone shows at an instant.
ShownMinute(t, offset, display) ==
  LET rest == (t + offset) % Minute
      floor == t + offset - rest
      half == Minute \div 2
      up == floor + Minute
  IN IF display.rule = "truncated_minute" \/ rest < half THEN floor
     ELSE IF rest > half THEN up
     ELSE CASE display.rule = "rounded_half_up" -> up
            [] display.rule = "rounded_half_down" -> floor
            [] OTHER -> IF Even(floor, floor - offset, display.parity) THEN floor ELSE up

\* Whether the source, being as the evidence says, shows what the claim says when it
\* publishes at t.
Consistent(claim, t) ==
  LET zone == ZoneOf(claim) IN
  CASE claim.precision = "exact_timestamp" -> claim.shown = t
    [] claim.precision = "interval" ->
         /\ IF claim.shown.fromIn THEN t >= claim.shown.from ELSE t > claim.shown.from
         /\ IF claim.shown.toIn THEN t <= claim.shown.to ELSE t < claim.shown.to
    [] claim.precision = "minute" /\ zone.status = "evidenced_offset" ->
         claim.shown = ShownMinute(t, zone.offset, DisplayOf(claim))
    [] claim.precision = "minute" /\ zone.status = "evidenced_iana" ->
         /\ claim.shown = ShownMinute(t, zone.zone[t], DisplayOf(claim))
         /\ \E c \in Candidates(t + zone.zone[t], zone.zone) :
              c.at = t /\ zone.offset \in {Unknown, c.offset} /\ zone.fold \in {Unknown, c.fold}
    [] claim.precision = "date" /\ zone.status = "evidenced_iana" ->
         claim.shown = Day * ((t + zone.zone[t]) \div Day)
    [] OTHER -> TRUE

\* No study uses information before it was published: whatever instant is consistent
\* with the evidence, across changes of the clock, ties of rounding and closed bounds,
\* an admitted cutoff lies after it, and not before it where the instant itself is
\* declared; a study that moves forward uses nothing it did not have; and the timing
\* that is stored of a claim is accepted where it is read.
NeverEarly(claim) ==
  LET timing == Timing(claim) IN
  /\ Valid(timing)
  /\ \A trust \in {"trust_source_declared_time", "capture_receipt_only"}, cutoff \in Instants :
       /\ Admits(Boundary(timing, "retrospective", trust), cutoff) =>
            \A t \in {i \in Instants : i <= claim.captured /\ Consistent(claim, i)} :
              IF timing.availability.mode = "conservative_nominal_bound" THEN cutoff > t ELSE cutoff >= t
       /\ Admits(Boundary(timing, "natural_forward", trust), cutoff) =>
            /\ cutoff >= claim.captured
            /\ \A m \in claim.known : cutoff >= claim.acquired[m]
=============================================================================
