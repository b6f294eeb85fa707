--------------------------- MODULE CaptureStorage ---------------------------

(***************************************************************************)
(* What one capture stream leaves on its volumes (capture_v2/storage.py):  *)
(* the storage guard that counts reservations between two probes, the      *)
(* writer that batches frames into chained Raw segments, the chain of      *)
(* durable audit events, and the controller that copies a segment to the   *)
(* archive and restores it before it writes a receipt.                     *)
(*                                                                         *)
(* Sizes are in units: a frame is one, and so is the overhead of a segment *)
(* and each audit event, receipt and probe file.  One limit stands for the *)
(* quota and the free-space floor of a volume.  A write may fail before or *)
(* after its file is visible.  The thread that finalizes an epoch writes   *)
(* beside the event loop, which runs everything else one call at a time;   *)
(* the archive and restore volumes may be exchanged at any moment.         *)
(***************************************************************************)
EXTENDS Integers, SequencesExt

CONSTANTS
  Volumes,       \* volumes that can be mounted as archive or restore root
  SharesDevice,  \* those on a physical device of the hot volume
  Room,          \* units the hot volume may hold
  ArchiveRoom,   \* units the archive volume may hold
  ProbeMessages, \* probe_messages
  MaxMessages,   \* rotation.max_messages
  None,          \* no frame, no predecessor
  MaxFrames,     \* bound: frames that arrive
  MaxAudits,     \* bound: audit events that are asked for
  MaxFaults,     \* bound: writes that fail
  MaxSwaps       \* bound: exchanges of a volume

ASSUME StorageAssumption ==
  /\ SharesDevice \subseteq Volumes /\ None \notin Nat
  /\ Room \in Nat /\ ArchiveRoom \in Nat
  /\ ProbeMessages \in Nat \ {0} /\ MaxMessages \in Nat \ {0}
  /\ MaxFrames \in Nat /\ MaxAudits \in Nat /\ MaxFaults \in Nat /\ MaxSwaps \in Nat

VARIABLES
  pc,         \* the step of the event loop
  hot,        \* units on the hot volume
  arch,       \* units this process wrote on the archive
  hotGuard, archGuard,  \* what the guard last saw, and what it reserved since
  inflight,   \* units the finalizing thread reserved and has not written
  mount,      \* the volumes that are mounted
  verified,   \* those of the preflight receipt, or None
  received,   \* frames that arrived, and those refused
  waiting,    \* the frame whose segment is rotated first, or None
  pending,    \* frames in memory
  objects,    \* Raw objects on disk: [number, frames, previous]
  chain,      \* completed segments in order
  archived,   \* how many of them are acknowledged
  copies,     \* what is on each volume: <<object, part>>
  receipts,   \* archive receipts: <<object, time>>
  audits,     \* audit files: [ordinal, event, previous]
  events,     \* the audit events of the state machine
  asked,      \* audit events asked for
  faults, swaps

vars == <<pc, hot, arch, hotGuard, archGuard, inflight, mount, verified, received, waiting,
          pending, objects, chain, archived, copies, receipts, audits, events, asked,
          faults, swaps>>

Roots == {"archive", "restore"}
Unseen == [seen |-> 0, unprobed |-> 0, count |-> 0]

Segments == <<received, waiting, pending, objects, chain>>
Archive == <<arch, archGuard, archived, copies, receipts>>
Audit == <<audits, events, asked>>
Environment == <<mount, swaps, inflight>>

Init ==
  /\ pc = "start" /\ hot = 0 /\ arch = 0
  /\ hotGuard = Unseen /\ archGuard = Unseen /\ inflight = 0
  /\ mount \in [Roots -> Volumes] /\ verified = None
  /\ received = {} /\ waiting = None /\ pending = <<>>
  /\ objects = {} /\ chain = <<>> /\ archived = 0
  /\ copies = [v \in Volumes |-> {}] /\ receipts = {}
  /\ audits = {} /\ events = <<>> /\ asked = 0
  /\ faults = 0 /\ swaps = 0

(***************************************************************************)
(* The guard.                                                              *)
(***************************************************************************)
Fits(used, projected, room) == used + projected <= room

\* A probe is due by count; it may be due by age at any moment.
ProbeDue(g) == g.count + 1 >= ProbeMessages

\* The guards a request may decide on: as it is, or after a probe of what is used.
Bases(g, used) == {b \in {g, [seen |-> used, unprobed |-> 0, count |-> 0]} :
                     b = g => ~ProbeDue(g)}

\* Mutation of Granted: a reservation is counted and not added.
GrantedUncounted(b, n) == [b EXCEPT !.count = @ + 1]
Granted(b, n) == [b EXCEPT !.unprobed = @ + n, !.count = @ + 1]

\* What the guard may be afterwards when it grants n, and when it refuses: a probe
\* that finds the limit breached is not remembered.
Grants(g, used, n, room) ==
  {Granted(b, n) : b \in {x \in Bases(g, used) : x.seen <= room /\ Fits(x.seen + x.unprobed, n, room)}}
Refusals(g, used, n, room) ==
  {IF b.seen > room THEN g ELSE b :
     b \in {x \in Bases(g, used) : x.seen > room \/ ~Fits(x.seen + x.unprobed, n, room)}}

GrantHot(n) == hotGuard' \in Grants(hotGuard, hot, n, Room)
RefuseHot(n) == hotGuard' \in Refusals(hotGuard, hot, n, Room)

\* A write succeeds, fails without effect, or fails after its file is visible.
Outcomes == {"ok"} \union (IF faults < MaxFaults THEN {"early", "late"} ELSE {})
Counted(outcome) == faults' = IF outcome = "ok" THEN faults ELSE faults + 1
Visible(outcome) == outcome # "early"

(***************************************************************************)
(* Preflight: the volumes are independent, and the archive can be read     *)
(* back.                                                                   *)
(***************************************************************************)
Independent == mount["archive"] \notin SharesDevice

Preflight ==
  /\ pc = "start"
  /\ IF Independent /\ Fits(hot, 1, Room) /\ Fits(arch, 1, ArchiveRoom)
     THEN /\ pc' = "probe" /\ verified' = mount
          /\ hotGuard' = [seen |-> hot, unprobed |-> 1, count |-> 0]
          /\ archGuard' = [seen |-> arch, unprobed |-> 1, count |-> 1]
     ELSE pc' = "paused" /\ UNCHANGED <<verified, hotGuard, archGuard>>
  /\ UNCHANGED <<hot, arch, archived, copies, receipts, Segments, Audit, Environment, faults>>

\* Mutation of SameVolumes: the identity is not read again.
SameVolumesOnce(roots) == TRUE
SameVolumes(roots) == \A r \in roots : mount[r] = verified[r]

PreflightProbe ==
  /\ pc = "probe"
  /\ \E outcome \in Outcomes :
       /\ Counted(outcome)
       /\ arch' = IF Visible(outcome) THEN arch + 1 ELSE arch
       /\ IF outcome = "ok" /\ SameVolumes({"archive"})
          THEN pc' = "run" /\ hot' = hot + 1
          ELSE pc' = "paused" /\ hot' = hot
  /\ UNCHANGED <<verified, hotGuard, archGuard, archived, copies, receipts,
                 Segments, Audit, Environment>>

(***************************************************************************)
(* The Raw segment writer.                                                 *)
(***************************************************************************)
\* append: the frame is paid for before an old segment is rotated.
Append1(f) == pending' = Append(pending, f) /\ received' = received \union {f} /\ waiting' = None

NextFrame == Cardinality(received) + 1

AppendFrame ==
  /\ pc = "run" /\ NextFrame <= MaxFrames
  /\ \/ /\ GrantHot(1)
        /\ \E old \in IF pending = <<>> THEN {FALSE} ELSE BOOLEAN :
             IF old THEN /\ pc' = "rotate" /\ waiting' = NextFrame
                         /\ UNCHANGED <<pending, received>>
                    ELSE /\ Append1(NextFrame)
                         /\ pc' = IF Len(pending') >= MaxMessages THEN "full" ELSE "run"
     \/ RefuseHot(1) /\ UNCHANGED <<pc, waiting, pending, received>>
  /\ UNCHANGED <<hot, verified, objects, chain, Archive, Audit, Environment, faults>>

\* The segment that flush would write.
Segment == [number |-> Len(chain) + 1, frames |-> pending,
            previous |-> IF chain = <<>> THEN None ELSE Len(chain)]

\* After a flush the waiting frame is kept; without one it is refused.
AfterFlush(ok) ==
  IF pc = "rotate" /\ ok
  THEN /\ pending' = <<waiting>> /\ received' = received \union {waiting} /\ waiting' = None
       /\ pc' = IF MaxMessages = 1 THEN "full" ELSE "run"
  ELSE /\ pending' = (IF ok THEN <<>> ELSE pending) /\ waiting' = None /\ pc' = "run"
       /\ UNCHANGED received

\* The frames and the number advance when the object was read back.
\* Mutation of Completed: the number advances with the file.
CompletedVisible(outcome) == Visible(outcome)
Completed(outcome) == outcome = "ok"

\* The lake measures the volume itself before it publishes a new object.
Publishable == Segment \in objects \/ Fits(hot, Len(pending) + 1, Room)

Flush ==
  /\ pc \in {"rotate", "full"} \/ (pc = "run" /\ pending # <<>>)
  /\ \/ /\ GrantHot(1) /\ Publishable
        /\ \E outcome \in Outcomes :
             /\ Counted(outcome)
             /\ objects' = IF Visible(outcome) THEN objects \union {Segment} ELSE objects
             /\ hot' = IF Visible(outcome) /\ Segment \notin objects
                       THEN hot + Len(pending) + 1 ELSE hot
             /\ chain' = IF Completed(outcome) THEN Append(chain, Segment) ELSE chain
             /\ AfterFlush(outcome = "ok")
     \/ /\ RefuseHot(1) \/ (GrantHot(1) /\ ~Publishable)
        /\ AfterFlush(FALSE)
        /\ UNCHANGED <<hot, objects, chain, faults>>
  /\ UNCHANGED <<verified, Archive, Audit, Environment>>

(***************************************************************************)
(* The audit chain: an event counts when its file was read back.           *)
(***************************************************************************)
Predecessor == IF events = <<>> THEN None ELSE events[Len(events)]

AuditEvent ==
  /\ pc = "run" /\ asked < MaxAudits
  /\ asked' = asked + 1
  /\ \/ /\ GrantHot(2)
        /\ \E outcome \in Outcomes :
             /\ Counted(outcome)
             /\ audits' = IF Visible(outcome)
                          THEN audits \union {[ordinal |-> Len(events) + 1, event |-> asked + 1,
                                               previous |-> Predecessor]}
                          ELSE audits
             /\ hot' = IF Visible(outcome) THEN hot + 1 ELSE hot
             /\ events' = IF outcome = "ok" THEN Append(events, asked + 1) ELSE events
     \/ RefuseHot(2) /\ UNCHANGED <<audits, hot, events, faults>>
  /\ UNCHANGED <<pc, verified, Segments, Archive, Environment>>

(***************************************************************************)
(* The archive controller.                                                 *)
(***************************************************************************)
Source == chain[archived + 1]

StartArchive ==
  /\ pc = "run" /\ archived < Len(chain)
  /\ \/ /\ SameVolumes(Roots)
        /\ archGuard' \in Grants(archGuard, arch, Len(Source.frames) + 2, ArchiveRoom)
        /\ pc' = "payload"
     \/ /\ SameVolumes(Roots)
        /\ archGuard' \in Refusals(archGuard, arch, Len(Source.frames) + 2, ArchiveRoom)
        /\ UNCHANGED pc
     \/ ~SameVolumes(Roots) /\ UNCHANGED <<pc, archGuard>>
  /\ UNCHANGED <<hot, verified, hotGuard, arch, archived, copies, receipts,
                 Segments, Audit, Environment, faults>>

PartSize(part) == IF part = "payload" THEN Len(Source.frames) ELSE 1

\* A part is written create-if-absent on whatever is mounted, then the identity is
\* read again.
CopyPart(part, next) ==
  /\ pc = part
  /\ \E outcome \in Outcomes :
       LET new == <<Source.number, part>> \notin copies[mount["archive"]] IN
       /\ Counted(outcome)
       /\ IF Visible(outcome)
          THEN /\ copies' = [copies EXCEPT ![mount["archive"]] = @ \union {<<Source.number, part>>}]
               /\ arch' = IF new THEN arch + PartSize(part) ELSE arch
          ELSE UNCHANGED <<copies, arch>>
       /\ pc' = IF outcome = "ok" /\ SameVolumes({"archive"}) THEN next ELSE "run"
  /\ UNCHANGED <<hot, verified, hotGuard, archGuard, archived, receipts,
                 Segments, Audit, Environment>>

\* Both parts are hashed on the archive and after a copy to the restore root.
ReadsBack == \A part \in {"payload", "manifest"} :
               <<Source.number, part>> \in copies[mount["archive"]]

Restore ==
  /\ pc = "restore"
  /\ pc' = IF ReadsBack /\ SameVolumes(Roots) THEN "receipt" ELSE "run"
  /\ UNCHANGED <<hot, verified, hotGuard, Archive, Segments, Audit, Environment, faults>>

\* The receipt lies on the hot volume, unreserved; then the segment is acknowledged.
Receipt ==
  /\ pc = "receipt" /\ pc' = "run"
  /\ \E outcome \in Outcomes :
       /\ Counted(outcome)
       /\ receipts' = IF Visible(outcome) THEN receipts \union {<<Source.number, Cardinality(receipts) + 1>>} ELSE receipts
       /\ hot' = IF Visible(outcome) THEN hot + 1 ELSE hot
       /\ archived' = IF outcome = "ok" THEN archived + 1 ELSE archived
  /\ UNCHANGED <<verified, hotGuard, archGuard, arch, copies, Segments, Audit, Environment>>

(***************************************************************************)
(* The finalizing thread, and the operator.                                *)
(***************************************************************************)
ThreadReserves ==
  /\ pc \notin {"start", "probe", "paused"} /\ inflight = 0
  /\ GrantHot(1) /\ inflight' = 1
  /\ UNCHANGED <<pc, hot, verified, mount, swaps, Archive, Segments, Audit, faults>>

ThreadWrites ==
  /\ inflight > 0
  /\ hot' = hot + inflight /\ inflight' = 0
  /\ UNCHANGED <<pc, hotGuard, verified, mount, swaps, Archive, Segments, Audit, faults>>

Swap(root, v) ==
  /\ pc # "paused" /\ swaps < MaxSwaps /\ mount[root] # v
  /\ mount' = [mount EXCEPT ![root] = v] /\ swaps' = swaps + 1
  /\ UNCHANGED <<pc, hot, hotGuard, verified, inflight, Archive, Segments, Audit, faults>>

\* The preflight failed and the capture does not start, or no call is made.
Quiet == pc \in {"paused", "run"} /\ UNCHANGED vars
-----------------------------------------------------------------------------
Next ==
  \/ Preflight \/ PreflightProbe \/ AppendFrame \/ Flush \/ AuditEvent
  \/ StartArchive \/ CopyPart("payload", "manifest") \/ CopyPart("manifest", "restore")
  \/ Restore \/ Receipt \/ ThreadReserves \/ ThreadWrites
  \/ \E root \in Roots, v \in Volumes : Swap(root, v)
  \/ Quiet

Spec == Init /\ [][Next]_vars
-----------------------------------------------------------------------------

\* The floor of the hot volume is missed by no more than what a probe can forget:
\* the frames of one segment, the frame that waits for its rotation and the unit of
\* the thread, when they were paid for before the probe and are written after it, the
\* archive receipts, which nobody pays for, and the frames of the files that flushes
\* which failed left behind.
Leftover == objects \ Range(chain)
LeftoverFrames == UNION {{o} \X DOMAIN o.frames : o \in Leftover}
LongestSegment == Max({Len(pending)} \union {Len(s.frames) : s \in objects})
HotWithinFloor ==
  hot + inflight <= Room + LongestSegment + 2 + Cardinality(receipts) + Cardinality(LeftoverFrames)

\* The completed segments form one chain that holds every frame kept so far once
\* and in order.  A file whose writer was told that it failed is a copy of a part
\* of it: it carries the number of the segment that holds its frames.
SegmentsUnbroken ==
  LET Of(n) == IF n <= Len(chain) THEN chain[n].frames ELSE pending
      kept == FlattenSeq([n \in DOMAIN chain |-> chain[n].frames]) \o pending
  IN /\ \A i \in DOMAIN kept : kept[i] = i
     /\ Len(kept) = Cardinality(received)
     /\ \A i \in DOMAIN chain : /\ chain[i] \in objects /\ chain[i].number = i
                                /\ chain[i].previous = (IF i = 1 THEN None ELSE i - 1)
     /\ \A o \in objects : o.number <= Len(chain) + 1
                           /\ o.frames = SubSeq(Of(o.number), 1, Len(o.frames))

\* The audit events the state machine relies on form one chain on disk, and no
\* event follows a file that could not be read back.
AuditUnbroken ==
  /\ \A i \in DOMAIN events :
       [ordinal |-> i, event |-> events[i],
        previous |-> IF i = 1 THEN None ELSE events[i - 1]] \in audits
  /\ \A a, b \in audits : b.previous = a.event => \E i \in DOMAIN events : events[i] = a.event

\* The two chains of a stream survive every failed, repeated or half-made write: the
\* segments hold each frame once and in order, the audit events follow one another.
ChainsUnbroken == SegmentsUnbroken /\ AuditUnbroken

\* A receipt is written only for a segment whose payload and manifest lie on the
\* archive volume of the preflight, which is on no device of the hot volume, also
\* when volumes are exchanged during the copy or a write is repeated.
ReceiptIsBacked ==
  \A n \in {r[1] : r \in receipts} :
                      /\ verified["archive"] \notin SharesDevice
                      /\ {<<n, "payload">>, <<n, "manifest">>} \subseteq copies[verified["archive"]]
=============================================================================
