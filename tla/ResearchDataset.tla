--------------------------- MODULE ResearchDataset ---------------------------

(***************************************************************************)
(* The immutable ETF research datasets (research_dataset.py): a provider   *)
(* whose past changes, the build that reads it once, updates that read a   *)
(* bounded overlap and merge it into the snapshot they started from, and   *)
(* the publication of a snapshot and of the catalog that selects it.       *)
(*                                                                         *)
(* One symbol.  A price is the number of its revision; an adjusted price   *)
(* is the revision it was computed from and the actions after its day.     *)
(* Days and captures are on one axis.  Snapshots are content-addressed:    *)
(* two are the same when their contents are, and their position in disk    *)
(* stands for their hash.  Callers run at the same time and take no lock.  *)
(***************************************************************************)
EXTENDS Integers, SequencesExt

CONSTANTS
  Callers,       \* processes that call build, update or bind
  LastDay,       \* bound: days of the dataset
  LastCapture,   \* bound: captures
  Overlap,       \* overlap_sessions
  Absent,
  MaxRevisions,  \* bound: changes of the provider's past
  MaxCalls       \* bound: calls

ASSUME DatasetAssumption ==
  /\ LastDay \in Nat \ {0} /\ LastCapture \in Nat /\ Overlap \in Nat \ {0}
  /\ Absent \notin Nat /\ MaxRevisions \in Nat /\ MaxCalls \in Nat

VARIABLES
  feed,      \* what the provider serves: revisions of bars and of actions by ex-date
  revisions,
  disk,      \* published snapshots
  catalog,   \* catalog.json: [current, known], or Absent
  call,      \* the call of each process
  calls

datasetVars == <<feed, revisions, disk, catalog, call, calls>>

Days == 1..LastDay
Idle == [pc |-> "idle"]

DatasetInit ==
  /\ \E declared \in SUBSET (2..LastDay) :
       feed = [bars |-> [d \in Days |-> 0], actions |-> [d \in Days |-> IF d \in declared THEN 1 ELSE Absent]]
  /\ revisions = 0 /\ disk = <<>> /\ catalog = Absent
  /\ call = [c \in Callers |-> Idle] /\ calls = 0

(***************************************************************************)
(* What the provider does.                                                 *)
(***************************************************************************)
\* A bar is corrected, or an action is declared, corrected or withdrawn; the
\* provider has an action or none on every day but the first.
Revise(d) ==
  /\ revisions < MaxRevisions /\ revisions' = revisions + 1
  /\ \/ feed' = [feed EXCEPT !.bars[d] = @ + 1]
     \/ /\ d > 1
        /\ \E a \in {Absent, 1, 2} \ {feed.actions[d]} : feed' = [feed EXCEPT !.actions[d] = a]
  /\ UNCHANGED <<disk, catalog, call, calls>>

ActionDays(last) == {d \in 1..last : feed.actions[d] # Absent}

Adjusted(d) ==
  [bar |-> feed.bars[d], later |-> {<<e, feed.actions[e]>> : e \in {x \in ActionDays(LastDay) : x > d}}]

\* A response lacks at most one of the days that were asked for.
Responses(first, last) == {first..last} \union {(first..last) \ {d} : d \in first..last}

Prices(bars, adjusted) ==
  [bars |-> [d \in bars |-> feed.bars[d]], adjusted |-> [d \in adjusted |-> Adjusted(d)]]

(***************************************************************************)
(* What is made of a response.                                             *)
(***************************************************************************)
\* Identical row versions keep the receipt of the parent.
\* Mutation of FirstObserved: by their identity alone.
FirstObservedById(previous, observed) ==
  [e \in DOMAIN observed |->
     IF e \in DOMAIN previous
     THEN [observed[e] EXCEPT !.receipt = previous[e].receipt]
     ELSE observed[e]]
FirstObserved(previous, observed) ==
  [e \in DOMAIN observed |->
     IF e \in DOMAIN previous /\ previous[e].version = observed[e].version
     THEN previous[e] ELSE observed[e]]

\* A receipt lies neither after the capture nor before that of the parent.
ReceiptsAdmitted(previous, observed, capture) ==
  \A e \in DOMAIN observed :
    /\ observed[e].receipt <= capture
    /\ e \in DOMAIN previous /\ previous[e].version = observed[e].version
         => observed[e].receipt >= previous[e].receipt

\* New rows replace the old rows of the same key.
\* Mutation of Merged: what is known stays.
MergedKeeping(old, new) == old @@ new
Merged(old, new) ==
  [d \in DOMAIN old \union DOMAIN new |-> IF d \in DOMAIN new THEN new[d] ELSE old[d]]

\* validate_dataset_frames: every day is there, both price series have the same days,
\* and adjusted prices jump where the actions are, and nowhere else.
Jump(actions, d) == IF d \in DOMAIN actions THEN {<<d, actions[d].version>>} ELSE {}

Consistent(bars, adjusted, actions) ==
  \A d \in DOMAIN bars :
    /\ adjusted[d].bar = bars[d]
    /\ d > 1 => adjusted[d - 1].later = adjusted[d].later \union Jump(actions, d)

Valid(frames, end) ==
  /\ DOMAIN frames.bars = 1..end /\ DOMAIN frames.adjusted = 1..end
  /\ 1 \notin DOMAIN frames.actions
  /\ Consistent(frames.bars, frames.adjusted, frames.actions)

\* The frames of an update.  A live response holds every action there is; a local
\* fragment without actions, or with some, keeps those outside of it.
ActionView(op, old, seen) ==
  LET view == FirstObserved(old, seen) IN IF op = "local" THEN Merged(old, view) ELSE view

Until(f, end) == [d \in DOMAIN f \cap 1..end |-> f[d]]

Frames(op, old, seen, end) ==
  [bars |-> Until(Merged(old.bars, seen.bars), end),
   adjusted |-> Until(Merged(old.adjusted, seen.adjusted), end),
   actions |-> Until(ActionView(op, old.actions, seen.actions), end)]

(***************************************************************************)
(* The calls.                                                              *)
(***************************************************************************)
Empty == [bars |-> <<>>, adjusted |-> <<>>, actions |-> <<>>]

Called(c) == call[c].pc = "idle" /\ calls < MaxCalls /\ calls' = calls + 1

Begin(c, op, parent, capture, end) ==
  call' = [call EXCEPT ![c] = [pc |-> "fetch", op |-> op, parent |-> parent,
                               capture |-> capture, end |-> end]]

Build(c, capture, end) ==
  /\ Called(c) /\ catalog = Absent /\ end <= capture
  /\ Begin(c, "live", 0, capture, end)
  /\ UNCHANGED <<feed, revisions, disk, catalog>>

\* Mutation of MayFollow: the capture may move back.
MayFollowEarlier(previous, capture, end) == end >= previous.end
MayFollow(previous, capture, end) == capture >= previous.capture /\ end >= previous.end

\* A dataset from local files is only continued with local files.
Update(c, op, capture, end) ==
  /\ Called(c) /\ catalog # Absent /\ end <= capture
  /\ MayFollow(disk[catalog.current], capture, end)
  /\ op = "live" => disk[catalog.current].op = "live"
  /\ Begin(c, op, catalog.current, capture, end)
  /\ UNCHANGED <<feed, revisions, disk, catalog>>

\* The instrument master must cover the days of the dataset, also when an update
\* carries it on.
Bind(c, capture, horizon) ==
  /\ Called(c) /\ catalog # Absent
  /\ LET previous == disk[catalog.current] IN
     /\ capture >= previous.capture /\ horizon >= previous.end
     /\ call' = [call EXCEPT ![c] =
          [pc |-> "publish",
           snapshot |-> [parent |-> catalog.current, op |-> previous.op, capture |-> capture,
                         end |-> previous.end, master |-> horizon,
                         frames |-> previous.frames, seen |-> Empty]]]
  /\ UNCHANGED <<feed, revisions, disk, catalog>>

Old(asked) == IF asked.parent = 0 THEN Empty ELSE disk[asked.parent].frames
Master(asked) == IF asked.parent = 0 THEN Absent ELSE disk[asked.parent].master

FirstPriceDay(c) ==
  IF call[c].parent = 0 THEN 1 ELSE Max({1, disk[call[c].parent].end - Overlap + 1})

\* The prices of the overlap and of the new days, the adjusted prices of all days; one
\* of them may be missing.
FetchPrices(c) ==
  /\ call[c].pc = "fetch"
  /\ \E bars \in Responses(FirstPriceDay(c), call[c].end), adjusted \in Responses(1, call[c].end) :
       /\ bars = FirstPriceDay(c)..call[c].end \/ adjusted = 1..call[c].end
       /\ call' = [call EXCEPT ![c] = [pc |-> "actions", asked |-> @, seen |-> Prices(bars, adjusted)]]
  /\ UNCHANGED <<feed, revisions, disk, catalog, calls>>

\* The actions of a response, with the receipts of the rows: the capture in a live
\* response, what the file declares in a local one.
ActionsSeen(asked) ==
  IF asked.op = "live"
  THEN {[e \in ActionDays(asked.end) |-> [version |-> feed.actions[e], receipt |-> asked.capture]]}
  ELSE {[e \in part |-> [version |-> feed.actions[e], receipt |-> r]] :
          part \in SUBSET ActionDays(asked.end), r \in 1..asked.capture}

Snapshot(asked, seen) ==
  [parent |-> asked.parent, op |-> asked.op, capture |-> asked.capture,
   end |-> asked.end, master |-> Master(asked),
   frames |-> Frames(asked.op, Old(asked), seen, asked.end), seen |-> seen]

\* The actions complete the answer; it is merged and validated, and a call that
\* refuses it leaves nothing.
FetchActions(c) ==
  LET asked == call[c].asked IN
  /\ call[c].pc = "actions"
  /\ \E acts \in ActionsSeen(asked) :
       LET seen == [bars |-> call[c].seen.bars, adjusted |-> call[c].seen.adjusted, actions |-> acts]
           new == Snapshot(asked, seen)
           ok == /\ asked.parent # 0 => DOMAIN seen.bars # {} /\ DOMAIN seen.adjusted # {}
                 /\ ReceiptsAdmitted(Old(asked).actions, acts, asked.capture)
                 /\ Valid(new.frames, asked.end)
                 /\ Master(asked) # Absent => Master(asked) >= asked.end
       IN call' = [call EXCEPT ![c] = IF ok THEN [pc |-> "publish", snapshot |-> new] ELSE Idle]
  /\ UNCHANGED <<feed, revisions, disk, catalog, calls>>

Position(s) == CHOOSE i \in DOMAIN disk' : disk'[i] = s

\* The staged directory gets its content-addressed name, unless it is there.
Publish(c) ==
  /\ call[c].pc = "publish"
  /\ disk' = IF call[c].snapshot \in Range(disk) THEN disk ELSE Append(disk, call[c].snapshot)
  /\ call' = [call EXCEPT ![c] = [pc |-> "read", id |-> Position(call[c].snapshot)]]
  /\ UNCHANGED <<feed, revisions, catalog, calls>>

\* The catalog is read, and replaced by what was read and this snapshot.
ReadCatalog(c) ==
  /\ call[c].pc = "read"
  /\ call' = [call EXCEPT ![c] = [pc |-> "write", id |-> call[c].id,
                                  known |-> IF catalog = Absent THEN {} ELSE catalog.known]]
  /\ UNCHANGED <<feed, revisions, disk, catalog, calls>>

Entered(c) == call[c].known \union {call[c].id}

WriteCatalog(c) ==
  /\ call[c].pc = "write"
  /\ catalog' = [current |-> call[c].id, known |-> Entered(c)]
  /\ call' = [call EXCEPT ![c] = Idle]
  /\ UNCHANGED <<feed, revisions, disk, calls>>

\* A process dies, or a step fails: what was published stays.
Die(c) == call[c].pc # "idle" /\ call' = [call EXCEPT ![c] = Idle]
          /\ UNCHANGED <<feed, revisions, disk, catalog, calls>>

Quiet == (\A c \in Callers : call[c].pc = "idle") /\ UNCHANGED datasetVars
-----------------------------------------------------------------------------
DatasetNext ==
  \/ \E d \in Days : Revise(d)
  \/ \E c \in Callers :
       \/ \E capture \in 1..LastCapture, end \in Days :
            \/ Build(c, capture, end)
            \/ \E op \in {"live", "local"} : Update(c, op, capture, end)
            \/ Bind(c, capture, end)
       \/ FetchPrices(c) \/ FetchActions(c) \/ Publish(c) \/ ReadCatalog(c) \/ WriteCatalog(c) \/ Die(c)
  \/ Quiet

DatasetSpec == DatasetInit /\ [][DatasetNext]_datasetVars
-----------------------------------------------------------------------------
\* A snapshot, its parent, the parent of that one: the least set of this kind.
Lineage(i) ==
  {u \in DOMAIN disk : \A line \in SUBSET DOMAIN disk :
     /\ i \in line
     /\ \A n \in line : disk[n].parent # 0 => disk[n].parent \in line
     => u \in line}

\* Every snapshot holds, for each day, the newest price that its lineage saw, and its
\* prices agree with each other and with its actions: what a later and shorter answer
\* did not repeat is kept, what it repeated is replaced, and a mixture of two states
\* of the provider is refused when it shows.
HoldsNewestObservation ==
  \A i \in DOMAIN disk : \A d \in 1..disk[i].end :
    LET saw == {u \in Lineage(i) : d \in DOMAIN disk[u].seen.bars}
        frames == disk[i].frames
    IN /\ frames.bars[d] = disk[Max(saw)].seen.bars[d]
       /\ frames.adjusted[d].bar = frames.bars[d]
       /\ \A e \in 2..disk[i].end : e > d =>
            (e \in DOMAIN frames.actions) <=> (\E v \in {1, 2} : <<e, v>> \in frames.adjusted[d].later)

\* The receipt of an action is that of the observation with which the unbroken run of
\* snapshots that hold this very row version began, never a later or an earlier one.
ReceiptsAreFirst ==
  \A i \in DOMAIN disk : \A e \in DOMAIN disk[i].frames.actions :
    LET row == disk[i].frames.actions[e]
        Holds(u) == e \in DOMAIN disk[u].frames.actions /\ disk[u].frames.actions[e].version = row.version
    IN /\ row.receipt <= disk[i].capture
       /\ \E u \in Lineage(i) :
            /\ e \in DOMAIN disk[u].seen.actions /\ disk[u].seen.actions[e] = row
            /\ \A w \in Lineage(i) : w >= u => Holds(w)
            /\ disk[u].parent # 0 => ~Holds(disk[u].parent)

\* However calls overlap and die: the parent of a snapshot is on disk, starts no later
\* and ends no later than it; the catalog selects a snapshot it lists.
LineageHolds ==
  /\ \A i \in DOMAIN disk : disk[i].parent # 0 =>
       /\ disk[i].parent < i
       /\ disk[disk[i].parent].capture <= disk[i].capture
       /\ disk[disk[i].parent].end <= disk[i].end
  /\ catalog # Absent => catalog.current \in catalog.known /\ catalog.known \subseteq DOMAIN disk

=============================================================================
