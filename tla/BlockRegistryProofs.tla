------------------------ MODULE BlockRegistryProofs -------------------------
(***************************************************************************)
(* Proofs about BlockRegistry, for any images, containers, layers and      *)
(* manifests, and any number of calls under way.                           *)
(***************************************************************************)
EXTENDS BlockRegistry, TLAPS

-----------------------------------------------------------------------------
(* The inductive invariant.                                                *)

\* The flock: a call that links holds it shared, a collector exclusively.
Locking ==
  /\ \A k \in Calls : call[k].step = "link" <=> k \in readers
  /\ readers # {} => gc.step = "idle"

\* Calls name what they work on; only containers are writable.
CallTarget(r) ==
  /\ r.step # "idle" => r.out \in Ids
  /\ r.drop => r.src \in Ids
  /\ r.want.upper => r.out \in Containers
Targets ==
  /\ \A k \in Calls : CallTarget(call[k])
  /\ \A id \in Ids : Exists(id) /\ config[id].upper => id \in Containers

\* A call that is about to write content, and whose source and target nobody
\* has removed.
Sound(k) == call[k].step \in {"lock", "link"} /\ k \notin stale

\* The source of such a call is still there, and whole.
SourceStays ==
  \A k \in Calls : Sound(k) /\ call[k].src # NoId => Present(call[k].src)

\* Before the lock, what the call will not link itself its source refers to ...
Inherits(k) ==
  LET src == call[k].src
      from == IF src = NoId THEN Empty ELSE config[src]
  IN  /\ call[k].want.local \subseteq from.local \cup call[k].todo
      /\ call[k].want.lazy \subseteq from.lazy \cup call[k].todo
Inherited == \A k \in Calls : Sound(k) /\ call[k].step = "lock" => Inherits(k)

\* ... and under the lock it is on the disk, where only a collector deletes.
Provides(k) ==
  /\ call[k].want.local \subseteq blobs \cup call[k].todo
  /\ call[k].want.lazy \subseteq layers \cup call[k].todo
Provided == \A k \in Calls : Sound(k) /\ call[k].step = "link" => Provides(k)

\* The collector has read, or will read, every configuration that exists, or
\* is known to have failed to; then it may delete what the content needs.
Counted ==
  /\ \A id \in misread : Exists(id)
  /\ gc.step = "sweep" =>
       \A id \in Ids : Exists(id) =>
         \/ id \in gc.unread \cup misread \cup torn
         \/ References(id) \subseteq gc.kept

\* What is on the disk has been listed; what is kept is referred to.
Listed ==
  gc.step = "sweep" =>
    /\ layers \cup dirs \subseteq gc.listed
    /\ gc.calm => gc.kept \subseteq Referred

IInv ==
  /\ TypeOK /\ Locking /\ Targets /\ SourceStays /\ Inherited /\ Provided /\ Counted /\ Listed
  /\ Whole

-----------------------------------------------------------------------------
\* Records of calls and of the collector.
LEMMA StepTyped ==
  ASSUME NEW s \in {"idle", "lock", "link", "unlink", "rmdir"}, NEW target \in Ids \cup {NoId},
         NEW source \in Ids \cup {NoId}, NEW c \in Config, NEW links \in SUBSET Layers,
         NEW remove \in BOOLEAN
  PROVE  Step(s, target, source, c, links, remove) \in CallRecord
BY DEF Step, CallRecord

LEMMA EmptyTyped == Empty \in Config /\ NoCall \in CallRecord
BY DEF Empty, Config, NoCall, Step, CallRecord

LEMMA CallFields ==
  ASSUME TypeOK, NEW k \in Calls
  PROVE  /\ call[k] \in CallRecord
         /\ call[k].step \in {"idle", "lock", "link", "unlink", "rmdir"}
         /\ call[k].out \in Ids \cup {NoId} /\ call[k].src \in Ids \cup {NoId}
         /\ call[k].want \in Config /\ call[k].todo \in SUBSET Layers /\ call[k].drop \in BOOLEAN
<1>1. call[k] \in CallRecord
  BY DEF TypeOK
<1> QED
  BY <1>1 DEF CallRecord

LEMMA ConfigFields ==
  ASSUME NEW c \in Config
  PROVE  c.local \in SUBSET Layers /\ c.lazy \in SUBSET Layers /\ c.upper \in BOOLEAN
BY DEF Config

LEMMA ExistingConfig ==
  ASSUME TypeOK, NEW id \in Ids, Exists(id)
  PROVE  config[id] \in Config
BY DEF TypeOK, Exists

LEMMA WithUpper ==
  ASSUME NEW c \in Config, NEW u \in BOOLEAN
  PROVE  [c EXCEPT !.upper = u] \in Config
BY DEF Config

LEMMA WithLayer ==
  ASSUME NEW c \in Config, NEW l \in Layers
  PROVE  [c EXCEPT !.local = @ \cup {l}, !.upper = FALSE] \in Config
<1>1. c.local \cup {l} \in SUBSET Layers
  BY DEF Config
<1> QED
  BY <1>1 DEF Config

LEMMA SweepTyped ==
  ASSUME NEW s \in {"idle", "sweep"}, NEW left \in SUBSET Ids, NEW refs \in SUBSET Things,
         NEW things \in SUBSET Things, NEW undisturbed \in BOOLEAN
  PROVE  Sweep(s, left, refs, things, undisturbed) \in GcRecord
BY DEF Sweep, GcRecord

LEMMA GcFields ==
  ASSUME TypeOK
  PROVE  /\ gc.step \in {"idle", "sweep"} /\ gc.unread \in SUBSET Ids
         /\ gc.kept \in SUBSET Things /\ gc.listed \in SUBSET Things /\ gc.calm \in BOOLEAN
BY DEF TypeOK, GcRecord

LEMMA CalmTyped ==
  ASSUME TypeOK
  PROVE  [gc EXCEPT !.calm = @ /\ gc.step = "idle"] \in GcRecord
<1>1. CASE gc.step = "idle"
  BY <1>1 DEF TypeOK, GcRecord
<1>2. CASE gc.step # "idle"
  BY <1>2 DEF TypeOK, GcRecord
<1> QED
  BY <1>1, <1>2

LEMMA ReferencesTyped ==
  ASSUME TypeOK, Targets, NEW id \in Ids, Exists(id)
  PROVE  References(id) \in SUBSET Things
<1>1. config[id] \in Config
  BY ExistingConfig
<1>2. Lowers(config[id]) \in SUBSET Things
  BY <1>1, ConfigFields DEF Lowers, Things
<1>3. config[id].upper => id \in Containers
  BY DEF Targets
<1> QED
  BY <1>2, <1>3 DEF References, Things

\* Starting a call.
LEMMA BeginTyped ==
  ASSUME TypeOK, NEW k \in Calls, NEW s \in CallRecord, NEW misled, Begin(k, s, misled)
  PROVE  TypeOK'
BY DEF Begin, TypeOK, disk

LEMMA LoadImageTyped ==
  ASSUME TypeOK, NEW k \in Calls, NEW im \in Remote, LoadImage(k, im)
  PROVE  TypeOK'
<1> DEFINE c == [local |-> Manifest[im].local, lazy |-> Manifest[im].lazy, upper |-> FALSE]
<1>1. c \in Config
  BY RemoteAssumption DEF Config
<1>2. im \in Ids \cup {NoId} /\ Lowers(c) \in SUBSET Layers
  BY <1>1, RemoteAssumption DEF Ids, Lowers, Config
<1>3. Step("lock", im, NoId, c, Lowers(c), FALSE) \in CallRecord
  <2> HIDE DEF c
  <2> QED
    BY <1>1, <1>2, StepTyped
<1> QED
  BY <1>3, BeginTyped DEF LoadImage

LEMMA CreateContainerTyped ==
  ASSUME TypeOK, NEW k \in Calls, NEW base \in Images \cup {NoId}, NEW ct \in Containers,
         CreateContainer(k, base, ct)
  PROVE  TypeOK'
<1> DEFINE c == IF base = NoId THEN Empty ELSE config[base]
           d == [c EXCEPT !.upper = TRUE]
<1>1. c \in Config
  BY EmptyTyped, ExistingConfig DEF CreateContainer, Ids
<1>2. d \in Config
  <2> HIDE DEF c
  <2> QED
    BY <1>1, WithUpper
<1>3. Step("lock", ct, base, d, {}, FALSE) \in CallRecord
  <2> HIDE DEF d
  <2> QED
    BY <1>2, StepTyped DEF Ids
<1>4. Begin(k, Step("lock", ct, base, d, {}, FALSE), base \in torn)
  BY DEF CreateContainer
<1> QED
  <2> HIDE DEF d
  <2> QED
    BY <1>3, <1>4, BeginTyped

LEMMA CommitContainerTyped ==
  ASSUME TypeOK, NEW k \in Calls, NEW ct \in Containers, NEW im \in Outputs, NEW l \in Sealed,
         NEW remove \in BOOLEAN, CommitContainer(k, ct, im, l, remove)
  PROVE  TypeOK'
<1> DEFINE d == [config[ct] EXCEPT !.local = @ \cup {l}, !.upper = FALSE]
<1>1. l \in Layers /\ im \in Ids /\ ct \in Ids
  BY RemoteAssumption DEF Ids
<1>2. d \in Config
  BY <1>1, ExistingConfig, WithLayer DEF CommitContainer
<1>3. Step("lock", im, ct, d, {l}, remove) \in CallRecord
  <2> HIDE DEF d
  <2> QED
    BY <1>1, <1>2, StepTyped
<1>4. Begin(k, Step("lock", im, ct, d, {l}, remove), ct \in torn)
  BY DEF CommitContainer
<1> QED
  <2> HIDE DEF d
  <2> QED
    BY <1>3, <1>4, BeginTyped

LEMMA RemoveContentTyped ==
  ASSUME TypeOK, NEW k \in Calls, NEW id \in Ids, RemoveContent(k, id)
  PROVE  TypeOK'
<1>1. Step("unlink", id, NoId, Empty, {}, FALSE) \in CallRecord
  BY EmptyTyped, StepTyped
<1> QED
  BY <1>1, BeginTyped DEF RemoveContent

\* A call goes on.
LEMMA NextStepTyped ==
  ASSUME TypeOK, NEW k \in Calls, NEW s \in {"idle", "lock", "link", "unlink", "rmdir"}, NEW l
  PROVE  /\ [call EXCEPT ![k].step = s] \in [Calls -> CallRecord]
         /\ [call EXCEPT ![k].todo = @ \ {l}] \in [Calls -> CallRecord]
<1>1. call[k] \in CallRecord /\ call \in [Calls -> CallRecord]
  BY DEF TypeOK
<1>2. [call[k] EXCEPT !.step = s] \in CallRecord
  BY <1>1 DEF CallRecord
<1>3. call[k].todo \ {l} \in SUBSET Layers
  BY CallFields
<1>4. [call[k] EXCEPT !.todo = @ \ {l}] \in CallRecord
  BY <1>1, <1>3 DEF CallRecord
<1> QED
  BY <1>1, <1>2, <1>4

LEMMA OtherStepTyped ==
  ASSUME TypeOK, NEW k \in Calls, NEW r \in CallRecord
  PROVE  [call EXCEPT ![k] = r] \in [Calls -> CallRecord]
BY DEF TypeOK

\* Every step keeps the types.
LEMMA TypeStep ==
  ASSUME TypeOK, Targets, [Next]_vars
  PROVE  TypeOK'
<1> USE IdsAssumption, ConfigAssumption, RemoteAssumption DEF disk
<1>1. ASSUME NEW k \in Calls, NEW im \in Remote, LoadImage(k, im) PROVE TypeOK'
  BY <1>1, LoadImageTyped
<1>2. ASSUME NEW k \in Calls, NEW base \in Images \cup {NoId}, NEW ct \in
      Containers, CreateContainer(k, base, ct) PROVE TypeOK'
  BY <1>2, CreateContainerTyped
<1>3. ASSUME NEW k \in Calls, NEW ct \in Containers, NEW im \in Outputs, NEW l
      \in Sealed, NEW remove \in BOOLEAN, CommitContainer(k, ct, im, l, remove)
      PROVE TypeOK'
  BY <1>3, CommitContainerTyped
<1>4. ASSUME NEW k \in Calls, NEW id \in Ids, RemoveContent(k, id) PROVE TypeOK'
  BY <1>4, RemoveContentTyped
<1>5. ASSUME NEW k \in Calls, LockShared(k) PROVE TypeOK'
  BY <1>5, NextStepTyped DEF LockShared, TypeOK
<1>6. ASSUME NEW k \in Calls, NEW l \in Layers, LoadLocalLayer(k, l) PROVE
      TypeOK'
  BY <1>6, NextStepTyped DEF LoadLocalLayer, TypeOK
<1>7. ASSUME NEW k \in Calls, LinkContainer(k) PROVE TypeOK'
  BY <1>7, CallFields DEF LinkContainer, TypeOK, Targets, CallTarget
<1>8. ASSUME NEW k \in Calls, WriteConfig(k) PROVE TypeOK'
  <2>1. call[k].want \in Config /\ call[k].out \in Ids
    BY <1>8, CallFields DEF WriteConfig, At, Targets, CallTarget
  <2>2. AfterWrite(k) \in CallRecord
    BY CallFields, EmptyTyped, StepTyped DEF AfterWrite
  <2>3. call' \in [Calls -> CallRecord]
    BY <1>8, <2>2, OtherStepTyped DEF WriteConfig
  <2>4. config' \in [Ids -> Config \cup {NoConfig}] /\ torn' \in SUBSET Ids
    BY <1>8, <2>1 DEF WriteConfig, TypeOK
  <2> QED
    BY <1>8, <2>3, <2>4 DEF WriteConfig, TypeOK
<1>9. ASSUME NEW k \in Calls, UnlinkConfig(k) PROVE TypeOK'
  <2>1. call' \in [Calls -> CallRecord]
    <3>1. call' = [call EXCEPT ![k].step = "rmdir"] \/ call' = [call EXCEPT ![k] = NoCall]
      BY <1>9 DEF UnlinkConfig, TypeOK
    <3>2. "rmdir" \in {"idle", "lock", "link", "unlink", "rmdir"} /\ NoCall \in CallRecord
      BY EmptyTyped
    <3>3. CASE call' = [call EXCEPT ![k].step = "rmdir"]
      BY <3>2, <3>3, NextStepTyped
    <3>4. CASE call' = [call EXCEPT ![k] = NoCall]
      BY <3>2, <3>4, OtherStepTyped
    <3> QED
      BY <3>1, <3>3, <3>4
  <2>2. gc' \in GcRecord
    BY <1>9, CalmTyped DEF UnlinkConfig, TypeOK
  <2>3. stale' \in SUBSET Calls
    BY <1>9 DEF UnlinkConfig, TypeOK, Using
  <2> QED
    BY <1>9, <2>1, <2>2, <2>3 DEF UnlinkConfig, TypeOK
<1>10. ASSUME NEW k \in Calls, RemoveDir(k) PROVE TypeOK'
  <2>1. call' \in [Calls -> CallRecord]
    BY <1>10, EmptyTyped, OtherStepTyped DEF RemoveDir, End
  <2>2. stale' \in SUBSET Calls
    BY <1>10 DEF RemoveDir, TypeOK, Using
  <2>3. torn' \in SUBSET Ids
    BY <1>10 DEF RemoveDir, TypeOK, Targets, CallTarget, At
  <2> QED
    BY <1>10, <2>1, <2>2, <2>3 DEF RemoveDir, TypeOK, End
<1>11. ASSUME NEW k \in Calls, Fail(k) PROVE TypeOK'
  BY <1>11, EmptyTyped, OtherStepTyped DEF Fail, End, TypeOK
<1>12. CASE GcLock
  <2>1. Sweep("sweep", {id \in Ids : Exists(id)}, {}, layers \cup dirs, TRUE) \in GcRecord
    BY SweepTyped DEF TypeOK, Things
  <2> QED
    BY <1>12, <2>1 DEF GcLock, TypeOK
<1>13. CASE GcEnd
  <2>1. NoSweep \in GcRecord
    BY SweepTyped DEF NoSweep
  <2> QED
    BY <1>13, <2>1 DEF GcEnd, TypeOK
<1>14. ASSUME NEW id \in Ids, GcRead(id) PROVE TypeOK'
  <2> DEFINE kept == IF Exists(id) THEN gc.kept \cup References(id) ELSE gc.kept
  <2>1. kept \in SUBSET Things
    BY GcFields, ReferencesTyped
  <2>2. \/ gc' = [gc EXCEPT !.unread = @ \ {id}, !.kept = kept]
        \/ gc' = [gc EXCEPT !.unread = @ \ {id}]
    BY <1>14 DEF GcRead
  <2>3. gc' \in GcRecord
    <3> HIDE DEF kept
    <3>1. CASE gc' = [gc EXCEPT !.unread = @ \ {id}, !.kept = kept]
      BY <2>1, <3>1, GcFields DEF GcRecord, TypeOK
    <3>2. CASE gc' = [gc EXCEPT !.unread = @ \ {id}]
      BY <3>2, GcFields DEF GcRecord, TypeOK
    <3> QED
      BY <2>2, <3>1, <3>2
  <2>4. misread' \in SUBSET Ids
    BY <1>14 DEF GcRead, TypeOK
  <2> QED
    BY <1>14, <2>3, <2>4 DEF GcRead, TypeOK
<1>15. ASSUME NEW x \in Things, GcDelete(x) PROVE TypeOK'
  <2>1. gc' \in GcRecord
    BY <1>15, GcFields DEF GcDelete, GcRecord, TypeOK
  <2>2. Hurt(x) \in SUBSET Ids
    BY DEF Hurt, TypeOK
  <2>3. torn' \in SUBSET Ids /\ stale' \in SUBSET Calls /\ misread' \in SUBSET Ids
    BY <1>15, <2>2 DEF GcDelete, TypeOK
  <2> QED
    BY <1>15, <2>1, <2>3 DEF GcDelete, TypeOK
<1>16. CASE Crash
  <2>1. call' \in [Calls -> CallRecord]
    BY <1>16, EmptyTyped DEF Crash
  <2>2. gc' \in GcRecord
    BY <1>16, SweepTyped DEF Crash, NoSweep
  <2> QED
    BY <1>16, <2>1, <2>2 DEF Crash, TypeOK
<1>17. CASE UNCHANGED vars
  BY <1>17 DEF vars, TypeOK
<1> QED
  BY <1>1, <1>2, <1>3, <1>4, <1>5, <1>6, <1>7, <1>8, <1>9, <1>10, <1>11, <1>12,
    <1>13, <1>14, <1>15, <1>16, <1>17 DEF Next, CallStep, GcStep

\* What the steps change, call by call and id by id.
LEMMA BeginFrame ==
  ASSUME TypeOK, NEW k \in Calls, NEW s, NEW misled, Begin(k, s, misled)
  PROVE  /\ call[k].step = "idle" /\ call'[k] = s /\ \A j \in Calls : j # k => call'[j] = call[j]
         /\ k \in stale' <=> k \in stale \/ misled
         /\ \A j \in Calls : j # k => (j \in stale' <=> j \in stale)
         /\ config' = config /\ layers' = layers /\ blobs' = blobs /\ dirs' = dirs
         /\ readers' = readers /\ gc' = gc /\ torn' = torn
BY DEF Begin, TypeOK, disk

LEMMA WriteFrame ==
  ASSUME TypeOK, Targets, NEW k \in Calls, WriteConfig(k)
  PROVE  /\ call[k].step = "link" /\ call'[k] = AfterWrite(k) /\ call[k].out \in Ids
         /\ \A j \in Calls : j # k => call'[j] = call[j] /\ (j \in stale' <=> j \in stale)
         /\ \A j \in Calls : j \in readers' <=> j \in readers /\ j # k
         /\ layers' = layers /\ blobs' = blobs /\ dirs' = dirs /\ gc' = gc
         /\ \A id \in Ids : Exists(id) => config'[id] = config[id]
         /\ \A id \in Ids : id # call[k].out => config'[id] = config[id]
         /\ config'[call[k].out] = call[k].want
         /\ \A id \in Ids : id \in torn' => id \in torn \/ (id = call[k].out /\ ~Exists(id))
         /\ \A id \in Ids : id \in torn => id \in torn'
         /\ ~Exists(call[k].out) /\ k \in stale => call[k].out \in torn'
<1>1. /\ call[k].step = "link" /\ call[k].out \in Ids
      /\ layers' = layers /\ blobs' = blobs /\ dirs' = dirs /\ gc' = gc
      /\ \A j \in Calls : j \in readers' <=> j \in readers /\ j # k
  BY DEF WriteConfig, At, Targets, CallTarget
<1>2. call'[k] = AfterWrite(k) /\ \A j \in Calls : j # k => call'[j] = call[j]
  BY DEF WriteConfig, TypeOK
<1>3. \A j \in Calls : j # k => (j \in stale' <=> j \in stale)
  BY DEF WriteConfig
<1>4. /\ \A id \in Ids : Exists(id) => config'[id] = config[id]
      /\ \A id \in Ids : id # call[k].out => config'[id] = config[id]
      /\ config'[call[k].out] = call[k].want
  BY <1>1 DEF WriteConfig, TypeOK, Exists
<1>5. /\ \A id \in Ids : id \in torn' => id \in torn \/ (id = call[k].out /\ ~Exists(id))
      /\ \A id \in Ids : id \in torn => id \in torn'
      /\ ~Exists(call[k].out) /\ k \in stale => call[k].out \in torn'
  BY <1>1, ConfigAssumption, CallFields DEF WriteConfig, TypeOK, Exists
<1> QED
  BY <1>1, <1>2, <1>3, <1>4, <1>5

LEMMA UnlinkFrame ==
  ASSUME TypeOK, Targets, NEW k \in Calls, UnlinkConfig(k)
  PROVE  /\ call[k].step = "unlink" /\ call[k].out \in Ids
         /\ call'[k] = [call[k] EXCEPT !.step = "rmdir"] \/ call'[k] = NoCall
         /\ \A j \in Calls : j # k => call'[j] = call[j]
         /\ \A j \in Calls : j \in stale' <=> j \in stale \/ j \in Using(call[k].out)
         /\ layers' = layers /\ blobs' = blobs /\ dirs' = dirs /\ readers' = readers
         /\ \A id \in Ids : id # call[k].out => config'[id] = config[id]
         /\ config'[call[k].out] = NoConfig
         /\ \A id \in Ids : id \in torn' <=> id \in torn /\ id # call[k].out
         /\ gc'.step = gc.step /\ gc'.unread = gc.unread /\ gc'.kept = gc.kept
         /\ gc'.listed = gc.listed /\ (gc'.step = "sweep" => ~gc'.calm)
<1>1. /\ call[k].step = "unlink" /\ call[k].out \in Ids
      /\ \A id \in Ids : id # call[k].out => config'[id] = config[id]
      /\ config'[call[k].out] = NoConfig
      /\ \A id \in Ids : id \in torn' <=> id \in torn /\ id # call[k].out
      /\ layers' = layers /\ blobs' = blobs /\ dirs' = dirs /\ readers' = readers
  BY DEF UnlinkConfig, TypeOK, At, Targets, CallTarget
<1>2. /\ call'[k] = [call[k] EXCEPT !.step = "rmdir"] \/ call'[k] = NoCall
      /\ \A j \in Calls : j # k => call'[j] = call[j]
  BY DEF UnlinkConfig, TypeOK
<1>3. \A j \in Calls : j \in stale' <=> j \in stale \/ j \in Using(call[k].out)
  BY DEF UnlinkConfig
<1>4. /\ gc'.step = gc.step /\ gc'.unread = gc.unread /\ gc'.kept = gc.kept
      /\ gc'.listed = gc.listed
  BY DEF UnlinkConfig, TypeOK, GcRecord
<1>5. gc'.step = "sweep" => ~gc'.calm
  <2>1. gc'.calm = (gc.calm /\ gc.step = "idle")
    BY Zenon DEF UnlinkConfig, TypeOK, GcRecord
  <2> QED
    BY <1>4, <2>1
<1> QED
  BY <1>1, <1>2, <1>3, <1>4, <1>5

\* Nothing that is referred to ceases to be while no configuration changes or goes.
LEMMA ReferredGrows ==
  ASSUME \A id \in Ids : Exists(id) => config'[id] = config[id]
  PROVE  Referred \subseteq Referred'
<1> SUFFICES ASSUME NEW x \in Referred PROVE x \in Referred'
  OBVIOUS
<1>1. PICK id \in Ids : Exists(id) /\ x \in References(id)
  BY DEF Referred
<1>2. config'[id] = config[id]
  BY <1>1
<1>3. Exists(id)'
  BY <1>1, <1>2 DEF Exists
<1>4. x \in References(id)'
  BY <1>1, <1>2 DEF References, Lowers
<1> QED
  BY <1>3, <1>4 DEF Referred

LEMMA StepTarget ==
  ASSUME NEW s, NEW target \in Ids, NEW source, NEW c, NEW links, NEW remove,
         remove => source \in Ids, c.upper => target \in Containers
  PROVE  CallTarget(Step(s, target, source, c, links, remove))
BY DEF CallTarget, Step

LEMMA NoCallTarget == CallTarget(NoCall)
BY DEF CallTarget, NoCall, Step, Empty

LEMMA BeginTarget ==
  ASSUME TypeOK, Targets, NEW k \in Calls, NEW s, NEW misled, Begin(k, s, misled), CallTarget(s)
  PROVE  Targets'
BY BeginFrame DEF Targets, Exists

\* The flock excludes the collector.
LEMMA LockingStep ==
  ASSUME TypeOK, Locking, Targets, [Next]_vars
  PROVE  Locking'
<1> USE IdsAssumption, ConfigAssumption, RemoteAssumption DEF disk, At, Step,
      NoCall, NoSweep, Sweep, Locking, TypeOK
<1>1. ASSUME NEW k \in Calls, NEW im \in Remote, LoadImage(k, im) PROVE Locking'
  BY <1>1 DEF LoadImage, Begin
<1>2. ASSUME NEW k \in Calls, NEW base \in Images \cup {NoId}, NEW ct \in
      Containers, CreateContainer(k, base, ct) PROVE Locking'
  BY <1>2 DEF CreateContainer, Begin
<1>3. ASSUME NEW k \in Calls, NEW ct \in Containers, NEW im \in Outputs, NEW l
      \in Sealed, NEW remove \in BOOLEAN, CommitContainer(k, ct, im, l, remove)
      PROVE Locking'
  BY <1>3 DEF CommitContainer, Begin
<1>4. ASSUME NEW k \in Calls, NEW id \in Ids, RemoveContent(k, id) PROVE
      Locking'
  BY <1>4 DEF RemoveContent, Begin
<1>5. ASSUME NEW k \in Calls, LockShared(k) PROVE Locking'
  BY <1>5 DEF LockShared
<1>6. ASSUME NEW k \in Calls, NEW l \in Layers, LoadLocalLayer(k, l) PROVE
      Locking'
  BY <1>6 DEF LoadLocalLayer
<1>7. ASSUME NEW k \in Calls, LinkContainer(k) PROVE Locking'
  BY <1>7 DEF LinkContainer
<1>8. ASSUME NEW k \in Calls, WriteConfig(k) PROVE Locking'
  BY <1>8 DEF WriteConfig, AfterWrite
<1>9. ASSUME NEW k \in Calls, UnlinkConfig(k) PROVE Locking'
  BY <1>9 DEF UnlinkConfig
<1>10. ASSUME NEW k \in Calls, RemoveDir(k) PROVE Locking'
  BY <1>10 DEF RemoveDir, End
<1>11. ASSUME NEW k \in Calls, Fail(k) PROVE Locking'
  BY <1>11 DEF Fail, End
<1>12. CASE GcLock
  BY <1>12 DEF GcLock
<1>13. CASE GcEnd
  BY <1>13 DEF GcEnd
<1>14. ASSUME NEW id \in Ids, GcRead(id) PROVE Locking'
  BY <1>14 DEF GcRead
<1>15. ASSUME NEW x \in Things, GcDelete(x) PROVE Locking'
  BY <1>15 DEF GcDelete
<1>16. CASE Crash
  BY <1>16 DEF Crash
<1>17. CASE UNCHANGED vars
  BY <1>17 DEF vars
<1> QED
  <2> HIDE DEF disk, At, Step, NoCall, NoSweep, Sweep, Locking, TypeOK
  <2> QED
    BY <1>1, <1>2, <1>3, <1>4, <1>5, <1>6, <1>7, <1>8, <1>9, <1>10, <1>11, <1>12,
      <1>13, <1>14, <1>15, <1>16, <1>17 DEF Next, CallStep, GcStep

\* Calls go on naming what they work on.
LEMMA TargetsStep ==
  ASSUME TypeOK, Targets, [Next]_vars
  PROVE  Targets'
<1> USE IdsAssumption, ConfigAssumption, RemoteAssumption DEF disk
<1>1. ASSUME NEW k \in Calls, NEW im \in Remote, LoadImage(k, im) PROVE Targets'
  <2>1. CallTarget(Step("lock", im, NoId, [local |-> Manifest[im].local, lazy |-> Manifest[im].lazy, upper |-> FALSE],
                Lowers([local |-> Manifest[im].local, lazy |-> Manifest[im].lazy, upper |-> FALSE]), FALSE))
    BY RemoteAssumption DEF CallTarget, Step, Ids
  <2> QED
    BY <1>1, <2>1, BeginTarget DEF LoadImage
<1>2. ASSUME NEW k \in Calls, NEW base \in Images \cup {NoId}, NEW ct \in
      Containers, CreateContainer(k, base, ct) PROVE Targets'
  <2> DEFINE c == IF base = NoId THEN Empty ELSE config[base]
  <2>1. CallTarget(Step("lock", ct, base, [c EXCEPT !.upper = TRUE], {}, FALSE))
    BY DEF CallTarget, Step, Ids
  <2>2. Begin(k, Step("lock", ct, base, [c EXCEPT !.upper = TRUE], {}, FALSE), base \in torn)
    BY <1>2 DEF CreateContainer
  <2> QED
    <3> HIDE DEF c
    <3> QED
      BY <2>1, <2>2, BeginTarget
<1>3. ASSUME NEW k \in Calls, NEW ct \in Containers, NEW im \in Outputs, NEW l
      \in Sealed, NEW remove \in BOOLEAN, CommitContainer(k, ct, im, l, remove)
      PROVE Targets'
  <2> DEFINE d == [config[ct] EXCEPT !.local = @ \cup {l}, !.upper = FALSE]
  <2>1. config[ct] \in Config /\ im \in Ids /\ ct \in Ids
    BY <1>3, ExistingConfig DEF CommitContainer, Ids
  <2>2. d.upper = FALSE
    BY <2>1 DEF Config
  <2>3. Begin(k, Step("lock", im, ct, d, {l}, remove), ct \in torn)
    BY <1>3 DEF CommitContainer
  <2> HIDE DEF d
  <2>4. CallTarget(Step("lock", im, ct, d, {l}, remove))
    BY <2>1, <2>2 DEF CallTarget, Step
  <2> QED
    BY <2>3, <2>4, BeginTarget
<1>4. ASSUME NEW k \in Calls, NEW id \in Ids, RemoveContent(k, id) PROVE
      Targets'
  <2>1. CallTarget(Step("unlink", id, NoId, Empty, {}, FALSE))
    BY StepTarget DEF Empty
  <2> QED
    BY <1>4, <2>1, BeginTarget DEF RemoveContent
<1>5. ASSUME NEW k \in Calls, LockShared(k) PROVE Targets'
  <2>1. \A j \in Calls : CallTarget(call'[j])
    BY <1>5, CallFields DEF LockShared, Targets, CallTarget, TypeOK, CallRecord, At
  <2> QED
    BY <1>5, <2>1 DEF LockShared, Targets, CallTarget, Exists
<1>6. ASSUME NEW k \in Calls, NEW l \in Layers, LoadLocalLayer(k, l) PROVE
      Targets'
  <2>1. \A j \in Calls : CallTarget(call'[j])
    BY <1>6, CallFields DEF LoadLocalLayer, Targets, CallTarget, TypeOK, CallRecord, At
  <2> QED
    BY <1>6, <2>1 DEF LoadLocalLayer, Targets, CallTarget, Exists
<1>7. ASSUME NEW k \in Calls, LinkContainer(k) PROVE Targets'
  BY <1>7 DEF LinkContainer, Targets, CallTarget, Exists
<1>8. ASSUME NEW k \in Calls, WriteConfig(k) PROVE Targets'
  <2>1. CallTarget(AfterWrite(k))
    BY NoCallTarget, StepTarget DEF AfterWrite, Targets, CallTarget, Empty
  <2>2. \A j \in Calls : CallTarget(call'[j])
    BY <1>8, <2>1, WriteFrame DEF Targets
  <2>3. \A id \in Ids : Exists(id)' /\ config'[id].upper => id \in Containers
    BY <1>8, WriteFrame DEF Targets, CallTarget, Exists
  <2> QED
    BY <2>2, <2>3 DEF Targets, CallTarget, Exists
<1>9. ASSUME NEW k \in Calls, UnlinkConfig(k) PROVE Targets'
  <2>1. CallTarget([call[k] EXCEPT !.step = "rmdir"])
    <3>1. call[k] \in CallRecord /\ CallTarget(call[k]) /\ call[k].out \in Ids
      BY <1>9, UnlinkFrame, CallFields DEF Targets
    <3> QED
      BY <3>1 DEF CallTarget, CallRecord
  <2>2. \A j \in Calls : CallTarget(call'[j])
    BY <1>9, <2>1, NoCallTarget, UnlinkFrame DEF Targets
  <2>3. \A id \in Ids : Exists(id)' /\ config'[id].upper => id \in Containers
    BY <1>9, UnlinkFrame DEF Targets, Exists
  <2> QED
    BY <2>2, <2>3 DEF Targets, CallTarget, Exists
<1>10. ASSUME NEW k \in Calls, RemoveDir(k) PROVE Targets'
  <2>1. \A j \in Calls : CallTarget(call'[j])
    BY <1>10, NoCallTarget DEF RemoveDir, End, Targets, TypeOK
  <2> QED
    BY <1>10, <2>1 DEF RemoveDir, Targets, CallTarget, Exists
<1>11. ASSUME NEW k \in Calls, Fail(k) PROVE Targets'
  <2>1. \A j \in Calls : CallTarget(call'[j])
    BY <1>11, NoCallTarget DEF Fail, End, Targets, TypeOK
  <2> QED
    BY <1>11, <2>1 DEF Fail, Targets, CallTarget, Exists
<1>12. CASE GcLock
  BY <1>12 DEF GcLock, Targets, CallTarget, Exists
<1>13. CASE GcEnd
  BY <1>13 DEF GcEnd, Targets, CallTarget, Exists
<1>14. ASSUME NEW id \in Ids, GcRead(id) PROVE Targets'
  BY <1>14 DEF GcRead, Targets, CallTarget, Exists
<1>15. ASSUME NEW x \in Things, GcDelete(x) PROVE Targets'
  BY <1>15 DEF GcDelete, Targets, CallTarget, Exists
<1>16. CASE Crash
  <2>1. \A j \in Calls : CallTarget(call'[j])
    BY <1>16, NoCallTarget DEF Crash, Targets, TypeOK
  <2> QED
    BY <1>16, <2>1 DEF Crash, Targets, CallTarget, Exists
<1>17. CASE UNCHANGED vars
  BY <1>17 DEF vars, Targets, CallTarget, Exists
<1> QED
  BY <1>1, <1>2, <1>3, <1>4, <1>5, <1>6, <1>7, <1>8, <1>9, <1>10, <1>11, <1>12,
    <1>13, <1>14, <1>15, <1>16, <1>17 DEF Next, CallStep, GcStep

\* The source of a call stays, or the call is marked.
LEMMA SourceStep ==
  ASSUME TypeOK, Locking, Targets, SourceStays, [Next]_vars
  PROVE  SourceStays'
<1> USE IdsAssumption, ConfigAssumption, RemoteAssumption DEF disk, At, Step,
      NoCall, NoSweep, Sweep, SourceStays, Sound, Present, Exists, TypeOK
<1>1. ASSUME NEW k \in Calls, NEW im \in Remote, LoadImage(k, im) PROVE
      SourceStays'
  BY <1>1 DEF LoadImage, Begin
<1>2. ASSUME NEW k \in Calls, NEW base \in Images \cup {NoId}, NEW ct \in
      Containers, CreateContainer(k, base, ct) PROVE SourceStays'
  BY <1>2 DEF CreateContainer, Begin
<1>3. ASSUME NEW k \in Calls, NEW ct \in Containers, NEW im \in Outputs, NEW l
      \in Sealed, NEW remove \in BOOLEAN, CommitContainer(k, ct, im, l, remove)
      PROVE SourceStays'
  BY <1>3 DEF CommitContainer, Begin
<1>4. ASSUME NEW k \in Calls, NEW id \in Ids, RemoveContent(k, id) PROVE
      SourceStays'
  BY <1>4 DEF RemoveContent, Begin
<1>5. ASSUME NEW k \in Calls, LockShared(k) PROVE SourceStays'
  BY <1>5 DEF LockShared
<1>6. ASSUME NEW k \in Calls, NEW l \in Layers, LoadLocalLayer(k, l) PROVE
      SourceStays'
  BY <1>6 DEF LoadLocalLayer
<1>7. ASSUME NEW k \in Calls, LinkContainer(k) PROVE SourceStays'
  BY <1>7 DEF LinkContainer
<1>8. ASSUME NEW k \in Calls, WriteConfig(k) PROVE SourceStays'
  <2> HIDE DEF SourceStays, Present, Exists
  <2> SUFFICES ASSUME NEW j \in Calls, Sound(j)', call'[j].src # NoId PROVE Present(call[j].src)'
    BY DEF SourceStays
  <2>1. j # k
    <3>1. AfterWrite(k).step \notin {"lock", "link"}
      BY DEF AfterWrite
    <3>2. call'[k] = AfterWrite(k)
      BY <1>8, WriteFrame
    <3> QED
      BY <3>1, <3>2
  <2>2. Sound(j) /\ call'[j] = call[j] /\ call[j].src \in Ids /\ Present(call[j].src)
    BY <1>8, <2>1, WriteFrame, CallFields DEF SourceStays
  <2> QED
    BY <1>8, <2>2, WriteFrame DEF Present, Exists
<1>9. ASSUME NEW k \in Calls, UnlinkConfig(k) PROVE SourceStays'
  BY <1>9 DEF UnlinkConfig, Using
<1>10. ASSUME NEW k \in Calls, RemoveDir(k) PROVE SourceStays'
  BY <1>10 DEF RemoveDir, End, Using
<1>11. ASSUME NEW k \in Calls, Fail(k) PROVE SourceStays'
  BY <1>11 DEF Fail, End
<1>12. CASE GcLock
  BY <1>12 DEF GcLock
<1>13. CASE GcEnd
  BY <1>13 DEF GcEnd
<1>14. ASSUME NEW id \in Ids, GcRead(id) PROVE SourceStays'
  BY <1>14 DEF GcRead
<1>15. ASSUME NEW x \in Things, GcDelete(x) PROVE SourceStays'
  <2> HIDE DEF SourceStays
  <2> SUFFICES ASSUME NEW j \in Calls, Sound(j)', call'[j].src # NoId PROVE Present(call[j].src)'
    BY <1>15 DEF SourceStays, GcDelete
  <2>1. /\ call' = call /\ config' = config /\ torn' = torn \cup Hurt(x)
        /\ stale' = stale \cup {k \in Calls : call[k].step = "lock" /\ call[k].src \in Hurt(x)}
    BY <1>15 DEF GcDelete
  <2>2. readers = {}
    BY <1>15 DEF GcDelete, Locking
  <2>3. call[j].step = "lock"
    BY <2>1, <2>2 DEF Locking
  <2>4. Present(call[j].src) /\ call[j].src \notin Hurt(x)
    BY <2>1, <2>3 DEF SourceStays
  <2> QED
    BY <2>1, <2>4
<1>16. CASE Crash
  BY <1>16 DEF Crash
<1>17. CASE UNCHANGED vars
  BY <1>17 DEF vars
<1> QED
  <2> HIDE DEF disk, At, Step, NoCall, NoSweep, Sweep, SourceStays, Sound,
      Present, Exists, TypeOK
  <2> QED
    BY <1>1, <1>2, <1>3, <1>4, <1>5, <1>6, <1>7, <1>8, <1>9, <1>10, <1>11, <1>12,
      <1>13, <1>14, <1>15, <1>16, <1>17 DEF Next, CallStep, GcStep

\* The collector has read, or will read, every configuration.
LEMMA CountedStep ==
  ASSUME TypeOK, Locking, Targets, Counted, [Next]_vars
  PROVE  Counted'
<1> USE IdsAssumption, ConfigAssumption, RemoteAssumption DEF disk, At, Step,
      NoCall, NoSweep, Sweep, Counted, Exists, TypeOK, References, Lowers
<1>1. ASSUME NEW k \in Calls, NEW im \in Remote, LoadImage(k, im) PROVE Counted'
  BY <1>1 DEF LoadImage, Begin
<1>2. ASSUME NEW k \in Calls, NEW base \in Images \cup {NoId}, NEW ct \in
      Containers, CreateContainer(k, base, ct) PROVE Counted'
  BY <1>2 DEF CreateContainer, Begin
<1>3. ASSUME NEW k \in Calls, NEW ct \in Containers, NEW im \in Outputs, NEW l
      \in Sealed, NEW remove \in BOOLEAN, CommitContainer(k, ct, im, l, remove)
      PROVE Counted'
  BY <1>3 DEF CommitContainer, Begin
<1>4. ASSUME NEW k \in Calls, NEW id \in Ids, RemoveContent(k, id) PROVE
      Counted'
  BY <1>4 DEF RemoveContent, Begin
<1>5. ASSUME NEW k \in Calls, LockShared(k) PROVE Counted'
  BY <1>5 DEF LockShared
<1>6. ASSUME NEW k \in Calls, NEW l \in Layers, LoadLocalLayer(k, l) PROVE
      Counted'
  BY <1>6 DEF LoadLocalLayer
<1>7. ASSUME NEW k \in Calls, LinkContainer(k) PROVE Counted'
  BY <1>7 DEF LinkContainer
<1>8. ASSUME NEW k \in Calls, WriteConfig(k) PROVE Counted'
  <2>1. gc.step = "idle" /\ gc' = gc /\ misread' = misread
    BY <1>8, WriteFrame DEF Locking, WriteConfig
  <2>2. \A id \in misread : Exists(id)'
    BY <1>8, <2>1 DEF WriteConfig
  <2> QED
    BY <2>1, <2>2
<1>9. ASSUME NEW k \in Calls, UnlinkConfig(k) PROVE Counted'
  BY <1>9 DEF UnlinkConfig
<1>10. ASSUME NEW k \in Calls, RemoveDir(k) PROVE Counted'
  BY <1>10 DEF RemoveDir, End
<1>11. ASSUME NEW k \in Calls, Fail(k) PROVE Counted'
  BY <1>11 DEF Fail, End
<1>12. CASE GcLock
  BY <1>12 DEF GcLock
<1>13. CASE GcEnd
  BY <1>13 DEF GcEnd
<1>14. ASSUME NEW id \in Ids, GcRead(id) PROVE Counted'
  <2>1. config' = config /\ torn' = torn /\ gc.step = "sweep" /\ gc \in GcRecord
    BY <1>14 DEF GcRead
  <2>2. CASE /\ gc' = [gc EXCEPT !.unread = @ \ {id},
                               !.kept = IF Exists(id) THEN @ \cup References(id) ELSE @]
             /\ misread' = misread
    <3>1. /\ gc'.unread = gc.unread \ {id}
          /\ gc.kept \subseteq gc'.kept /\ (Exists(id) => References(id) \subseteq gc'.kept)
      BY <2>1, <2>2 DEF GcRecord
    <3> QED
      BY <2>1, <2>2, <3>1
  <2>3. CASE /\ Exists(id) /\ gc' = [gc EXCEPT !.unread = @ \ {id}]
             /\ misread' = misread \cup {id}
    <3>1. gc'.unread = gc.unread \ {id} /\ gc'.kept = gc.kept
      BY <2>1, <2>3 DEF GcRecord
    <3> QED
      BY <2>1, <2>3, <3>1
  <2> QED
    BY <1>14, <2>2, <2>3 DEF GcRead
<1>15. ASSUME NEW x \in Things, GcDelete(x) PROVE Counted'
  BY <1>15 DEF GcDelete
<1>16. CASE Crash
  BY <1>16 DEF Crash
<1>17. CASE UNCHANGED vars
  BY <1>17 DEF vars
<1> QED
  <2> HIDE DEF disk, At, Step, NoCall, NoSweep, Sweep, Counted, Exists, TypeOK,
      References, Lowers
  <2> QED
    BY <1>1, <1>2, <1>3, <1>4, <1>5, <1>6, <1>7, <1>8, <1>9, <1>10, <1>11, <1>12,
      <1>13, <1>14, <1>15, <1>16, <1>17 DEF Next, CallStep, GcStep

\* What is on the disk is listed; what is kept is referred to.
LEMMA ListedStep ==
  ASSUME TypeOK, Locking, Targets, Listed, [Next]_vars
  PROVE  Listed'
<1> USE IdsAssumption, ConfigAssumption, RemoteAssumption DEF disk
<1>1. ASSUME NEW k \in Calls, NEW im \in Remote, LoadImage(k, im) PROVE Listed'
  <2>1. config' = config /\ layers' = layers /\ dirs' = dirs /\ gc' = gc
    BY <1>1, BeginFrame DEF LoadImage
  <2> QED
    BY <2>1, ReferredGrows DEF Listed
<1>2. ASSUME NEW k \in Calls, NEW base \in Images \cup {NoId}, NEW ct \in
      Containers, CreateContainer(k, base, ct) PROVE Listed'
  <2>1. config' = config /\ layers' = layers /\ dirs' = dirs /\ gc' = gc
    BY <1>2, BeginFrame DEF CreateContainer
  <2> QED
    BY <2>1, ReferredGrows DEF Listed
<1>3. ASSUME NEW k \in Calls, NEW ct \in Containers, NEW im \in Outputs, NEW l
      \in Sealed, NEW remove \in BOOLEAN, CommitContainer(k, ct, im, l, remove)
      PROVE Listed'
  <2>1. config' = config /\ layers' = layers /\ dirs' = dirs /\ gc' = gc
    BY <1>3, BeginFrame DEF CommitContainer
  <2> QED
    BY <2>1, ReferredGrows DEF Listed
<1>4. ASSUME NEW k \in Calls, NEW id \in Ids, RemoveContent(k, id) PROVE Listed'
  <2>1. config' = config /\ layers' = layers /\ dirs' = dirs /\ gc' = gc
    BY <1>4, BeginFrame DEF RemoveContent
  <2> QED
    BY <2>1, ReferredGrows DEF Listed
<1>5. ASSUME NEW k \in Calls, LockShared(k) PROVE Listed'
  <2>1. config' = config /\ layers' = layers /\ dirs' = dirs /\ gc' = gc
    BY <1>5 DEF LockShared, disk
  <2> QED
    BY <2>1, ReferredGrows DEF Listed
<1>6. ASSUME NEW k \in Calls, NEW l \in Layers, LoadLocalLayer(k, l) PROVE
      Listed'
  <2>1. gc.step = "idle" /\ gc' = gc
    BY <1>6 DEF LoadLocalLayer, At, Locking
  <2> QED
    BY <2>1 DEF Listed
<1>7. ASSUME NEW k \in Calls, LinkContainer(k) PROVE Listed'
  <2>1. gc.step = "idle" /\ gc' = gc
    BY <1>7 DEF LinkContainer, At, Locking
  <2> QED
    BY <2>1 DEF Listed
<1>8. ASSUME NEW k \in Calls, WriteConfig(k) PROVE Listed'
  <2>1. k \in readers /\ gc' = gc
    BY <1>8 DEF WriteConfig, At, Locking
  <2>2. gc.step = "idle"
    BY <2>1 DEF Locking
  <2> QED
    BY <2>1, <2>2 DEF Listed
<1>9. ASSUME NEW k \in Calls, UnlinkConfig(k) PROVE Listed'
  <2>1. /\ layers' = layers /\ dirs' = dirs /\ gc'.step = gc.step /\ gc'.listed = gc.listed
        /\ gc'.step = "sweep" => ~gc'.calm
    BY <1>9, UnlinkFrame
  <2> QED
    BY <2>1 DEF Listed
<1>10. ASSUME NEW k \in Calls, RemoveDir(k) PROVE Listed'
  <2>1. config' = config /\ layers' = layers /\ dirs' \subseteq dirs /\ gc' = gc
    BY <1>10 DEF RemoveDir
  <2> QED
    BY <2>1, ReferredGrows DEF Listed
<1>11. ASSUME NEW k \in Calls, Fail(k) PROVE Listed'
  <2>1. config' = config /\ layers' = layers /\ dirs' = dirs /\ gc' = gc
    BY <1>11 DEF Fail, disk
  <2> QED
    BY <2>1, ReferredGrows DEF Listed
<1>12. CASE GcLock
  <2>1. layers' = layers /\ dirs' = dirs /\ gc'.listed = layers \cup dirs /\ gc'.kept = {}
    BY <1>12 DEF GcLock, disk, Sweep
  <2> QED
    BY <2>1 DEF Listed
<1>13. CASE GcEnd
  <2>1. gc'.step = "idle"
    BY <1>13 DEF GcEnd, NoSweep, Sweep
  <2> QED
    BY <2>1 DEF Listed
<1>14. ASSUME NEW id \in Ids, GcRead(id) PROVE Listed'
  <2>1. config' = config /\ layers' = layers /\ dirs' = dirs /\ gc.step = "sweep"
    BY <1>14 DEF GcRead, disk
  <2>2. /\ gc'.listed = gc.listed /\ gc'.calm = gc.calm
        /\ \/ gc'.kept = gc.kept
           \/ Exists(id) /\ gc'.kept = gc.kept \cup References(id)
    BY <1>14 DEF GcRead, TypeOK, GcRecord
  <2>3. Exists(id) => References(id) \subseteq Referred
    BY DEF Referred
  <2> QED
    BY <2>1, <2>2, <2>3, ReferredGrows DEF Listed
<1>15. ASSUME NEW x \in Things, GcDelete(x) PROVE Listed'
  <2>1. config' = config /\ layers' = layers \ {x} /\ dirs' = dirs \ {x} /\ gc.step = "sweep"
    BY <1>15 DEF GcDelete
  <2>2. gc'.listed = gc.listed \ {x} /\ gc'.calm = gc.calm /\ gc'.kept = gc.kept
    BY <1>15 DEF GcDelete, TypeOK, GcRecord
  <2> QED
    BY <2>1, <2>2, ReferredGrows DEF Listed
<1>16. CASE Crash
  <2>1. gc'.step = "idle"
    BY <1>16 DEF Crash, NoSweep, Sweep
  <2> QED
    BY <2>1 DEF Listed
<1>17. CASE UNCHANGED vars
  BY <1>17, ReferredGrows DEF vars, Listed
<1> QED
  BY <1>1, <1>2, <1>3, <1>4, <1>5, <1>6, <1>7, <1>8, <1>9, <1>10, <1>11, <1>12,
    <1>13, <1>14, <1>15, <1>16, <1>17 DEF Next, CallStep, GcStep

\* What a call is about to write was there when it began, or it links it itself.
LEMMA LoadImageFrame ==
  ASSUME TypeOK, NEW k \in Calls, NEW im \in Remote, LoadImage(k, im)
  PROVE  /\ \A j \in Calls : j # k => call'[j] = call[j] /\ (j \in stale' <=> j \in stale)
         /\ config' = config /\ call'[k].src = NoId
         /\ call'[k].want.local \subseteq call'[k].todo
         /\ call'[k].want.lazy \subseteq call'[k].todo
<1> DEFINE c == [local |-> Manifest[im].local, lazy |-> Manifest[im].lazy, upper |-> FALSE]
<1>1. Begin(k, Step("lock", im, NoId, c, Lowers(c), FALSE), FALSE)
  BY DEF LoadImage
<1>2. call'[k] = Step("lock", im, NoId, c, Lowers(c), FALSE)
  <2> HIDE DEF c
  <2> QED
    BY <1>1, BeginFrame
<1>3. /\ \A j \in Calls : j # k => call'[j] = call[j] /\ (j \in stale' <=> j \in stale)
      /\ config' = config
  <2> HIDE DEF c
  <2> QED
    BY <1>1, BeginFrame
<1>4. c.local \subseteq Lowers(c) /\ c.lazy \subseteq Lowers(c)
  BY DEF Lowers
<1> HIDE DEF c
<1>5. /\ call'[k].src = NoId /\ call'[k].want = c /\ call'[k].todo = Lowers(c)
  BY <1>2 DEF Step
<1> QED
  BY <1>3, <1>4, <1>5

LEMMA CommitFrame ==
  ASSUME TypeOK, NEW k \in Calls, NEW ct \in Containers, NEW im \in Outputs, NEW l \in Sealed,
         NEW remove \in BOOLEAN, CommitContainer(k, ct, im, l, remove)
  PROVE  /\ \A j \in Calls : j # k => call'[j] = call[j] /\ (j \in stale' <=> j \in stale)
         /\ config' = config /\ call'[k].src = ct
         /\ call'[k].want.local = config[ct].local \cup call'[k].todo
         /\ call'[k].want.lazy = config[ct].lazy
<1> DEFINE d == [config[ct] EXCEPT !.local = @ \cup {l}, !.upper = FALSE]
<1>1. Begin(k, Step("lock", im, ct, d, {l}, remove), ct \in torn)
  BY DEF CommitContainer
<1>2. d.local = config[ct].local \cup {l} /\ d.lazy = config[ct].lazy
  <2>1. config[ct] \in Config
    BY ExistingConfig DEF CommitContainer, Ids
  <2> QED
    BY <2>1 DEF Config
<1> HIDE DEF d
<1>3. call'[k] = Step("lock", im, ct, d, {l}, remove)
  BY <1>1, BeginFrame
<1>4. /\ \A j \in Calls : j # k => call'[j] = call[j] /\ (j \in stale' <=> j \in stale)
      /\ config' = config
  BY <1>1, BeginFrame
<1>5. call'[k].src = ct /\ call'[k].want = d /\ call'[k].todo = {l}
  BY <1>3 DEF Step
<1> QED
  BY <1>2, <1>4, <1>5

LEMMA CreateFrame ==
  ASSUME TypeOK, NEW k \in Calls, NEW base \in Images \cup {NoId}, NEW ct \in Containers,
         CreateContainer(k, base, ct)
  PROVE  /\ \A j \in Calls : j # k => call'[j] = call[j] /\ (j \in stale' <=> j \in stale)
         /\ config' = config /\ call'[k].src = base
         /\ call'[k].want.local = (IF base = NoId THEN Empty ELSE config[base]).local
         /\ call'[k].want.lazy = (IF base = NoId THEN Empty ELSE config[base]).lazy
<1> DEFINE c == IF base = NoId THEN Empty ELSE config[base]
           d == [c EXCEPT !.upper = TRUE]
<1>1. Begin(k, Step("lock", ct, base, d, {}, FALSE), base \in torn)
  BY DEF CreateContainer
<1>2. c \in Config
  BY EmptyTyped, ExistingConfig DEF CreateContainer, Ids
<1>3. d.local = c.local /\ d.lazy = c.lazy
  <2> HIDE DEF c
  <2> QED
    BY <1>2 DEF Config
<1> HIDE DEF d
<1>4. call'[k] = Step("lock", ct, base, d, {}, FALSE)
  BY <1>1, BeginFrame
<1>5. /\ \A j \in Calls : j # k => call'[j] = call[j] /\ (j \in stale' <=> j \in stale)
      /\ config' = config
  BY <1>1, BeginFrame
<1>6. call'[k].src = base /\ call'[k].want = d
  BY <1>4 DEF Step
<1> QED
  BY <1>3, <1>5, <1>6

\* A call goes on writing what its source refers to.
LEMMA InheritedStep ==
  ASSUME TypeOK, Locking, Targets, SourceStays, Inherited, [Next]_vars
  PROVE  Inherited'
<1> USE IdsAssumption, ConfigAssumption, RemoteAssumption DEF disk
<1>1. ASSUME NEW k \in Calls, NEW im \in Remote, LoadImage(k, im) PROVE
      Inherited'
  <2> SUFFICES ASSUME NEW j \in Calls, Sound(j)', call'[j].step = "lock" PROVE Inherits(j)'
    BY DEF Inherited
  <2>1. CASE j = k
    BY <1>1, <2>1, LoadImageFrame DEF Inherits
  <2>2. CASE j # k
    BY <1>1, <2>2, LoadImageFrame DEF Inherited, Inherits, Sound
  <2> QED
    BY <2>1, <2>2
<1>2. ASSUME NEW k \in Calls, NEW base \in Images \cup {NoId}, NEW ct \in
      Containers, CreateContainer(k, base, ct) PROVE Inherited'
  <2> SUFFICES ASSUME NEW j \in Calls, Sound(j)', call'[j].step = "lock" PROVE Inherits(j)'
    BY DEF Inherited
  <2>1. CASE j = k
    BY <1>2, <2>1, CreateFrame DEF Inherits
  <2>2. CASE j # k
    BY <1>2, <2>2, CreateFrame DEF Inherited, Inherits, Sound
  <2> QED
    BY <2>1, <2>2
<1>3. ASSUME NEW k \in Calls, NEW ct \in Containers, NEW im \in Outputs, NEW l
      \in Sealed, NEW remove \in BOOLEAN, CommitContainer(k, ct, im, l, remove)
      PROVE Inherited'
  <2> SUFFICES ASSUME NEW j \in Calls, Sound(j)', call'[j].step = "lock" PROVE Inherits(j)'
    BY DEF Inherited
  <2>1. CASE j = k
    BY <1>3, <2>1, IdsAssumption, CommitFrame DEF Inherits, Ids
  <2>2. CASE j # k
    BY <1>3, <2>2, CommitFrame DEF Inherited, Inherits, Sound
  <2> QED
    BY <2>1, <2>2
<1>4. ASSUME NEW k \in Calls, NEW id \in Ids, RemoveContent(k, id) PROVE
      Inherited'
  <2> SUFFICES ASSUME NEW j \in Calls, Sound(j)', call'[j].step = "lock" PROVE Inherits(j)'
    BY DEF Inherited
  <2>1. call'[k].step = "unlink" /\ \A i \in Calls : i # k => call'[i] = call[i]
    <3>1. call'[k] = Step("unlink", id, NoId, Empty, {}, FALSE)
      BY <1>4, BeginFrame DEF RemoveContent
    <3>2. \A i \in Calls : i # k => call'[i] = call[i]
      BY <1>4, BeginFrame DEF RemoveContent
    <3> QED
      BY <3>1, <3>2 DEF Step
  <2>2. config' = config /\ (j # k => (j \in stale' <=> j \in stale))
    BY <1>4, BeginFrame DEF RemoveContent
  <2> QED
    BY <2>1, <2>2 DEF Inherited, Inherits, Sound
<1>5. ASSUME NEW k \in Calls, LockShared(k) PROVE Inherited'
  <2> SUFFICES ASSUME NEW j \in Calls, Sound(j)', call'[j].step = "lock" PROVE Inherits(j)'
    BY DEF Inherited
  <2>1. j # k /\ call'[j] = call[j] /\ config' = config /\ stale' = stale
    BY <1>5 DEF LockShared, At, TypeOK, CallRecord, disk
  <2> QED
    BY <2>1 DEF Inherited, Inherits, Sound
<1>6. ASSUME NEW k \in Calls, NEW l \in Layers, LoadLocalLayer(k, l) PROVE
      Inherited'
  <2> SUFFICES ASSUME NEW j \in Calls, Sound(j)', call'[j].step = "lock" PROVE Inherits(j)'
    BY DEF Inherited
  <2>1. j # k /\ call'[j] = call[j] /\ config' = config /\ stale' = stale
    BY <1>6 DEF LoadLocalLayer, At, TypeOK, CallRecord, disk
  <2> QED
    BY <2>1 DEF Inherited, Inherits, Sound
<1>7. ASSUME NEW k \in Calls, LinkContainer(k) PROVE Inherited'
  BY <1>7 DEF LinkContainer, Inherited, Inherits, Sound
<1>8. ASSUME NEW k \in Calls, WriteConfig(k) PROVE Inherited'
  <2> SUFFICES ASSUME NEW j \in Calls, Sound(j)', call'[j].step = "lock" PROVE Inherits(j)'
    BY DEF Inherited
  <2>1. j # k /\ call'[j] = call[j] /\ (j \in stale' <=> j \in stale)
    <3>1. AfterWrite(k).step # "lock"
      BY DEF AfterWrite, Step, NoCall
    <3>2. j # k
      BY <1>8, <3>1, WriteFrame
    <3> QED
      BY <1>8, <3>2, WriteFrame
  <2>2. Sound(j) /\ Inherits(j)
    BY <2>1 DEF Sound, Inherited
  <2>3. call[j].src # NoId => config'[call[j].src] = config[call[j].src]
    BY <1>8, <2>2, WriteFrame, CallFields DEF SourceStays, Present
  <2> QED
    BY <2>1, <2>2, <2>3 DEF Inherits
<1>9. ASSUME NEW k \in Calls, UnlinkConfig(k) PROVE Inherited'
  <2> SUFFICES ASSUME NEW j \in Calls, Sound(j)', call'[j].step = "lock" PROVE Inherits(j)'
    BY DEF Inherited
  <2>1. j # k /\ call'[j] = call[j] /\ j \notin stale /\ j \notin Using(call[k].out)
    <3>1. call'[k].step # "lock"
      <4>1. NoCall.step # "lock" /\ [call[k] EXCEPT !.step = "rmdir"].step # "lock"
        BY CallFields DEF CallRecord, NoCall, Step
      <4> QED
        BY <1>9, <4>1, UnlinkFrame
    <3> QED
      BY <1>9, <3>1, UnlinkFrame DEF Sound
  <2>2. Sound(j) /\ Inherits(j) /\ call[j].src # call[k].out
    BY <2>1 DEF Sound, Inherited, Using
  <2>3. call[j].src # NoId => config'[call[j].src] = config[call[j].src]
    BY <1>9, <2>2, UnlinkFrame, CallFields
  <2> QED
    BY <2>1, <2>2, <2>3 DEF Inherits
<1>10. ASSUME NEW k \in Calls, RemoveDir(k) PROVE Inherited'
  <2> SUFFICES ASSUME NEW j \in Calls, Sound(j)', call'[j].step = "lock" PROVE Inherits(j)'
    BY DEF Inherited
  <2>1. j # k /\ call'[j] = call[j] /\ config' = config /\ j \notin stale
    BY <1>10 DEF RemoveDir, End, TypeOK, NoCall, Step, Sound, disk
  <2> QED
    BY <2>1 DEF Inherited, Inherits, Sound
<1>11. ASSUME NEW k \in Calls, Fail(k) PROVE Inherited'
  <2> SUFFICES ASSUME NEW j \in Calls, Sound(j)', call'[j].step = "lock" PROVE Inherits(j)'
    BY DEF Inherited
  <2>1. j # k /\ call'[j] = call[j] /\ config' = config /\ j \notin stale
    BY <1>11 DEF Fail, End, TypeOK, NoCall, Step, Sound, disk
  <2> QED
    BY <2>1 DEF Inherited, Inherits, Sound
<1>12. CASE GcLock
  BY <1>12 DEF GcLock, disk, Inherited, Inherits, Sound
<1>13. CASE GcEnd
  BY <1>13 DEF GcEnd, disk, Inherited, Inherits, Sound
<1>14. ASSUME NEW id \in Ids, GcRead(id) PROVE Inherited'
  BY <1>14 DEF GcRead, disk, Inherited, Inherits, Sound
<1>15. ASSUME NEW x \in Things, GcDelete(x) PROVE Inherited'
  BY <1>15 DEF GcDelete, disk, Inherited, Inherits, Sound
<1>16. CASE Crash
  BY <1>16 DEF Crash, Inherited, Sound, NoCall, Step
<1>17. CASE UNCHANGED vars
  BY <1>17 DEF vars, Inherited, Inherits, Sound
<1> QED
  BY <1>1, <1>2, <1>3, <1>4, <1>5, <1>6, <1>7, <1>8, <1>9, <1>10, <1>11, <1>12,
    <1>13, <1>14, <1>15, <1>16, <1>17 DEF Next, CallStep, GcStep

\* Under the lock what a call names stays on the disk.
LEMMA ProvidedStep ==
  ASSUME TypeOK, Locking, Targets, SourceStays, Inherited, Provided, Whole, [Next]_vars
  PROVE  Provided'
<1> USE IdsAssumption, ConfigAssumption, RemoteAssumption DEF disk
<1>1. ASSUME NEW k \in Calls, NEW im \in Remote, LoadImage(k, im) PROVE
      Provided'
  <2> SUFFICES ASSUME NEW j \in Calls, Sound(j)', call'[j].step = "link" PROVE Provides(j)'
    BY DEF Provided
  <2>1. PICK s, misled : Begin(k, s, misled) /\ s.step # "link"
    <3>1. \A target, source, c, links, r : Step("lock", target, source, c, links, r).step # "link"
      BY DEF Step
    <3> QED
      BY <1>1, <3>1 DEF LoadImage
  <2>2. j # k /\ call'[j] = call[j] /\ blobs' = blobs /\ layers' = layers /\ j \notin stale
    BY <2>1, BeginFrame DEF Sound
  <2> QED
    BY <2>2 DEF Provided, Provides, Sound
<1>2. ASSUME NEW k \in Calls, NEW base \in Images \cup {NoId}, NEW ct \in
      Containers, CreateContainer(k, base, ct) PROVE Provided'
  <2> SUFFICES ASSUME NEW j \in Calls, Sound(j)', call'[j].step = "link" PROVE Provides(j)'
    BY DEF Provided
  <2>1. PICK s, misled : Begin(k, s, misled) /\ s.step # "link"
    <3>1. \A target, source, c, links, r : Step("lock", target, source, c, links, r).step # "link"
      BY DEF Step
    <3> QED
      BY <1>2, <3>1 DEF CreateContainer
  <2>2. j # k /\ call'[j] = call[j] /\ blobs' = blobs /\ layers' = layers /\ j \notin stale
    BY <2>1, BeginFrame DEF Sound
  <2> QED
    BY <2>2 DEF Provided, Provides, Sound
<1>3. ASSUME NEW k \in Calls, NEW ct \in Containers, NEW im \in Outputs, NEW l
      \in Sealed, NEW remove \in BOOLEAN, CommitContainer(k, ct, im, l, remove)
      PROVE Provided'
  <2> SUFFICES ASSUME NEW j \in Calls, Sound(j)', call'[j].step = "link" PROVE Provides(j)'
    BY DEF Provided
  <2>1. PICK s, misled : Begin(k, s, misled) /\ s.step # "link"
    <3>1. \A target, source, c, links, r : Step("lock", target, source, c, links, r).step # "link"
      BY DEF Step
    <3> QED
      BY <1>3, <3>1 DEF CommitContainer
  <2>2. j # k /\ call'[j] = call[j] /\ blobs' = blobs /\ layers' = layers /\ j \notin stale
    BY <2>1, BeginFrame DEF Sound
  <2> QED
    BY <2>2 DEF Provided, Provides, Sound
<1>4. ASSUME NEW k \in Calls, NEW id \in Ids, RemoveContent(k, id) PROVE
      Provided'
  <2> SUFFICES ASSUME NEW j \in Calls, Sound(j)', call'[j].step = "link" PROVE Provides(j)'
    BY DEF Provided
  <2>1. PICK s, misled : Begin(k, s, misled) /\ s.step # "link"
    <3>1. \A target, source, c, links, r : Step("unlink", target, source, c, links, r).step # "link"
      BY DEF Step
    <3> QED
      BY <1>4, <3>1 DEF RemoveContent
  <2>2. j # k /\ call'[j] = call[j] /\ blobs' = blobs /\ layers' = layers /\ j \notin stale
    BY <2>1, BeginFrame DEF Sound
  <2> QED
    BY <2>2 DEF Provided, Provides, Sound
<1>5. ASSUME NEW k \in Calls, LockShared(k) PROVE Provided'
  <2> SUFFICES ASSUME NEW j \in Calls, Sound(j)', call'[j].step = "link" PROVE Provides(j)'
    BY DEF Provided
  <2>1. config' = config /\ blobs' = blobs /\ layers' = layers /\ stale' = stale
    BY <1>5 DEF LockShared, disk
  <2>2. CASE j = k
    <3>1. call[k].step = "lock" /\ call'[k].want = call[k].want /\ call'[k].todo = call[k].todo
      BY <1>5 DEF LockShared, At, TypeOK, CallRecord
    <3>2. Inherits(k) /\ (call[k].src # NoId => Present(call[k].src))
      BY <2>1, <2>2, <3>1 DEF Inherited, SourceStays, Sound
    <3>3. call[k].src # NoId =>
            config[call[k].src].local \subseteq blobs /\ config[call[k].src].lazy \subseteq layers
      BY <3>2, CallFields DEF Whole, OnDisk
    <3>4. Provides(k)
      BY <3>2, <3>3 DEF Inherits, Provides, Empty
    <3> QED
      BY <2>1, <2>2, <3>1, <3>4 DEF Provides
  <2>3. CASE j # k
    BY <1>5, <2>1, <2>3 DEF LockShared, TypeOK, Provided, Provides, Sound
  <2> QED
    BY <2>2, <2>3
<1>6. ASSUME NEW k \in Calls, NEW l \in Layers, LoadLocalLayer(k, l) PROVE
      Provided'
  <2> SUFFICES ASSUME NEW j \in Calls, Sound(j)', call'[j].step = "link" PROVE Provides(j)'
    BY DEF Provided
  <2>1. call'[j].step = call[j].step /\ call'[j].want = call[j].want /\ stale' = stale
    BY <1>6 DEF LoadLocalLayer, TypeOK, CallRecord
  <2>2. Provides(j)
    BY <2>1 DEF Provided, Sound
  <2>3. layers' = layers \cup {l} /\ blobs \subseteq blobs'
    BY <1>6 DEF LoadLocalLayer
  <2>4. CASE j = k
    <3>1. call'[k].todo = call[k].todo \ {l} /\ (l \in call[k].want.local => l \in blobs')
      BY <1>6 DEF LoadLocalLayer, TypeOK, CallRecord
    <3> QED
      BY <2>1, <2>2, <2>3, <2>4, <3>1 DEF Provides
  <2>5. CASE j # k
    <3>1. call'[j] = call[j]
      BY <1>6, <2>5 DEF LoadLocalLayer, TypeOK
    <3> QED
      BY <2>2, <2>3, <3>1 DEF Provides
  <2> QED
    BY <2>4, <2>5
<1>7. ASSUME NEW k \in Calls, LinkContainer(k) PROVE Provided'
  BY <1>7 DEF LinkContainer, Provided, Provides, Sound
<1>8. ASSUME NEW k \in Calls, WriteConfig(k) PROVE Provided'
  <2> SUFFICES ASSUME NEW j \in Calls, Sound(j)', call'[j].step = "link" PROVE Provides(j)'
    BY DEF Provided
  <2>1. AfterWrite(k).step # "link"
    BY DEF AfterWrite, Step, NoCall
  <2>2. j # k /\ call'[j] = call[j] /\ (j \in stale' <=> j \in stale)
    BY <1>8, <2>1, WriteFrame
  <2>3. blobs' = blobs /\ layers' = layers
    BY <1>8, WriteFrame
  <2> QED
    BY <2>2, <2>3 DEF Provided, Provides, Sound
<1>9. ASSUME NEW k \in Calls, UnlinkConfig(k) PROVE Provided'
  <2> SUFFICES ASSUME NEW j \in Calls, Sound(j)', call'[j].step = "link" PROVE Provides(j)'
    BY DEF Provided
  <2>1. NoCall.step # "link" /\ [call[k] EXCEPT !.step = "rmdir"].step # "link"
    BY CallFields DEF CallRecord, NoCall, Step
  <2>2. j # k /\ call'[j] = call[j] /\ j \notin stale
    <3>1. j # k
      BY <1>9, <2>1, UnlinkFrame
    <3>2. j \notin stale' /\ (j \in stale => j \in stale')
      BY <1>9, UnlinkFrame DEF Sound
    <3>3. call'[j] = call[j]
      BY <1>9, <3>1, UnlinkFrame
    <3> QED
      BY <3>1, <3>2, <3>3
  <2>3. blobs' = blobs /\ layers' = layers
    BY <1>9, UnlinkFrame
  <2> QED
    BY <2>2, <2>3 DEF Provided, Provides, Sound
<1>10. ASSUME NEW k \in Calls, RemoveDir(k) PROVE Provided'
  <2> SUFFICES ASSUME NEW j \in Calls, Sound(j)', call'[j].step = "link" PROVE Provides(j)'
    BY DEF Provided
  <2>1. j # k /\ call'[j] = call[j] /\ blobs' = blobs /\ layers' = layers /\ j \notin stale
    BY <1>10 DEF RemoveDir, End, TypeOK, NoCall, Step, Sound, disk
  <2> QED
    BY <2>1 DEF Provided, Provides, Sound
<1>11. ASSUME NEW k \in Calls, Fail(k) PROVE Provided'
  <2> SUFFICES ASSUME NEW j \in Calls, Sound(j)', call'[j].step = "link" PROVE Provides(j)'
    BY DEF Provided
  <2>1. j # k /\ call'[j] = call[j] /\ blobs' = blobs /\ layers' = layers /\ j \notin stale
    BY <1>11 DEF Fail, End, TypeOK, NoCall, Step, Sound, disk
  <2> QED
    BY <2>1 DEF Provided, Provides, Sound
<1>12. CASE GcLock
  BY <1>12 DEF GcLock, disk, Provided, Provides, Sound
<1>13. CASE GcEnd
  BY <1>13 DEF GcEnd, disk, Provided, Provides, Sound
<1>14. ASSUME NEW id \in Ids, GcRead(id) PROVE Provided'
  BY <1>14 DEF GcRead, disk, Provided, Provides, Sound
<1>15. ASSUME NEW x \in Things, GcDelete(x) PROVE Provided'
  <2> SUFFICES ASSUME NEW j \in Calls, Sound(j)', call'[j].step = "link" PROVE Provides(j)'
    BY DEF Provided
  <2>1. j \in readers /\ gc.step = "sweep"
    BY <1>15 DEF GcDelete, Locking
  <2> QED
    BY <2>1 DEF Locking
<1>16. CASE Crash
  BY <1>16 DEF Crash, Provided, Sound, NoCall, Step
<1>17. CASE UNCHANGED vars
  BY <1>17 DEF vars, Provided, Provides, Sound
<1> QED
  BY <1>1, <1>2, <1>3, <1>4, <1>5, <1>6, <1>7, <1>8, <1>9, <1>10, <1>11, <1>12,
    <1>13, <1>14, <1>15, <1>16, <1>17 DEF Next, CallStep, GcStep

\* Content that exists stays whole.
LEMMA WholeStep ==
  ASSUME TypeOK, Locking, Targets, Provided, Counted, Whole, [Next]_vars
  PROVE  Whole'
<1> USE IdsAssumption, ConfigAssumption, RemoteAssumption DEF disk
<1>1. ASSUME NEW k \in Calls, NEW im \in Remote, LoadImage(k, im) PROVE Whole'
  <2>1. config' = config /\ layers' = layers /\ blobs' = blobs /\ dirs' = dirs /\ torn' = torn
    BY <1>1, BeginFrame DEF LoadImage
  <2> QED
    BY <2>1 DEF Whole, OnDisk, Present, Exists
<1>2. ASSUME NEW k \in Calls, NEW base \in Images \cup {NoId}, NEW ct \in
      Containers, CreateContainer(k, base, ct) PROVE Whole'
  <2>1. config' = config /\ layers' = layers /\ blobs' = blobs /\ dirs' = dirs /\ torn' = torn
    BY <1>2, BeginFrame DEF CreateContainer
  <2> QED
    BY <2>1 DEF Whole, OnDisk, Present, Exists
<1>3. ASSUME NEW k \in Calls, NEW ct \in Containers, NEW im \in Outputs, NEW l
      \in Sealed, NEW remove \in BOOLEAN, CommitContainer(k, ct, im, l, remove)
      PROVE Whole'
  <2>1. config' = config /\ layers' = layers /\ blobs' = blobs /\ dirs' = dirs /\ torn' = torn
    BY <1>3, BeginFrame DEF CommitContainer
  <2> QED
    BY <2>1 DEF Whole, OnDisk, Present, Exists
<1>4. ASSUME NEW k \in Calls, NEW id \in Ids, RemoveContent(k, id) PROVE Whole'
  <2>1. config' = config /\ layers' = layers /\ blobs' = blobs /\ dirs' = dirs /\ torn' = torn
    BY <1>4, BeginFrame DEF RemoveContent
  <2> QED
    BY <2>1 DEF Whole, OnDisk, Present, Exists
<1>5. ASSUME NEW k \in Calls, LockShared(k) PROVE Whole'
  BY <1>5 DEF LockShared, disk, Whole, OnDisk, Present, Exists
<1>6. ASSUME NEW k \in Calls, NEW l \in Layers, LoadLocalLayer(k, l) PROVE
      Whole'
  BY <1>6 DEF LoadLocalLayer, Whole, OnDisk, Present, Exists
<1>7. ASSUME NEW k \in Calls, LinkContainer(k) PROVE Whole'
  BY <1>7 DEF LinkContainer, Whole, OnDisk, Present, Exists
<1>8. ASSUME NEW k \in Calls, WriteConfig(k) PROVE Whole'
  <2> SUFFICES ASSUME NEW i \in Ids, Present(i)' PROVE OnDisk(i)'
    BY DEF Whole, OnDisk
  <2>1. blobs' = blobs /\ layers' = layers /\ dirs' = dirs /\ i \notin torn
    BY <1>8, WriteFrame DEF Present
  <2>2. CASE Exists(i)
    BY <1>8, <2>1, <2>2, WriteFrame DEF Whole, OnDisk, Present
  <2>3. CASE ~Exists(i)
    <3>1. i = call[k].out /\ config'[i] = call[k].want
      BY <1>8, <2>3, WriteFrame DEF Present, Exists
    <3>2. k \notin stale /\ call[k].step = "link"
      BY <1>8, <2>3, <3>1, WriteFrame DEF Present
    <3>3. Provides(k) /\ call[k].todo = {} /\ (call[k].want.upper => call[k].out \in dirs)
      BY <1>8, <3>2 DEF Provided, Sound, WriteConfig, Linked
    <3> QED
      BY <2>1, <3>1, <3>3 DEF Provides, OnDisk
  <2> QED
    BY <2>2, <2>3
<1>9. ASSUME NEW k \in Calls, UnlinkConfig(k) PROVE Whole'
  <2> SUFFICES ASSUME NEW i \in Ids, Present(i)' PROVE OnDisk(i)'
    BY DEF Whole, OnDisk
  <2>1. i # call[k].out
    BY <1>9, UnlinkFrame DEF Present, Exists
  <2>2. blobs' = blobs /\ layers' = layers /\ dirs' = dirs /\ config'[i] = config[i] /\ i \notin torn
    BY <1>9, <2>1, UnlinkFrame DEF Present
  <2> QED
    BY <2>2 DEF Whole, OnDisk, Present, Exists
<1>10. ASSUME NEW k \in Calls, RemoveDir(k) PROVE Whole'
  <2> SUFFICES ASSUME NEW i \in Ids, Present(i)' PROVE OnDisk(i)'
    BY DEF Whole, OnDisk
  <2>1. blobs' = blobs /\ layers' = layers /\ config' = config /\ dirs' = dirs \ {call[k].out}
    BY <1>10 DEF RemoveDir
  <2>2. i \notin torn /\ i # call[k].out
    BY <1>10, <2>1 DEF RemoveDir, Present, Exists
  <2> QED
    BY <2>1, <2>2 DEF Whole, OnDisk, Present, Exists
<1>11. ASSUME NEW k \in Calls, Fail(k) PROVE Whole'
  BY <1>11 DEF Fail, disk, Whole, OnDisk, Present, Exists
<1>12. CASE GcLock
  BY <1>12 DEF GcLock, disk, Whole, OnDisk, Present, Exists
<1>13. CASE GcEnd
  BY <1>13 DEF GcEnd, disk, Whole, OnDisk, Present, Exists
<1>14. ASSUME NEW id \in Ids, GcRead(id) PROVE Whole'
  BY <1>14 DEF GcRead, disk, Whole, OnDisk, Present, Exists
<1>15. ASSUME NEW x \in Things, GcDelete(x) PROVE Whole'
  <2> SUFFICES ASSUME NEW i \in Ids, Present(i)' PROVE OnDisk(i)'
    BY DEF Whole, OnDisk
  <2>1. /\ blobs' = blobs \ {x} /\ layers' = layers \ {x} /\ dirs' = dirs \ {x}
        /\ config' = config /\ torn' = torn \cup Hurt(x) /\ gc.step = "sweep"
    BY <1>15 DEF GcDelete
  <2>2. gc.unread = {} /\ x \notin gc.kept
    BY <1>15 DEF GcDelete, Garbage
  <2>3. Present(i) /\ i \notin Hurt(x)
    BY <2>1 DEF Present, Exists
  <2>4. x \notin References(i)
    BY <2>1, <2>2, <2>3 DEF Present, Counted, Hurt
  <2>5. x \notin config[i].local /\ x \notin config[i].lazy /\ (config[i].upper => x # i)
    BY <2>4 DEF References, Lowers
  <2> QED
    BY <2>1, <2>3, <2>5 DEF Whole, OnDisk
<1>16. CASE Crash
  BY <1>16 DEF Crash, disk, Whole, OnDisk, Present, Exists
<1>17. CASE UNCHANGED vars
  BY <1>17 DEF vars, Whole, OnDisk, Present, Exists
<1> QED
  BY <1>1, <1>2, <1>3, <1>4, <1>5, <1>6, <1>7, <1>8, <1>9, <1>10, <1>11, <1>12,
    <1>13, <1>14, <1>15, <1>16, <1>17 DEF Next, CallStep, GcStep

\* The initial state.
LEMMA InitIInv ==
  ASSUME Init
  PROVE  IInv
<1>1. TypeOK
  BY EmptyTyped, SweepTyped DEF Init, TypeOK, NoSweep
<1>2. Locking /\ Counted /\ Listed
  BY DEF Init, Locking, Counted, Listed, NoCall, NoSweep, Step, Sweep
<1>3. Targets
  BY NoCallTarget DEF Init, Targets, Exists
<1>4. SourceStays /\ Inherited /\ Provided
  BY DEF Init, SourceStays, Inherited, Provided, Sound, NoCall, Step
<1>5. Whole
  BY DEF Init, Whole, OnDisk, Present, Exists
<1> QED
  BY <1>1, <1>2, <1>3, <1>4, <1>5 DEF IInv

-----------------------------------------------------------------------------
(* The refinement: what the store shows is the configurations themselves.  *)

Shown == [id \in Ids |-> IF Present(id) THEN config[id] ELSE NoConfig]

LEMMA ReadableIsShown ==
  ASSUME TypeOK, Whole
  PROVE  [id \in Ids |-> Readable(id)] = Shown
<1> SUFFICES ASSUME NEW id \in Ids PROVE Readable(id) = (IF Present(id) THEN config[id] ELSE NoConfig)
  BY DEF Shown
<1>1. CASE ~Present(id)
  BY <1>1 DEF Readable
<1>2. CASE Present(id)
  <2>1. config[id] \in Config /\ OnDisk(id)
    BY <1>2, ExistingConfig DEF Whole, Present
  <2>2. /\ config[id].local \cap blobs = config[id].local
        /\ config[id].lazy \cap layers = config[id].lazy
        /\ (config[id].upper /\ id \in dirs) = config[id].upper
    BY <2>1, ConfigFields DEF OnDisk
  <2>3. config[id] = [local |-> config[id].local, lazy |-> config[id].lazy, upper |-> config[id].upper]
    BY <2>1 DEF Config
  <2> QED
    BY <1>2, <2>2, <2>3 DEF Readable
<1> QED
  BY <1>1, <1>2

LEMMA AllShown ==
  ASSUME \A i \in Ids : Shown'[i] = Shown[i]
  PROVE  Shown' = Shown
BY DEF Shown

LEMMA OneShown ==
  ASSUME NEW id \in Ids, \A i \in Ids : i # id => Shown'[i] = Shown[i]
  PROVE  Shown' = [Shown EXCEPT ![id] = Shown'[id]]
BY DEF Shown

LEMMA GoneShown ==
  ASSUME NEW gone \in SUBSET Ids, \A i \in gone : Shown'[i] = NoConfig,
         \A i \in Ids \ gone : Shown'[i] = Shown[i]
  PROVE  Shown' = [id \in Ids |-> IF id \in gone THEN NoConfig ELSE Shown[id]]
BY DEF Shown

LEMMA SameShown ==
  ASSUME config' = config, torn' = torn
  PROVE  Shown' = Shown
BY DEF Shown, Present, Exists

\* What a step may do to the store.
StoreStep ==
  \/ Shown' = Shown
  \/ \E gone \in SUBSET Ids : Shown' = [id \in Ids |-> IF id \in gone THEN NoConfig ELSE Shown[id]]
  \/ \E id \in Ids, c \in Config : Shown[id] = NoConfig /\ Shown' = [Shown EXCEPT ![id] = c]

\* Every step of the registry is one of those.
LEMMA ShownStep ==
  ASSUME TypeOK, Targets, [Next]_vars
  PROVE  StoreStep
<1> USE IdsAssumption, ConfigAssumption, RemoteAssumption DEF StoreStep
<1>1. ASSUME NEW k \in Calls, NEW im \in Remote, LoadImage(k, im) PROVE
      StoreStep
  BY <1>1, BeginFrame, SameShown DEF LoadImage
<1>2. ASSUME NEW k \in Calls, NEW base \in Images \cup {NoId}, NEW ct \in
      Containers, CreateContainer(k, base, ct) PROVE StoreStep
  BY <1>2, BeginFrame, SameShown DEF CreateContainer
<1>3. ASSUME NEW k \in Calls, NEW ct \in Containers, NEW im \in Outputs, NEW l
      \in Sealed, NEW remove \in BOOLEAN, CommitContainer(k, ct, im, l, remove)
      PROVE StoreStep
  BY <1>3, BeginFrame, SameShown DEF CommitContainer
<1>4. ASSUME NEW k \in Calls, NEW id \in Ids, RemoveContent(k, id) PROVE
      StoreStep
  BY <1>4, BeginFrame, SameShown DEF RemoveContent
<1>5. ASSUME NEW k \in Calls, LockShared(k) PROVE StoreStep
  BY <1>5, SameShown DEF LockShared, disk
<1>6. ASSUME NEW k \in Calls, NEW l \in Layers, LoadLocalLayer(k, l) PROVE
      StoreStep
  BY <1>6, SameShown DEF LoadLocalLayer
<1>7. ASSUME NEW k \in Calls, LinkContainer(k) PROVE StoreStep
  BY <1>7, SameShown DEF LinkContainer
<1>8. ASSUME NEW k \in Calls, WriteConfig(k) PROVE StoreStep
  <2> DEFINE id == call[k].out
  <2>1. id \in Ids /\ call[k].want \in Config /\ config'[id] = call[k].want
    BY <1>8, WriteFrame, CallFields
  <2>2. \A i \in Ids : i # id => Shown'[i] = Shown[i]
    BY <1>8, WriteFrame DEF Shown, Present, Exists
  <2>3. Shown' = [Shown EXCEPT ![id] = Shown'[id]]
    BY <2>1, <2>2, OneShown
  <2>4. CASE Exists(id)
    <3>1. config'[id] = config[id] /\ (id \in torn' <=> id \in torn)
      BY <1>8, <2>1, <2>4, WriteFrame
    <3>2. Shown'[id] = Shown[id]
      BY <2>1, <3>1 DEF Shown, Present, Exists
    <3> QED
      BY <2>2, <3>2, AllShown
  <2>5. CASE ~Exists(id)
    <3>1. Shown[id] = NoConfig /\ Shown'[id] \in Config \cup {NoConfig}
      BY <2>1, <2>5 DEF Shown, Present
    <3>2. CASE Shown'[id] = NoConfig
      BY <2>2, <3>1, <3>2, AllShown
    <3>3. CASE Shown'[id] \in Config
      <4>1. id \in Ids /\ Shown[id] = NoConfig /\ Shown' = [Shown EXCEPT ![id] = Shown'[id]]
        BY <2>1, <2>3, <3>1
      <4> QED
        BY <3>3, <4>1
    <3> QED
      BY <3>1, <3>2, <3>3
  <2> QED
    BY <2>4, <2>5
<1>9. ASSUME NEW k \in Calls, UnlinkConfig(k) PROVE StoreStep
  <2> DEFINE id == call[k].out
  <2>1. id \in Ids /\ Shown'[id] = NoConfig
    BY <1>9, UnlinkFrame DEF Shown, Present, Exists
  <2>2. \A i \in Ids : i # id => Shown'[i] = Shown[i]
    BY <1>9, UnlinkFrame DEF Shown, Present, Exists
  <2>3. Shown' = [i \in Ids |-> IF i \in {id} THEN NoConfig ELSE Shown[i]]
    <3>1. {id} \in SUBSET Ids /\ \A i \in {id} : Shown'[i] = NoConfig
      BY <2>1
    <3>2. \A i \in Ids \ {id} : Shown'[i] = Shown[i]
      BY <2>2
    <3> QED
      BY ONLY <3>1, <3>2, GoneShown
  <2> QED
    BY <2>1, <2>3
<1>10. ASSUME NEW k \in Calls, RemoveDir(k) PROVE StoreStep
  <2> DEFINE id == call[k].out
  <2>1. /\ id \in Ids /\ config' = config
        /\ \A i \in Ids : i # id => (i \in torn' <=> i \in torn)
        /\ Exists(id) => id \in torn'
    BY <1>10 DEF RemoveDir, At, Targets, CallTarget
  <2>2. Shown'[id] = NoConfig
    BY <2>1 DEF Shown, Present, Exists
  <2>3. \A i \in Ids : i # id => Shown'[i] = Shown[i]
    BY <2>1 DEF Shown, Present, Exists
  <2>4. Shown' = [i \in Ids |-> IF i \in {id} THEN NoConfig ELSE Shown[i]]
    <3>1. {id} \in SUBSET Ids /\ \A i \in {id} : Shown'[i] = NoConfig
      BY <2>1, <2>2
    <3>2. \A i \in Ids \ {id} : Shown'[i] = Shown[i]
      BY <2>3
    <3> QED
      BY ONLY <3>1, <3>2, GoneShown
  <2> QED
    BY <2>1, <2>4
<1>11. ASSUME NEW k \in Calls, Fail(k) PROVE StoreStep
  BY <1>11, SameShown DEF Fail, disk
<1>12. CASE GcLock
  BY <1>12, SameShown DEF GcLock, disk
<1>13. CASE GcEnd
  BY <1>13, SameShown DEF GcEnd, disk
<1>14. ASSUME NEW id \in Ids, GcRead(id) PROVE StoreStep
  BY <1>14, SameShown DEF GcRead, disk
<1>15. ASSUME NEW x \in Things, GcDelete(x) PROVE StoreStep
  <2>1. config' = config /\ torn' = torn \cup Hurt(x)
    BY <1>15 DEF GcDelete
  <2>2. Hurt(x) \in SUBSET Ids
    BY DEF Hurt, TypeOK
  <2>3. \A i \in Hurt(x) : Shown'[i] = NoConfig
    BY <2>1, <2>2 DEF Shown, Present
  <2>4. \A i \in Ids \ Hurt(x) : Shown'[i] = Shown[i]
    BY <2>1 DEF Shown, Present, Exists
  <2>5. Shown' = [i \in Ids |-> IF i \in Hurt(x) THEN NoConfig ELSE Shown[i]]
    BY <2>2, <2>3, <2>4, GoneShown
  <2> QED
    BY <2>2, <2>5
<1>16. CASE Crash
  BY <1>16, SameShown DEF Crash, disk
<1>17. CASE UNCHANGED vars
  BY <1>17, SameShown DEF vars, disk
<1> QED
  <2> HIDE DEF StoreStep
  <2> QED
    BY <1>1, <1>2, <1>3, <1>4, <1>5, <1>6, <1>7, <1>8, <1>9, <1>10, <1>11, <1>12,
      <1>13, <1>14, <1>15, <1>16, <1>17 DEF Next, CallStep, GcStep

-----------------------------------------------------------------------------
(* The theorems.                                                           *)

\* The invariant that carries the others: every step of every call, of the
\* collector and of a crash keeps it.
THEOREM Inductive == Spec => []IInv
<1>1. Init => IInv
  BY InitIInv
<1>2. IInv /\ [Next]_vars => IInv'
  BY TypeStep, LockingStep, TargetsStep, SourceStep, InheritedStep, ProvidedStep, CountedStep,
     ListedStep, WholeStep DEF IInv
<1> QED
  BY <1>1, <1>2, PTL DEF Spec

\* The values of the variables.
THEOREM TypeCorrect == Spec => []TypeOK
BY Inductive, PTL DEF IInv

\* Content that exists is whole, whatever is created, committed, removed and
\* collected beside it, for any sharing of layers (registry.service.ts).
THEOREM ContentIsWhole == Spec => []Whole
BY Inductive, PTL DEF IInv

\* When a collection that nothing disturbed has ended, all that is on the disk
\* is referred to (garbageCollect).
THEOREM Collected == Spec => []CollectsAll
<1>1. IInv => CollectsAll
  <2> SUFFICES ASSUME IInv, gc.step = "sweep", gc.unread = {}, Garbage = {}, gc.calm
               PROVE  layers \cup dirs \subseteq Referred
    BY DEF CollectsAll
  <2>1. layers \cup dirs \subseteq gc.listed /\ gc.kept \subseteq Referred
    BY DEF IInv, Listed
  <2>2. gc.listed \subseteq gc.kept
    BY DEF Garbage
  <2> QED
    BY <2>1, <2>2
<1> QED
  BY <1>1, Inductive, PTL

\* The registry implements ContentStore: although an image is put together in
\* many steps, some of them shared with other calls, it appears at once, is
\* never changed in place and disappears at once.
THEOREM Refinement == Spec => ImplementsStore
<1>1. Init => Store!Init
  <2> SUFFICES ASSUME Init PROVE Store!Init
    OBVIOUS
  <2>1. \A id \in Ids : Readable(id) = NoConfig
    BY DEF Init, Readable, Present, Exists
  <2> QED
    BY <2>1 DEF Store!Init
<1>2. IInv => [id \in Ids |-> Readable(id)] = Shown
  BY ReadableIsShown DEF IInv
<1>3. (IInv => [id \in Ids |-> Readable(id)] = Shown)'
  BY <1>2, PTL
<1>4. IInv /\ IInv' /\ [Next]_vars => [Store!Next]_([id \in Ids |-> Readable(id)])
  <2> SUFFICES ASSUME IInv, IInv', [Next]_vars PROVE [Store!Next]_([id \in Ids |-> Readable(id)])
    OBVIOUS
  <2>1. [id \in Ids |-> Readable(id)] = Shown
    BY <1>2
  <2>2. [id \in Ids |-> Readable(id)]' = Shown'
    BY <1>3
  <2>3. StoreStep
    BY ShownStep DEF IInv
  <2> QED
    BY <2>1, <2>2, <2>3 DEF StoreStep, Store!Next, Store!Retract, Store!Publish
<1> QED
  BY <1>1, <1>4, Inductive, PTL DEF Spec, ImplementsStore, Store!Spec
=============================================================================
