--------------------------- MODULE BlockRegistry ---------------------------
(***************************************************************************)
(* The content half of the agent's block registry (registry.service.ts):   *)
(* images and containers made of layers that several of them share, calls  *)
(* that create, commit and remove content side by side, and a collector    *)
(* that deletes the layers no content refers to.  All state is on disk: a  *)
(* directory of layers, one of writable containers, and one configuration  *)
(* file per content id, whose existence is what makes the content exist.   *)
(* The only lock is the flock on run/gc-signal: shared for a call that     *)
(* adds content, exclusive for the collector; removal takes none.          *)
(***************************************************************************)
EXTENDS Naturals, FiniteSets

CONSTANTS Images,      \* ids with the prefix im_
          Containers,  \* ids with the prefix ct_
          Layers,      \* layer digests
          Remote,      \* the images a remote repository can provide
          Outputs,     \* the images that containers are committed to
          Sealed,      \* the layers a container's data can be committed as
          Manifest,    \* Manifest[im]: the layers of a remote image
          Calls,       \* the calls under way at a time
          NoId, NoConfig

Ids == Images \cup Containers

\* The parts of a block configuration that matter here: lower layers whose
\* file must be on disk, lower layers that are pulled lazily and need only
\* their directory, and whether there is a writable upper layer.
Config == [local : SUBSET Layers, lazy : SUBSET Layers, upper : BOOLEAN]

ASSUME IdsAssumption == Images \cap Containers = {} /\ NoId \notin Ids
ASSUME ConfigAssumption == NoConfig \notin Config
ASSUME RemoteAssumption ==
  /\ Remote \subseteq Images /\ Outputs \subseteq Images /\ Sealed \subseteq Layers
  /\ Manifest \in [Remote -> [local : SUBSET Layers, lazy : SUBSET Layers]]

VARIABLES
  config,   \* block_config/<id>
  layers,   \* the directories under layers/
  blobs,    \* the layers whose overlaybd.commit is there
  dirs,     \* the containers whose data and index are under containers/
  call,     \* the calls under way
  readers,  \* those that hold the flock shared
  gc,       \* the collector; it holds the flock exclusively unless idle
  stale,    \* history: calls whose source or target was removed under them
  torn,     \* history: content written by such a call, or with a file deleted
  misread   \* history: existing content the collector failed to read, still whole

disk == <<config, layers, blobs, dirs>>
vars == <<disk, call, readers, gc, stale, torn, misread>>

Empty == [local |-> {}, lazy |-> {}, upper |-> FALSE]
Lowers(c) == c.local \cup c.lazy
Exists(id) == config[id] # NoConfig
Things == Layers \cup Containers

\* A call: the id it writes or removes, the id it reads its lower layers from,
\* the configuration it is about to write, the layers it still has to link,
\* and whether it is a commit that removes its container.
Step(step, target, source, c, links, remove) ==
  [step |-> step, out |-> target, src |-> source, want |-> c, todo |-> links, drop |-> remove]
NoCall == Step("idle", NoId, NoId, Empty, {}, FALSE)

\* A collection: the configurations not read yet, what the others refer to, the
\* layers and containers listed and not deleted, and (history) whether nothing
\* has been removed since it began.
Sweep(step, left, refs, things, undisturbed) ==
  [step |-> step, unread |-> left, kept |-> refs, listed |-> things, calm |-> undisturbed]
NoSweep == Sweep("idle", {}, {}, {}, TRUE)

CallRecord ==
  [step : {"idle", "lock", "link", "unlink", "rmdir"}, out : Ids \cup {NoId}, src : Ids \cup {NoId},
   want : Config, todo : SUBSET Layers, drop : BOOLEAN]
GcRecord ==
  [step : {"idle", "sweep"}, unread : SUBSET Ids, kept : SUBSET Things, listed : SUBSET Things,
   calm : BOOLEAN]

TypeOK ==
  /\ config \in [Ids -> Config \cup {NoConfig}]
  /\ layers \in SUBSET Layers /\ blobs \in SUBSET Layers /\ dirs \in SUBSET Containers
  /\ call \in [Calls -> CallRecord]
  /\ readers \in SUBSET Calls
  /\ gc \in GcRecord
  /\ stale \in SUBSET Calls /\ torn \in SUBSET Ids /\ misread \in SUBSET Ids

Init ==
  /\ config = [id \in Ids |-> NoConfig]
  /\ layers = {} /\ blobs = {} /\ dirs = {}
  /\ call = [k \in Calls |-> NoCall]
  /\ readers = {} /\ gc = NoSweep
  /\ stale = {} /\ torn = {} /\ misread = {}

-----------------------------------------------------------------------------
(* Starting a call.                                                        *)

Begin(k, s, misled) ==
  /\ call[k].step = "idle"
  /\ call' = [call EXCEPT ![k] = s]
  /\ stale' = IF misled THEN stale \cup {k} ELSE stale
  /\ UNCHANGED <<disk, readers, gc, torn, misread>>

\* loadImageFromRemoteRepo: the manifest is fetched, the layers that are not
\* pulled lazily are downloaded to run/.
LoadImage(k, im) ==
  LET c == [local |-> Manifest[im].local, lazy |-> Manifest[im].lazy, upper |-> FALSE]
  IN  Begin(k, Step("lock", im, NoId, c, Lowers(c), FALSE), FALSE)

\* createContainer: the configuration of the image is read before the flock
\* is taken; without an image the new disk is formatted.
CreateContainer(k, base, ct) ==
  /\ base # NoId => Exists(base)
  /\ LET c == IF base = NoId THEN Empty ELSE config[base]
     IN  Begin(k, Step("lock", ct, base, [c EXCEPT !.upper = TRUE], {}, FALSE), base \in torn)

\* commitContainer before the flock: it reads the container's configuration and
\* has overlaybd-commit turn the container's data into one more layer.  Without
\* the container it does nothing: the image is there and taken for the result,
\* or it throws.
CommitContainer(k, ct, im, l, remove) ==
  /\ Exists(ct) /\ ct \in dirs
  /\ LET c == [config[ct] EXCEPT !.local = @ \cup {l}, !.upper = FALSE]
     IN  Begin(k, Step("lock", im, ct, c, {l}, remove), ct \in torn)

\* removeContent; hiding the device first is the business of BlockDevices.
RemoveContent(k, id) == Begin(k, Step("unlink", id, NoId, Empty, {}, FALSE), FALSE)

-----------------------------------------------------------------------------
(* The steps of a call.                                                    *)

At(k, step) == call[k].step = step

\* A call is over; closing its file handle releases the flock.
End(k) ==
  /\ call' = [call EXCEPT ![k] = NoCall]
  /\ readers' = readers \ {k}

\* acquireFlock, shared.
LockShared(k) ==
  /\ At(k, "lock") /\ gc.step = "idle"
  /\ call' = [call EXCEPT ![k].step = "link"]
  /\ readers' = readers \cup {k}
  /\ UNCHANGED <<disk, gc, stale, torn, misread>>

\* loadLocalLayer: the directory, and the file unless the layer is lazy.  A
\* file that is there already is kept and shared.
LoadLocalLayer(k, l) ==
  /\ At(k, "link") /\ l \in call[k].todo
  /\ layers' = layers \cup {l}
  /\ blobs' = IF l \in call[k].want.local THEN blobs \cup {l} ELSE blobs
  /\ call' = [call EXCEPT ![k].todo = @ \ {l}]
  /\ UNCHANGED <<config, dirs, readers, gc, stale, torn, misread>>

\* createContainer links the new data and index, or keeps those that are there.
LinkContainer(k) ==
  /\ At(k, "link") /\ call[k].want.upper /\ call[k].out \notin dirs
  /\ dirs' = dirs \cup {call[k].out}
  /\ UNCHANGED <<config, layers, blobs, call, readers, gc, stale, torn, misread>>

Linked(k) == call[k].todo = {} /\ (call[k].want.upper => call[k].out \in dirs)

\* What a call does once its configuration is there: a commit goes on to
\* remove its container.
AfterWrite(k) ==
  IF call[k].drop THEN Step("unlink", call[k].src, NoId, Empty, {}, FALSE) ELSE NoCall

\* A write that replaces the configuration that is there.
WriteOver(k) ==
  /\ At(k, "link") /\ Linked(k)
  /\ config' = [config EXCEPT ![call[k].out] = call[k].want]
  /\ torn' = IF k \in stale THEN torn \cup {call[k].out} ELSE torn
  /\ call' = [call EXCEPT ![k] = AfterWrite(k)]
  /\ readers' = readers \ {k}
  /\ stale' = stale \ {k}
  /\ UNCHANGED <<layers, blobs, dirs, gc, misread>>

\* idempotentConfigWrite: link(2) publishes the file at once; a file with the
\* same content is success, any other one an error (Fail).
WriteConfig(k) ==
  /\ At(k, "link") /\ Linked(k)
  /\ \/ /\ ~Exists(call[k].out)
        /\ config' = [config EXCEPT ![call[k].out] = call[k].want]
        /\ torn' = IF k \in stale THEN torn \cup {call[k].out} ELSE torn
     \/ config[call[k].out] = call[k].want /\ UNCHANGED <<config, torn>>
  /\ call' = [call EXCEPT ![k] = AfterWrite(k)]
  /\ readers' = readers \ {k}
  /\ stale' = stale \ {k}
  /\ UNCHANGED <<layers, blobs, dirs, gc, misread>>

\* The calls about to write content that use id while it is removed.
Using(id) == {j \in Calls : call[j].step \in {"lock", "link"} /\ id \in {call[j].src, call[j].out}}

\* _removeContent, first the configuration ...
UnlinkConfig(k) ==
  LET id == call[k].out IN
  /\ At(k, "unlink")
  /\ config' = [config EXCEPT ![id] = NoConfig]
  /\ call' = [call EXCEPT ![k] =
                IF id \in Containers THEN [@ EXCEPT !.step = "rmdir"] ELSE NoCall]
  /\ stale' = stale \cup Using(id)
  /\ torn' = torn \ {id}
  /\ gc' = [gc EXCEPT !.calm = @ /\ gc.step = "idle"]
  /\ misread' = misread \ {id}
  /\ UNCHANGED <<layers, blobs, dirs, readers>>

\* ... then the container's files.
RemoveDir(k) ==
  LET id == call[k].out IN
  /\ At(k, "rmdir")
  /\ dirs' = dirs \ {id}
  /\ stale' = stale \cup Using(id)
  /\ torn' = IF Exists(id) THEN torn \cup {id} ELSE torn
  /\ End(k)
  /\ UNCHANGED <<config, layers, blobs, gc, misread>>

\* A call throws: a download, a disk operation, a configuration that is gone
\* or is another one.  What it has linked stays.
Fail(k) ==
  /\ ~At(k, "idle")
  /\ End(k)
  /\ stale' = stale \ {k}
  /\ UNCHANGED <<disk, gc, torn, misread>>

-----------------------------------------------------------------------------
(* garbageCollect.                                                         *)

References(id) == Lowers(config[id]) \cup (IF config[id].upper THEN {id} ELSE {})

\* A collector that does not wait for the calls that add content.
GcNoLock ==
  /\ gc.step = "idle"
  /\ gc' = Sweep("sweep", {id \in Ids : Exists(id)}, {}, layers \cup dirs, TRUE)
  /\ UNCHANGED <<disk, call, readers, stale, torn, misread>>

\* acquireFlock, exclusive; the directories are listed, then the configurations.
GcLock ==
  LET listed == {id \in Ids : Exists(id)} IN
  /\ gc.step = "idle" /\ readers = {}
  /\ gc' = Sweep("sweep", listed, {}, layers \cup dirs, TRUE)
  /\ UNCHANGED <<disk, call, readers, stale, torn, misread>>

\* A configuration that cannot be read counts as empty: one that has been
\* removed meanwhile, and just so one that is there, when the file cannot be
\* opened or parsed.
GcRead(id) ==
  /\ gc.step = "sweep" /\ id \in gc.unread
  /\ \/ /\ gc' = [gc EXCEPT !.unread = @ \ {id},
                            !.kept = IF Exists(id) THEN @ \cup References(id) ELSE @]
        /\ UNCHANGED misread
     \/ /\ Exists(id)
        /\ gc' = [gc EXCEPT !.unread = @ \ {id}]
        /\ misread' = misread \cup {id}
  /\ UNCHANGED <<disk, call, readers, stale, torn>>

\* A collector that forgets the containers.
GarbageLayers == IF gc.unread = {} THEN (gc.listed \ gc.kept) \cap Layers ELSE {}

\* Once all are read, what none of them refers to is deleted.
Garbage == IF gc.unread = {} THEN gc.listed \ gc.kept ELSE {}

\* Content that loses a file because its configuration was not read.
Hurt(x) == {id \in misread : x \in References(id)}

GcDelete(x) ==
  /\ gc.step = "sweep" /\ x \in Garbage
  /\ gc' = [gc EXCEPT !.listed = @ \ {x}]
  /\ layers' = layers \ {x} /\ blobs' = blobs \ {x} /\ dirs' = dirs \ {x}
  /\ torn' = torn \cup Hurt(x)
  /\ stale' = stale \cup {k \in Calls : call[k].step = "lock" /\ call[k].src \in Hurt(x)}
  /\ misread' = misread \ Hurt(x)
  /\ UNCHANGED <<config, call, readers>>

GcEnd ==
  /\ gc.step = "sweep" /\ gc.unread = {} /\ Garbage = {}
  /\ gc' = NoSweep
  /\ misread' = {}
  /\ UNCHANGED <<disk, call, readers, stale, torn>>

\* The agent dies and starts again (initializeRegistry): the calls and the
\* locks are gone, run/ is deleted, the rest of the disk stays as it is.
Crash ==
  /\ call' = [k \in Calls |-> NoCall]
  /\ readers' = {} /\ gc' = NoSweep /\ stale' = {} /\ misread' = {}
  /\ UNCHANGED <<disk, torn>>

CallStep(k) ==
  \/ \E im \in Remote : LoadImage(k, im)
  \/ \E base \in Images \cup {NoId}, ct \in Containers : CreateContainer(k, base, ct)
  \/ \E ct \in Containers, im \in Outputs, l \in Sealed, remove \in BOOLEAN :
       CommitContainer(k, ct, im, l, remove)
  \/ \E id \in Ids : RemoveContent(k, id)
  \/ LockShared(k)
  \/ \E l \in Layers : LoadLocalLayer(k, l)
  \/ LinkContainer(k) \/ WriteConfig(k)
  \/ UnlinkConfig(k) \/ RemoveDir(k) \/ Fail(k)

GcStep ==
  \/ GcLock \/ GcEnd
  \/ \E id \in Ids : GcRead(id)
  \/ \E x \in Things : GcDelete(x)

Next == (\E k \in Calls : CallStep(k)) \/ GcStep \/ Crash

Spec == Init /\ [][Next]_vars

-----------------------------------------------------------------------------
Present(id) == Exists(id) /\ id \notin torn
OnDisk(id) ==
  /\ config[id].local \subseteq blobs
  /\ config[id].lazy \subseteq layers
  /\ config[id].upper => id \in dirs

\* Content that exists is whole: every file its configuration names is on the
\* disk, although layers are shared, calls overlap and the collector deletes.
\* Two exceptions the code leaves open: content written by a call whose source
\* or target was removed while it ran, and content that a collector deleted a
\* file of because it had failed to read the configuration.
Whole == \A id \in Ids : Present(id) => OnDisk(id)

\* After a collection nothing is left on the disk that no content refers to,
\* whatever failed calls and crashes had left there, unless content was removed
\* during the collection itself.
Referred == UNION {References(id) : id \in {i \in Ids : Exists(i)}}
CollectsAll ==
  (gc.step = "sweep" /\ gc.unread = {} /\ Garbage = {} /\ gc.calm)
    => layers \cup dirs \subseteq Referred

\* The registry keeps the promise of ContentStore for all content but the torn.
Readable(id) ==
  IF ~Present(id) THEN NoConfig
  ELSE [local |-> config[id].local \cap blobs, lazy |-> config[id].lazy \cap layers,
        upper |-> config[id].upper /\ id \in dirs]
Store == INSTANCE ContentStore WITH
  Contents <- Config, Absent <- NoConfig, store <- [id \in Ids |-> Readable(id)]
ImplementsStore == Store!Spec
=============================================================================
