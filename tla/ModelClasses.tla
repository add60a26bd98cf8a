----------------------------- MODULE ModelClasses -----------------------------
(***************************************************************************)
(* Which classes a model file knows.  A page of the web service            *)
(* (services/web/src/routes/models.py) asks its own cache and then, over   *)
(* Redis, the detector (services/detector/src/model_classes_handler.py),   *)
(* which asks its cache, the models its cameras have loaded, and at last   *)
(* the file.  Both caches are keyed by the file's stamp: its modification  *)
(* time and size.  Meanwhile the file is uploaded anew and cameras load    *)
(* and release it.                                                         *)
(*                                                                         *)
(* One model file is modelled; its contents are numbered in the order of   *)
(* the uploads, and so are its stamps.                                     *)
(***************************************************************************)
EXTENDS Naturals, FiniteSets, Sequences, SequencesExt

CONSTANTS
    Viewers,        \* pages that ask
    MaxUploads,     \* bound: uploads after the first
    MaxAsks,        \* bound: requests of a page
    CacheMax,       \* _CACHE_MAX, _CLASSES_CACHE_MAX
    MaxRpcFaults    \* bound: requests and replies that Redis loses, waits that end too early

ASSUME ClassesAssumption == MaxUploads \in Nat /\ MaxAsks \in Nat /\ CacheMax \in Nat \ {0}

VARIABLES
    content,        \* the content of the file now, and with it its stamp
    uploading,      \* "no", "writing" a temporary file, "replaced" and not yet forgotten
    poolContent,    \* the content the detector's cameras have loaded, 0 when none has
    viewer,         \* each page: where it is, the stamp it has read, the content it was told of
    rpcQueue,       \* requests the detector's subscription holds
    introspection,  \* the handler's thread
    detectorCache, webCache,  \* sequences of entries, the oldest first
    fromPool,       \* stamps whose classes were taken from a model that was loaded before
    rpcFaults

classVars == <<content, uploading, poolContent, viewer, rpcQueue, introspection, detectorCache, webCache,
               fromPool, rpcFaults>>

Contents == 1 .. MaxUploads + 1
Entry == [stamp : Contents, classes : Contents]
Request == [page : Viewers, number : 1 .. MaxAsks]
NoRequest == [page |-> CHOOSE p \in Viewers : TRUE, number |-> 1]
AtEase == [at |-> "listening", request |-> NoRequest, stamp |-> 0, classes |-> 0]

ClassesTypeOK ==
    /\ content \in Contents /\ uploading \in {"no", "writing", "replaced"}
    /\ poolContent \in {0} \cup Contents
    /\ viewer \in [Viewers -> [at : {"idle", "stat", "asked", "shown", "refused"}, stamp : {0} \cup Contents,
                               since : {0} \cup Contents, told : {0} \cup Contents, request : 0 .. MaxAsks]]
    /\ \A i \in 1 .. Len(rpcQueue) : rpcQueue[i] \in Request
    /\ introspection.at \in {"listening", "stat", "extracted"}
    /\ detectorCache \in Seq(Entry) /\ Len(detectorCache) <= CacheMax
    /\ webCache \in Seq(Entry) /\ Len(webCache) <= CacheMax
    /\ fromPool \subseteq Contents

ClassesInit ==
    /\ content = 1 /\ uploading = "no" /\ poolContent \in {0, 1}
    /\ viewer = [p \in Viewers |-> [at |-> "idle", stamp |-> 0, since |-> 0, told |-> 0,
                              request |-> 0]]
    /\ rpcQueue = <<>> /\ introspection = AtEase
    /\ detectorCache = <<>> /\ webCache = <<>>
    /\ fromPool = {} /\ rpcFaults = 0

RpcFault == rpcFaults < MaxRpcFaults /\ rpcFaults' = rpcFaults + 1

\* A slip of the next: the path is the whole key.
StampAlways(n) == 1
\* The key of both caches.
Stamp(n) == n

\* A look into a cache: the classes under a key, 0 for a miss.
Cached(cache, stamp) ==
    LET hit == {e.classes : e \in {f \in ToSet(cache) : f.stamp = stamp}}
    IN  IF hit = {} THEN {0} ELSE hit

\* A full cache loses its oldest entry; an entry of the same key is replaced in place.
Put(cache, stamp, classes) ==
    LET room == IF Len(cache) >= CacheMax THEN Tail(cache) ELSE cache
        e == [stamp |-> stamp, classes |-> classes]
    IN  IF \E i \in DOMAIN room : room[i].stamp = stamp
        THEN [i \in DOMAIN room |-> IF room[i].stamp = stamp THEN e ELSE room[i]]
        ELSE Append(room, e)

-----------------------------------------------------------------------------
(* upload_model: a temporary file, os.replace, and then the web service forgets the path. *)

Upload ==
    /\ uploading = "no" /\ content <= MaxUploads
    /\ uploading' = "writing"
    /\ UNCHANGED <<content, poolContent, viewer, rpcQueue, introspection, detectorCache, webCache, fromPool, rpcFaults>>

ReplaceModel ==
    /\ uploading = "writing"
    /\ \/ content' = content + 1 /\ uploading' = "replaced" /\ UNCHANGED rpcFaults
       \/ RpcFault /\ uploading' = "no" /\ UNCHANGED content
    /\ UNCHANGED <<poolContent, viewer, rpcQueue, introspection, detectorCache, webCache, fromPool>>

ForgetClasses ==
    /\ uploading = "replaced"
    /\ uploading' = "no" /\ webCache' = <<>>
    /\ UNCHANGED <<content, poolContent, viewer, rpcQueue, introspection, detectorCache, fromPool, rpcFaults>>

\* A camera starts with the model, or the last one that uses it stops.
PoolChanges ==
    /\ poolContent' = IF poolContent = 0 THEN content ELSE 0
    /\ UNCHANGED <<content, uploading, viewer, rpcQueue, introspection, detectorCache, webCache, fromPool, rpcFaults>>

-----------------------------------------------------------------------------
(* model_classes, with _fetch_model_classes_via_redis. *)

AskWebCache(p) ==
    /\ viewer[p].at = "idle" /\ viewer[p].request < MaxAsks
    /\ \E hit \in Cached(webCache, Stamp(content)) :
           viewer' = [viewer EXCEPT ![p] =
               [at |-> IF hit = 0 THEN "stat" ELSE "shown", stamp |-> Stamp(content), since |-> content,
                told |-> hit, request |-> viewer[p].request + 1]]
    /\ UNCHANGED <<content, uploading, poolContent, rpcQueue, introspection, detectorCache, webCache, fromPool, rpcFaults>>

\* Subscribed to the reply's channel first, then the request; it reaches a detector that listens.
AskDetector(p) ==
    /\ viewer[p].at = "stat"
    /\ viewer' = [viewer EXCEPT ![p].at = "asked"]
    /\ \/ rpcQueue' = Append(rpcQueue, [page |-> p, number |-> viewer[p].request]) /\ UNCHANGED rpcFaults
       \/ RpcFault /\ UNCHANGED rpcQueue
    /\ UNCHANGED <<content, uploading, poolContent, introspection, detectorCache, webCache, fromPool>>

\* The wait is over without a reply.
AskTimesOut(p) ==
    /\ viewer[p].at = "asked"
    /\ RpcFault
    /\ viewer' = [viewer EXCEPT ![p].at = "refused"]
    /\ UNCHANGED <<content, uploading, poolContent, rpcQueue, introspection, detectorCache, webCache, fromPool>>

LookAgain(p) ==
    /\ viewer[p].at \in {"shown", "refused"}
    /\ viewer' = [viewer EXCEPT ![p] = [at |-> "idle", stamp |-> 0, since |-> 0, told |-> 0, request |-> @.request]]
    /\ UNCHANGED <<content, uploading, poolContent, rpcQueue, introspection, detectorCache, webCache, fromPool, rpcFaults>>

-----------------------------------------------------------------------------
(* ModelClassesHandler: one request at a time. *)

\* _introspect up to its cache.
TakeQuery ==
    /\ introspection.at = "listening" /\ rpcQueue # <<>>
    /\ rpcQueue' = Tail(rpcQueue)
    /\ \E hit \in Cached(detectorCache, Stamp(content)) :
           introspection' = [at |-> IF hit = 0 THEN "stat" ELSE "extracted", request |-> Head(rpcQueue),
                             stamp |-> Stamp(content), classes |-> hit]
    /\ UNCHANGED <<content, uploading, poolContent, viewer, detectorCache, webCache, fromPool, rpcFaults>>

\* _extract_classes: the model a camera has loaded, or the file as it is by now; then the cache.
ExtractClasses ==
    /\ introspection.at = "stat"
    /\ LET classes == IF poolContent # 0 THEN poolContent ELSE content
       IN  /\ introspection' = [introspection EXCEPT !.at = "extracted", !.classes = classes]
           /\ detectorCache' = Put(detectorCache, introspection.stamp, classes)
           /\ fromPool' = IF poolContent # 0 /\ poolContent # content THEN fromPool \cup {content} ELSE fromPool
    /\ UNCHANGED <<content, uploading, poolContent, viewer, rpcQueue, webCache, rpcFaults>>

\* A slip of the next: one channel for all requests of a page.
AwaitsAny(r) == viewer[r.page].at = "asked"
Awaits(r) == viewer[r.page].at = "asked" /\ viewer[r.page].request = r.number

\* The reply, on a channel of the request's own: a page that has given up is not there to hear it,
\* and the one that waits keeps it under the stamp it read before it asked.
Reply ==
    /\ introspection.at = "extracted"
    /\ introspection' = AtEase
    /\ LET p == introspection.request.page
       IN  \/ /\ Awaits(introspection.request)
              /\ viewer' = [viewer EXCEPT ![p].at = "shown", ![p].told = introspection.classes]
              /\ webCache' = Put(webCache, viewer[p].stamp, introspection.classes)
              /\ UNCHANGED rpcFaults
           \/ /\ IF Awaits(introspection.request) THEN RpcFault ELSE UNCHANGED rpcFaults
              /\ UNCHANGED <<viewer, webCache>>
    /\ UNCHANGED <<content, uploading, poolContent, rpcQueue, detectorCache, fromPool>>

ClassesNext ==
    \/ Upload \/ ReplaceModel \/ ForgetClasses \/ PoolChanges
    \/ \E p \in Viewers : AskWebCache(p) \/ AskDetector(p) \/ AskTimesOut(p) \/ LookAgain(p)
    \/ TakeQuery \/ ExtractClasses \/ Reply

ClassesSpec == ClassesInit /\ [][ClassesNext]_classVars

-----------------------------------------------------------------------------
\* What either cache holds for the file as it is now are its classes, however uploads fell between
\* the two services' looks at it, unless they were taken from a model loaded before an upload.
CachesFollowUploads ==
    content \notin fromPool =>
        \A e \in ToSet(detectorCache) \cup ToSet(webCache) : e.stamp = Stamp(content) => e.classes = content

\* A page is shown the classes the file had at some time since it asked.
ViewersSeeTheFile ==
    \A p \in Viewers : viewer[p].at = "shown" =>
        viewer[p].told >= viewer[p].since \/ \E n \in fromPool : n >= viewer[p].since

\* Uploads, failures and answers that overtake each other leave no cache and no
\* viewer behind the file.
ClassesHold == ClassesTypeOK /\ CachesFollowUploads /\ ViewersSeeTheFile

\* An uploaded file's classes are not taken from the file it replaced.
\* The code does not keep this; TLC refutes it (README, section 3).
UploadChangesTheClasses ==
    \A p \in Viewers : viewer[p].at = "shown" => viewer[p].told >= viewer[p].since
=============================================================================
